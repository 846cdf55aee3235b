--------------------------- MODULE Services_proofs ---------------------------
(***************************************************************************)
(* Proofs about the tree of instances (Lifecycle) and about what instances *)
(* use while they run: the registry of a capability package (Seam), the    *)
(* timers (Timer), the scopes of live subjects (Scoped) and the record     *)
(* channel (LogChannel), for every tree and any number of items,           *)
(* listeners, helpers, calls, subjects, exporters and records.             *)
(***************************************************************************)
EXTENDS Lifecycle, LogChannel, Seam, Timer, Scoped,
        SequenceTheorems, FiniteSetTheorems, WellFoundedInduction, TLAPS

-----------------------------------------------------------------------------
\* Lifecycle

\* Every state and every edge of the tree stays of its type, and the root, once
\* there, is never unmounted.
THEOREM TypeCorrect == Spec => []TypeOK
<1>1. Init => TypeOK
  BY RootAssumption DEF Init, TypeOK, States
<1>2. TypeOK /\ [Next]_vars => TypeOK'
  <2> SUFFICES ASSUME TypeOK, [Next]_vars PROVE TypeOK'
    OBVIOUS
  <2> USE RootAssumption DEF TypeOK, States
  <2>1. ASSUME NEW f \in Instances, NEW g \in Instances, Mount(f, g) PROVE TypeOK'
    BY <2>1 DEF Mount
  <2>2. ASSUME NEW f \in Instances, Load(f) \/ Succeed(f) \/ Fail(f) \/ Unload(f) \/ Land(f)
        PROVE  TypeOK'
    BY <2>2 DEF Load, Succeed, Fail, Unload, Land, Moves
  <2>3. CASE UNCHANGED vars
    BY <2>3 DEF vars
  <2> QED
    BY <2>1, <2>2, <2>3 DEF Next
<1> QED
  BY <1>1, <1>2, PTL DEF Spec

\* One step keeps what is below a disposed instance disposed.  The landing is
\* the one step that makes an instance DISPOSED, and it looks at everything
\* mounted under it; the mount is the one that puts something under an instance,
\* and it refuses a disposed one.
LEMMA BuriedStep == TypeOK /\ Buried /\ [Next]_vars => Buried'
<1> SUFFICES ASSUME TypeOK, Buried, [Next]_vars PROVE Buried'
  OBVIOUS
<1> USE RootAssumption DEF TypeOK, Buried, MountedUnder
<1>1. ASSUME NEW f \in Instances, NEW g \in Instances, Mount(f, g) PROVE Buried'
  BY <1>1 DEF Mount, Live
<1>2. ASSUME NEW f \in Instances, Load(f) \/ Succeed(f) \/ Fail(f) \/ Unload(f)
      PROVE  Buried'
  BY <1>2 DEF Load, Succeed, Fail, Unload, Moves
<1>3. ASSUME NEW f \in Instances, Land(f) PROVE Buried'
  BY <1>3 DEF Land, Moves
<1>4. CASE UNCHANGED vars
  BY <1>4 DEF vars
<1> QED
  BY <1>1, <1>2, <1>3, <1>4 DEF Next

\* Disposing an instance disposes everything it mounted.
THEOREM DisposedBelow == Spec => []Buried
<1>1. Init => Buried
  BY DEF Init, Buried, MountedUnder
<1>2. TypeOK /\ Buried /\ [Next]_vars => Buried'
  BY BuriedStep
<1> QED
  BY <1>1, <1>2, TypeCorrect, PTL DEF Spec

\* DISPOSED is terminal, and no instance changes its place in the tree.
THEOREM NeverResurrected == Spec => Terminal
<1>1. TypeOK /\ [Next]_vars =>
        [\A f \in Instances :
           /\ life[f] = "DISPOSED" => life'[f] = "DISPOSED"
           /\ life[f] # "ABSENT" => above'[f] = above[f]]_vars
  BY DEF TypeOK, Next, vars, Mount, Load, Succeed, Fail, Unload, Land, Moves
<1> QED
  BY <1>1, TypeCorrect, PTL DEF Spec, Terminal

-----------------------------------------------------------------------------
\* Seam

FrameType ==
  [kind : {"added", "removed"}, item : Items, queue : Seq(Listeners), inside : BOOLEAN]

SeamTypes ==
  /\ entries \in [{Key[i] : i \in Items} -> Items \cup {Vacant}]
  /\ owner \in [Items -> {"nobody", "starting", "effect", "undone", "lost"}]
  /\ listeners \in Seq(Listeners) /\ telling \in Seq(FrameType)
  /\ view \in [Listeners -> SUBSET Items] /\ missed \in SUBSET Listeners

\* A sequence where nothing stands twice.
Distinct(s) == \A m, n \in DOMAIN s : s[m] = s[n] => m = n

\* An announcement is of what is being registered, or was undone, and what it has
\* yet to tell are listeners, or were.
FrameHolds(f, own, heard) ==
  /\ own[f.item] = IF f.kind = "added" THEN "starting" ELSE "undone"
  /\ f.inside => f.queue # <<>>
  /\ Distinct(f.queue) /\ AllOf(f.queue) \subseteq heard

\* One item is announced once at a time, and only the innermost announcement is
\* between two listeners.
StackHolds(t, own, heard) ==
  /\ \A n \in DOMAIN t : FrameHolds(t[n], own, heard)
  /\ \A m, n \in DOMAIN t : t[m].item = t[n].item => m = n
  /\ \A n \in DOMAIN t : n # Len(t) => t[n].inside

\* The listeners an announcement has still to reach.
Rest(f) == AllOf(IF f.inside THEN Tail(f.queue) ELSE f.queue)

\* An announcement about an item is on its way to a listener.
Coming(t, i, l, kind) ==
  \E n \in DOMAIN t : t[n].item = i /\ t[n].kind = kind /\ l \in Rest(t[n])

\* What a listener knows of an item.
Known ==
  \A l \in AllOf(listeners) \ missed, i \in Items :
    i \in view[l] <=> \/ i \in Filed /\ ~Coming(telling, i, l, "added")
                      \/ Coming(telling, i, l, "removed")

SeamInv ==
  /\ SeamTypes /\ OwnedEntries /\ Distinct(listeners)
  /\ StackHolds(telling, owner, AllOf(listeners) \cup missed)
  /\ Known

-----------------------------------------------------------------------------
\* Sequences

\* What an append adds.
LEMMA AppendFacts ==
  ASSUME NEW S, NEW s \in Seq(S), NEW e \in S
  PROVE  /\ Append(s, e) \in Seq(S) /\ Len(Append(s, e)) = Len(s) + 1
         /\ \A i \in 1..Len(s) : Append(s, e)[i] = s[i]
         /\ Append(s, e)[Len(s) + 1] = e
         /\ AllOf(Append(s, e)) = AllOf(s) \cup {e}
         /\ Distinct(s) /\ e \notin AllOf(s) => Distinct(Append(s, e))
PROOF
<1>. DEFINE t == Append(s, e)
            n == Len(s)
<1>1. /\ t \in Seq(S) /\ Len(t) = n + 1 /\ n \in Nat
      /\ \A i \in 1..n : t[i] = s[i]
      /\ t[n + 1] = e /\ DOMAIN t = 1..n + 1 /\ DOMAIN s = 1..n
  OBVIOUS
<1>. HIDE DEF t, n
<1>2. AllOf(t) = AllOf(s) \cup {e}
  <2>1. \A i \in DOMAIN t : t[i] \in AllOf(s) \cup {e}
    BY <1>1 DEF AllOf
  <2>2. \A i \in DOMAIN s : i \in DOMAIN t /\ t[i] = s[i]
    BY <1>1
  <2>3. n + 1 \in DOMAIN t
    BY <1>1
  <2> QED BY <1>1, <2>1, <2>2, <2>3 DEF AllOf
<1>3. ASSUME Distinct(s), e \notin AllOf(s), NEW i \in DOMAIN t, NEW j \in DOMAIN t,
             t[i] = t[j]
      PROVE  i = j
  <2>1. \A k \in DOMAIN s : s[k] # e
    BY <1>3 DEF AllOf
  <2>2. /\ i = n + 1 \/ (i \in DOMAIN s /\ t[i] = s[i])
        /\ j = n + 1 \/ (j \in DOMAIN s /\ t[j] = s[j])
    BY <1>1
  <2> QED BY <1>1, <1>3, <2>1, <2>2 DEF Distinct
<1> QED BY <1>1, <1>2, <1>3 DEF t, n, Distinct

\* What Tail leaves.
LEMMA TailFacts ==
  ASSUME NEW S, NEW s \in Seq(S), s # <<>>
  PROVE  /\ Tail(s) \in Seq(S) /\ Head(s) \in S
         /\ AllOf(s) = {Head(s)} \cup AllOf(Tail(s))
         /\ Distinct(s) => Distinct(Tail(s)) /\ Head(s) \notin AllOf(Tail(s))
PROOF
<1>. DEFINE t == Tail(s)
            n == Len(s)
            e == Head(s)
<1>1. /\ t \in Seq(S) /\ e \in S /\ n \in Nat \ {0} /\ e = s[1]
      /\ Len(t) = n - 1 /\ \A i \in 1..Len(t) : t[i] = s[i + 1]
  BY HeadTailProperties, EmptySeq
<1>2. DOMAIN s = 1..n /\ DOMAIN t = 1..n - 1
  BY <1>1
<1>. HIDE DEF t, n, e
<1>3. /\ \A i \in DOMAIN t : i + 1 \in DOMAIN s /\ i + 1 # 1 /\ t[i] = s[i + 1]
      /\ \A i \in DOMAIN s : i = 1 \/ i - 1 \in DOMAIN t
      /\ 1 \in DOMAIN s /\ \A i \in DOMAIN t : i \in Int
  BY <1>1, <1>2
<1>4. ASSUME NEW i \in DOMAIN s, i # 1
      PROVE  i - 1 \in DOMAIN t /\ s[i] = t[i - 1]
  <2>1. i - 1 \in DOMAIN t /\ (i - 1) + 1 = i
    BY <1>2, <1>3, <1>4
  <2>2. t[i - 1] = s[(i - 1) + 1]
    BY <1>3, <2>1
  <2> QED BY <2>1, <2>2
<1>5. AllOf(s) = {e} \cup AllOf(t)
  <2>1. AllOf(s) \subseteq {e} \cup AllOf(t)
    BY <1>1, <1>4 DEF AllOf
  <2>2. {e} \cup AllOf(t) \subseteq AllOf(s)
    BY <1>1, <1>3 DEF AllOf
  <2> QED BY <2>1, <2>2
<1>6. ASSUME Distinct(s)
      PROVE  Distinct(t) /\ e \notin AllOf(t)
  <2>1. e \notin AllOf(t)
    BY <1>1, <1>3, <1>6 DEF AllOf, Distinct
  <2>2. Distinct(t)
    BY <1>3, <1>6 DEF Distinct
  <2> QED BY <2>1, <2>2
<1> QED BY <1>1, <1>5, <1>6 DEF t, n, e

\* What is left when one place of a sequence is taken out.
LEMMA RemovalFacts ==
  ASSUME NEW S, NEW s \in Seq(S), NEW p \in DOMAIN s, Distinct(s)
  PROVE  /\ RemoveAt(s, p) \in Seq(S) /\ Distinct(RemoveAt(s, p))
         /\ AllOf(RemoveAt(s, p)) = AllOf(s) \ {s[p]}
PROOF
<1>. DEFINE front == SubSeq(s, 1, p - 1)
            back == SubSeq(s, p + 1, Len(s))
            t == RemoveAt(s, p)
<1>1. p \in 1..Len(s) /\ Len(s) \in Nat /\ DOMAIN s = 1..Len(s)
  OBVIOUS
<1>2. front \in Seq(S) /\ Len(front) = p - 1 /\ \A i \in 1..p - 1 : front[i] = s[i]
  BY <1>1, SubSeqProperties
<1>3. /\ back \in Seq(S) /\ Len(back) = Len(s) - p
      /\ \A i \in 1..Len(s) - p : back[i] = s[p + i]
  BY <1>1, SubSeqProperties
<1>4. t = front \o back
  BY DEF RemoveAt
<1>. HIDE DEF front, back, t
<1>5. /\ front \o back \in Seq(S) /\ Len(front \o back) = Len(front) + Len(back)
      /\ \A i \in 1..Len(front) + Len(back) : (front \o back)[i] =
           IF i <= Len(front) THEN front[i] ELSE back[i - Len(front)]
  BY <1>2, <1>3, ConcatProperties
<1>6. t \in Seq(S) /\ Len(t) = Len(s) - 1 /\ DOMAIN t = 1..Len(s) - 1
  <2>1. Len(front) + Len(back) = Len(s) - 1
    BY <1>1, <1>2, <1>3
  <2>2. t \in Seq(S) /\ Len(t) = Len(s) - 1
    BY <1>4, <1>5, <2>1
  <2> QED BY <2>2
<1>7. ASSUME NEW i \in DOMAIN t
      PROVE  /\ i < p => i \in DOMAIN s /\ t[i] = s[i]
             /\ i >= p => i + 1 \in DOMAIN s /\ t[i] = s[i + 1]
  <2>1. i \in 1..Len(front) + Len(back)
    BY <1>1, <1>2, <1>3, <1>6
  <2>2. CASE i < p
    <3>1. i \in 1..p - 1 /\ i \in DOMAIN s /\ i <= Len(front)
      BY <1>1, <1>2, <1>6, <2>2
    <3>2. t[i] = front[i]
      BY <1>4, <1>5, <2>1, <3>1
    <3>3. t[i] = s[i]
      BY <1>2, <3>1, <3>2
    <3> QED BY <1>1, <1>6, <2>2, <3>1, <3>3
  <2>3. CASE ~(i < p)
    <3>1. i - Len(front) \in 1..Len(s) - p /\ p + (i - Len(front)) = i + 1
      BY <1>1, <1>2, <1>6, <2>3
    <3>2. ~(i <= Len(front)) /\ i + 1 \in DOMAIN s
      BY <1>1, <1>2, <1>6, <2>3
    <3>3. t[i] = back[i - Len(front)]
      BY <1>4, <1>5, <2>1, <3>2
    <3>4. t[i] = s[i + 1]
      BY <1>3, <3>1, <3>3
    <3> QED BY <1>1, <1>6, <2>3, <3>2, <3>4
  <2> QED BY <1>1, <1>6, <2>2, <2>3
<1>8. ASSUME NEW i \in DOMAIN t
      PROVE  \E k \in DOMAIN s \ {p} : t[i] = s[k] /\ k = IF i < p THEN i ELSE i + 1
  BY <1>1, <1>6, <1>7
<1>9. ASSUME NEW k \in DOMAIN s, k # p
      PROVE  \E i \in DOMAIN t : t[i] = s[k]
  <2>1. CASE k < p
    <3>1. k \in DOMAIN t
      BY <1>1, <1>6, <2>1
    <3> QED BY <1>7, <2>1, <3>1
  <2>2. CASE k > p
    <3>1. k - 1 \in DOMAIN t /\ k - 1 >= p /\ (k - 1) + 1 = k
      BY <1>1, <1>6, <2>2
    <3>2. t[k - 1] = s[(k - 1) + 1]
      BY <1>7, <3>1
    <3> QED BY <3>1, <3>2
  <2> QED BY <1>1, <1>9, <2>1, <2>2
<1>10. AllOf(t) = AllOf(s) \ {s[p]}
  <2>1. \A i \in DOMAIN t : t[i] \in AllOf(s) \ {s[p]}
    BY <1>8 DEF AllOf, Distinct
  <2>2. \A k \in DOMAIN s : s[k] # s[p] => s[k] \in AllOf(t)
    BY <1>9 DEF AllOf
  <2> QED BY <2>1, <2>2 DEF AllOf
<1>11. Distinct(t)
  <2>1. ASSUME NEW i \in DOMAIN t, NEW j \in DOMAIN t, t[i] = t[j]
        PROVE  i = j
    <3>1. PICK k \in DOMAIN s \ {p} : t[i] = s[k] /\ k = IF i < p THEN i ELSE i + 1
      BY <1>8
    <3>2. PICK m \in DOMAIN s \ {p} : t[j] = s[m] /\ m = IF j < p THEN j ELSE j + 1
      BY <1>8
    <3>3. k = m
      BY <2>1, <3>1, <3>2 DEF Distinct
    <3> QED BY <1>1, <1>6, <3>1, <3>2, <3>3
  <2> QED BY <2>1 DEF Distinct
<1> QED BY <1>6, <1>10, <1>11 DEF t

\* The stack without its innermost frame, and with another in its place.
LEMMA StackFacts ==
  ASSUME NEW S, NEW t \in Seq(S), t # <<>>, NEW f \in S
  PROVE  LET below == SubSeq(t, 1, Len(t) - 1)
             u == Append(below, f)
         IN /\ Len(t) \in DOMAIN t /\ Len(t) \in Nat \ {0} /\ t[Len(t)] \in S
            /\ DOMAIN t = 1..Len(t)
            /\ below \in Seq(S) /\ Len(below) = Len(t) - 1 /\ DOMAIN below = 1..Len(t) - 1
            /\ \A n \in 1..Len(t) - 1 : below[n] = t[n]
            /\ u \in Seq(S) /\ DOMAIN u = DOMAIN t /\ Len(u) = Len(t) /\ u[Len(t)] = f
            /\ \A n \in DOMAIN t : n # Len(t) => u[n] = t[n]
PROOF
<1>. DEFINE below == SubSeq(t, 1, Len(t) - 1)
<1>1. Len(t) \in Nat \ {0} /\ DOMAIN t = 1..Len(t)
  BY EmptySeq
<1>2. /\ below \in Seq(S) /\ Len(below) = Len(t) - 1
      /\ \A n \in 1..Len(t) - 1 : below[n] = t[n]
  BY <1>1, SubSeqProperties
<1>. HIDE DEF below
<1>. DEFINE u == Append(below, f)
<1>3. /\ u \in Seq(S) /\ Len(u) = Len(below) + 1
      /\ \A n \in 1..Len(below) : u[n] = below[n]
      /\ u[Len(below) + 1] = f
  BY <1>2, AppendProperties
<1>. HIDE DEF u
<1>4. DOMAIN below = 1..Len(below) /\ DOMAIN u = 1..Len(u)
  BY <1>2, <1>3
<1>5. /\ Len(u) = Len(t) /\ Len(below) + 1 = Len(t) /\ Len(t) \in DOMAIN t
  BY <1>1, <1>2, <1>3
<1>6. ASSUME NEW n \in DOMAIN t, n # Len(t)
      PROVE  u[n] = t[n]
  <2>1. n \in 1..Len(below) /\ n \in 1..Len(t) - 1
    BY <1>1, <1>2, <1>6
  <2> QED BY <1>2, <1>3, <2>1
<1>7. t[Len(t)] \in S
  BY <1>5
<1>8. /\ u \in Seq(S) /\ DOMAIN u = DOMAIN t /\ Len(u) = Len(t) /\ u[Len(t)] = f
      /\ \A n \in DOMAIN t : n # Len(t) => u[n] = t[n]
  BY <1>1, <1>3, <1>4, <1>5, <1>6
<1>9. DOMAIN below = 1..Len(t) - 1
  BY <1>2, <1>4
<1> QED BY <1>1, <1>2, <1>5, <1>7, <1>8, <1>9 DEF u, below

-----------------------------------------------------------------------------
\* The announcements in progress

\* An announcement begins inside the innermost one.
LEMMA Pushed ==
  ASSUME NEW t \in Seq(FrameType), NEW own, NEW own2, NEW heard,
         StackHolds(t, own, heard), t # <<>> => t[Len(t)].inside,
         NEW f \in FrameType, FrameHolds(f, own2, heard),
         \A n \in DOMAIN t : t[n].item # f.item,
         \A i \in Items : i # f.item => own2[i] = own[i]
  PROVE  /\ Append(t, f) \in Seq(FrameType) /\ StackHolds(Append(t, f), own2, heard)
         /\ \A i, l, kind : Coming(Append(t, f), i, l, kind) <=>
              \/ Coming(t, i, l, kind)
              \/ f.item = i /\ f.kind = kind /\ l \in Rest(f)
PROOF
<1>. DEFINE u == Append(t, f)
<1>1. /\ u \in Seq(FrameType) /\ Len(u) = Len(t) + 1
      /\ \A n \in 1..Len(t) : u[n] = t[n]
      /\ u[Len(t) + 1] = f
  BY AppendFacts
<1>2. Len(t) \in Nat /\ DOMAIN t = 1..Len(t) /\ DOMAIN u = 1..Len(u)
  BY <1>1
<1>. HIDE DEF u
<1>3. /\ Len(u) \in DOMAIN u /\ u[Len(u)] = f
      /\ \A n \in DOMAIN t : n \in DOMAIN u /\ u[n] = t[n] /\ n # Len(u)
      /\ \A n \in DOMAIN u : n # Len(u) => n \in DOMAIN t
  BY <1>1, <1>2
<1>4. \A n \in DOMAIN t : t[n].item \in Items
  <2>1. \A n \in DOMAIN t : t[n] \in FrameType
    OBVIOUS
  <2> QED BY <2>1 DEF FrameType
<1>5. ASSUME NEW n \in DOMAIN t
      PROVE  FrameHolds(t[n], own2, heard) /\ t[n].inside
  <2>1. FrameHolds(t[n], own, heard)
    BY DEF StackHolds
  <2>2. own2[t[n].item] = own[t[n].item]
    BY <1>4
  <2>3. FrameHolds(t[n], own2, heard)
    BY <2>1, <2>2 DEF FrameHolds
  <2>4. CASE n = Len(t)
    <3>1. t # <<>>
      BY <1>2
    <3> QED BY <2>3, <2>4, <3>1
  <2>5. CASE n # Len(t)
    BY <2>3, <2>5 DEF StackHolds
  <2> QED BY <2>4, <2>5
<1>6. StackHolds(u, own2, heard)
  <2>1. \A n \in DOMAIN u : FrameHolds(u[n], own2, heard)
    BY <1>3, <1>5
  <2>2. \A m, n \in DOMAIN u : u[m].item = u[n].item => m = n
    BY <1>3 DEF StackHolds
  <2>3. \A n \in DOMAIN u : n # Len(u) => u[n].inside
    BY <1>3, <1>5
  <2> QED BY <2>1, <2>2, <2>3 DEF StackHolds
<1>7. ASSUME NEW i, NEW l, NEW kind
      PROVE  Coming(u, i, l, kind) <=>
               \/ Coming(t, i, l, kind)
               \/ f.item = i /\ f.kind = kind /\ l \in Rest(f)
  BY <1>3 DEF Coming
<1> QED BY <1>1, <1>6, <1>7 DEF u

\* The innermost announcement goes on.
LEMMA Resumed ==
  ASSUME NEW t \in Seq(FrameType), NEW own, NEW heard, StackHolds(t, own, heard), t # <<>>,
         NEW f \in FrameType, FrameHolds(f, own, heard), f.item = t[Len(t)].item,
         f.kind = t[Len(t)].kind
  PROVE  LET u == Append(SubSeq(t, 1, Len(t) - 1), f) IN
         /\ u \in Seq(FrameType) /\ StackHolds(u, own, heard)
         /\ \A i, l, kind : i # f.item => (Coming(u, i, l, kind) <=> Coming(t, i, l, kind))
         /\ \A l, kind : Coming(u, f.item, l, kind) <=> f.kind = kind /\ l \in Rest(f)
         /\ \A l, kind : Coming(t, f.item, l, kind) <=>
                           f.kind = kind /\ l \in Rest(t[Len(t)])
PROOF
<1>. DEFINE u == Append(SubSeq(t, 1, Len(t) - 1), f)
<1>1. /\ Len(t) \in DOMAIN t
      /\ u \in Seq(FrameType) /\ DOMAIN u = DOMAIN t
      /\ Len(u) = Len(t) /\ u[Len(t)] = f
      /\ \A n \in DOMAIN t : n # Len(t) => u[n] = t[n]
  BY StackFacts
<1>. HIDE DEF u
<1>2. \A m, n \in DOMAIN t : t[m].item = t[n].item => m = n
  BY DEF StackHolds
<1>3. \A n \in DOMAIN t : u[n].item = t[n].item /\ u[n].kind = t[n].kind
  BY <1>1
<1>4. StackHolds(u, own, heard)
  <2>1. \A n \in DOMAIN u : FrameHolds(u[n], own, heard)
    BY <1>1 DEF StackHolds
  <2>2. \A m, n \in DOMAIN u : u[m].item = u[n].item => m = n
    BY <1>1, <1>2, <1>3
  <2>3. \A n \in DOMAIN u : n # Len(u) => u[n].inside
    BY <1>1 DEF StackHolds
  <2> QED BY <2>1, <2>2, <2>3 DEF StackHolds
<1>5. ASSUME NEW i, NEW l, NEW kind, i # f.item
      PROVE  Coming(u, i, l, kind) <=> Coming(t, i, l, kind)
  BY <1>1, <1>3, <1>5 DEF Coming
<1>6. ASSUME NEW l, NEW kind
      PROVE  /\ Coming(u, f.item, l, kind) <=> f.kind = kind /\ l \in Rest(f)
             /\ Coming(t, f.item, l, kind) <=> f.kind = kind /\ l \in Rest(t[Len(t)])
  <2>1. \A n \in DOMAIN t : t[n].item = f.item <=> n = Len(t)
    BY <1>1, <1>2
  <2> QED BY <1>1, <1>3, <2>1 DEF Coming
<1> QED BY <1>1, <1>4, <1>5, <1>6 DEF u

\* The innermost announcement ends.
LEMMA Popped ==
  ASSUME NEW t \in Seq(FrameType), NEW own, NEW own2, NEW heard, NEW heard2,
         StackHolds(t, own, heard), t # <<>>,
         \A i \in Items : i # t[Len(t)].item => own2[i] = own[i],
         heard \subseteq heard2
  PROVE  LET u == SubSeq(t, 1, Len(t) - 1) IN
         /\ u \in Seq(FrameType) /\ StackHolds(u, own2, heard2)
         /\ \A i, l, kind : Coming(u, i, l, kind) <=>
                              Coming(t, i, l, kind) /\ i # t[Len(t)].item
         /\ \A l, kind : Coming(t, t[Len(t)].item, l, kind) <=>
                           t[Len(t)].kind = kind /\ l \in Rest(t[Len(t)])
PROOF
<1>. DEFINE u == SubSeq(t, 1, Len(t) - 1)
<1>. DEFINE N == Len(t)
<1>0. t[N] \in FrameType
  BY EmptySeq
<1>1. /\ N \in DOMAIN t /\ N \in Nat \ {0} /\ DOMAIN t = 1..N
      /\ u \in Seq(FrameType) /\ Len(u) = N - 1 /\ DOMAIN u = 1..N - 1
      /\ \A n \in 1..N - 1 : u[n] = t[n]
  BY <1>0, StackFacts
<1>. HIDE DEF N, u
<1>2. /\ \A n \in DOMAIN u : n \in DOMAIN t /\ n # N /\ u[n] = t[n]
      /\ \A n \in DOMAIN t : n # N => n \in DOMAIN u
  BY <1>1
<1>3. \A m, n \in DOMAIN t : t[m].item = t[n].item => m = n
  BY DEF StackHolds
<1>4. \A n \in DOMAIN t : t[n].item \in Items
  <2>1. \A n \in DOMAIN t : t[n] \in FrameType
    OBVIOUS
  <2> QED BY <2>1 DEF FrameType
<1>5. StackHolds(u, own2, heard2)
  <2>1. ASSUME NEW n \in DOMAIN u
        PROVE  FrameHolds(u[n], own2, heard2) /\ u[n].inside
    <3>1. n \in DOMAIN t /\ n # N /\ u[n] = t[n]
      BY <1>2
    <3>2. FrameHolds(t[n], own, heard) /\ t[n].inside
      BY <3>1 DEF StackHolds, N
    <3>3. t[n].item # t[N].item /\ t[n].item \in Items
      BY <1>1, <1>3, <1>4, <3>1
    <3>4. own2[t[n].item] = own[t[n].item]
      BY <3>3 DEF N
    <3> QED BY <3>1, <3>2, <3>4 DEF FrameHolds
  <2>2. \A m, n \in DOMAIN u : u[m].item = u[n].item => m = n
    BY <1>2, <1>3
  <2> QED BY <2>1, <2>2 DEF StackHolds
<1>6. ASSUME NEW i, NEW l, NEW kind
      PROVE  Coming(u, i, l, kind) <=> Coming(t, i, l, kind) /\ i # t[N].item
  <2>1. \A n \in DOMAIN t : t[n].item = t[N].item <=> n = N
    BY <1>1, <1>3
  <2> QED BY <1>2, <2>1 DEF Coming
<1>7. ASSUME NEW l, NEW kind
      PROVE  Coming(t, t[N].item, l, kind) <=> t[N].kind = kind /\ l \in Rest(t[N])
  <2>1. \A n \in DOMAIN t : t[n].item = t[N].item <=> n = N
    BY <1>1, <1>3
  <2> QED BY <1>1, <2>1 DEF Coming
<1> QED BY <1>1, <1>5, <1>6, <1>7 DEF N, u

\* Who hears more, holds.
LEMMA HeardMore ==
  ASSUME NEW t \in Seq(FrameType), NEW own, NEW heard, NEW heard2,
         StackHolds(t, own, heard), heard \subseteq heard2
  PROVE  StackHolds(t, own, heard2)
PROOF BY DEF StackHolds, FrameHolds

\* What is on its way to a listener is about an item being announced.
LEMMA ComingItem ==
  ASSUME SeamInv, NEW i, NEW l, NEW kind, Coming(telling, i, l, kind)
  PROVE  owner[i] = (IF kind = "added" THEN "starting" ELSE "undone")
PROOF
<1>1. PICK n \in DOMAIN telling : telling[n].item = i /\ telling[n].kind = kind
  BY DEF Coming
<1> QED BY <1>1 DEF SeamInv, StackHolds, FrameHolds

LEMMA SeamInvInit == SeamInit => SeamInv
PROOF
<1> SUFFICES ASSUME SeamInit PROVE SeamInv
  OBVIOUS
<1>1. SeamTypes
  BY DEF SeamInit, SeamTypes
<1>2. Filed = {}
  <2>1. ASSUME NEW i \in Items
        PROVE  entries[Key[i]] = Vacant
    BY DEF SeamInit
  <2> QED BY <2>1, SeamAssumption DEF Filed
<1>3. OwnedEntries
  BY <1>2 DEF OwnedEntries, SeamInit
<1>4. Distinct(listeners) /\ StackHolds(telling, owner, AllOf(listeners) \cup missed) /\ Known
  BY DEF SeamInit, Distinct, StackHolds, Known, AllOf
<1> QED BY <1>1, <1>3, <1>4 DEF SeamInv

-----------------------------------------------------------------------------
\* The steps of the registry

\* An item is in the registry and announced.
LEMMA RegisterKeeps ==
  ASSUME SeamInv, NEW i \in Items, Register(i)
  PROVE  SeamInv'
PROOF
<1>. DEFINE f == Announcement("added", i)
            heard == AllOf(listeners) \cup missed
<1>1. /\ telling' = Append(telling, f) /\ owner' = [owner EXCEPT ![i] = "starting"]
      /\ entries' = [entries EXCEPT ![Key[i]] = i]
      /\ listeners' = listeners /\ view' = view /\ missed' = missed
      /\ owner[i] = "nobody" /\ entries[Key[i]] = Vacant
      /\ telling # <<>> => telling[Len(telling)].inside
  BY DEF Register, MayCall, Top, KeyFree
<1>2. /\ SeamTypes /\ OwnedEntries /\ Distinct(listeners)
      /\ StackHolds(telling, owner, heard) /\ Known
  BY DEF SeamInv
<1>3. /\ f \in FrameType /\ f.kind = "added" /\ f.item = i /\ Rest(f) = AllOf(listeners)
      /\ f.queue = listeners /\ ~f.inside
  BY <1>2 DEF SeamTypes, FrameType, Announcement, Rest
<1>. HIDE DEF f
<1>4. FrameHolds(f, owner', heard)
  BY <1>1, <1>2, <1>3 DEF FrameHolds, SeamTypes
<1>5. \A n \in DOMAIN telling : telling[n].item # i
  BY <1>1, <1>2 DEF StackHolds, FrameHolds
<1>6. \A j \in Items : j # i => owner'[j] = owner[j]
  BY <1>1, <1>2 DEF SeamTypes
<1>7. telling \in Seq(FrameType)
  BY <1>2 DEF SeamTypes
<1>8. /\ telling' \in Seq(FrameType) /\ StackHolds(telling', owner', heard)
      /\ \A j, l, kind : Coming(telling', j, l, kind) <=>
           \/ Coming(telling, j, l, kind)
           \/ i = j /\ "added" = kind /\ l \in AllOf(listeners)
  <2>1. PICK own : own = owner'
    OBVIOUS
  <2>2. /\ FrameHolds(f, own, heard) /\ \A j \in Items : j # f.item => own[j] = owner[j]
        /\ \A n \in DOMAIN telling : telling[n].item # f.item
        /\ telling # <<>> => telling[Len(telling)].inside
        /\ f \in FrameType /\ telling \in Seq(FrameType) /\ StackHolds(telling, owner, heard)
    BY <1>1, <1>2, <1>7, <1>3, <1>4, <1>5, <1>6, <2>1
  <2>3. /\ Append(telling, f) \in Seq(FrameType) /\ StackHolds(Append(telling, f), own, heard)
        /\ \A j, l, kind : Coming(Append(telling, f), j, l, kind) <=>
             \/ Coming(telling, j, l, kind)
             \/ f.item = j /\ f.kind = kind /\ l \in Rest(f)
    BY <2>2, Pushed
  <2> QED BY <1>1, <1>3, <2>1, <2>3
<1>9. SeamTypes'
  BY <1>1, <1>2, <1>8 DEF SeamTypes
<1>10. Filed' = Filed \cup {i} /\ i \notin Filed
  BY <1>1, <1>2, SeamAssumption DEF Filed, SeamTypes
<1>11. OwnedEntries'
  BY <1>1, <1>2, <1>10 DEF OwnedEntries, SeamTypes
<1>12. ASSUME NEW l \in AllOf(listeners) \ missed, NEW j \in Items
       PROVE  j \in view[l] <=> \/ j \in Filed' /\ ~Coming(telling', j, l, "added")
                                \/ Coming(telling', j, l, "removed")
  <2>1. j \in view[l] <=> \/ j \in Filed /\ ~Coming(telling, j, l, "added")
                          \/ Coming(telling, j, l, "removed")
    BY <1>2 DEF Known
  <2>2. ~Coming(telling, i, l, "removed")
    BY <1>5 DEF Coming
  <2> QED BY <1>8, <1>10, <2>1, <2>2
<1>13. Known'
  BY <1>1, <1>12 DEF Known
<1> QED BY <1>1, <1>2, <1>8, <1>9, <1>11, <1>13 DEF SeamInv, Distinct, AllOf

\* An item is taken out and its end announced: nobody else can have its key.
LEMMA UndoKeeps ==
  ASSUME SeamInv, NEW i \in Items, Undo(i)
  PROVE  SeamInv'
PROOF
<1>. DEFINE f == Announcement("removed", i)
            heard == AllOf(listeners) \cup missed
<1>1. /\ SeamTypes /\ OwnedEntries /\ Distinct(listeners)
      /\ StackHolds(telling, owner, heard) /\ Known
  BY DEF SeamInv
<1>2. owner[i] = "effect" /\ entries[Key[i]] = i /\ i \in Filed
  BY <1>1 DEF Undo, OwnedEntries, Filed
<1>3. /\ telling' = Append(telling, f) /\ owner' = [owner EXCEPT ![i] = "undone"]
      /\ entries' = [entries EXCEPT ![Key[i]] = Vacant]
      /\ listeners' = listeners /\ view' = view /\ missed' = missed
      /\ telling # <<>> => telling[Len(telling)].inside
  BY <1>2 DEF Undo, MayCall, Top
<1>4. /\ f \in FrameType /\ f.kind = "removed" /\ f.item = i /\ Rest(f) = AllOf(listeners)
      /\ f.queue = listeners /\ ~f.inside
  BY <1>1 DEF SeamTypes, FrameType, Announcement, Rest
<1>. HIDE DEF f
<1>5. FrameHolds(f, owner', heard)
  BY <1>1, <1>3, <1>4 DEF FrameHolds, SeamTypes
<1>6. \A n \in DOMAIN telling : telling[n].item # i
  BY <1>1, <1>2 DEF StackHolds, FrameHolds
<1>7. \A j \in Items : j # i => owner'[j] = owner[j]
  BY <1>1, <1>3 DEF SeamTypes
<1>8. telling \in Seq(FrameType)
  BY <1>1 DEF SeamTypes
<1>9. /\ telling' \in Seq(FrameType) /\ StackHolds(telling', owner', heard)
      /\ \A j, l, kind : Coming(telling', j, l, kind) <=>
           \/ Coming(telling, j, l, kind)
           \/ i = j /\ "removed" = kind /\ l \in AllOf(listeners)
  <2>1. PICK own : own = owner'
    OBVIOUS
  <2>2. /\ FrameHolds(f, own, heard) /\ \A j \in Items : j # f.item => own[j] = owner[j]
        /\ \A n \in DOMAIN telling : telling[n].item # f.item
        /\ telling # <<>> => telling[Len(telling)].inside
        /\ f \in FrameType /\ telling \in Seq(FrameType) /\ StackHolds(telling, owner, heard)
    BY <1>3, <1>1, <1>8, <1>4, <1>5, <1>6, <1>7, <2>1
  <2>3. /\ Append(telling, f) \in Seq(FrameType) /\ StackHolds(Append(telling, f), own, heard)
        /\ \A j, l, kind : Coming(Append(telling, f), j, l, kind) <=>
             \/ Coming(telling, j, l, kind)
             \/ f.item = j /\ f.kind = kind /\ l \in Rest(f)
    BY <2>2, Pushed
  <2> QED BY <1>3, <1>4, <2>1, <2>3
<1>10. SeamTypes'
  BY <1>1, <1>3, <1>9 DEF SeamTypes
<1>11. Filed' = Filed \ {i}
  BY <1>1, <1>2, <1>3, SeamAssumption DEF Filed, SeamTypes
<1>12. OwnedEntries'
  BY <1>1, <1>3, <1>11 DEF OwnedEntries, SeamTypes
<1>13. ASSUME NEW l \in AllOf(listeners) \ missed, NEW j \in Items
       PROVE  j \in view[l] <=> \/ j \in Filed' /\ ~Coming(telling', j, l, "added")
                                \/ Coming(telling', j, l, "removed")
  <2>1. j \in view[l] <=> \/ j \in Filed /\ ~Coming(telling, j, l, "added")
                          \/ Coming(telling, j, l, "removed")
    BY <1>1 DEF Known
  <2>2. ~Coming(telling, i, l, "added")
    BY <1>6 DEF Coming
  <2> QED BY <1>2, <1>9, <1>11, <2>1, <2>2
<1>14. Known'
  BY <1>3, <1>13 DEF Known
<1> QED BY <1>1, <1>3, <1>9, <1>10, <1>12, <1>14 DEF SeamInv, Distinct, AllOf

\* A listener begins with the entries there are: no announcement of before will
\* reach it.
LEMMA ObserveKeeps ==
  ASSUME SeamInv, NEW l \in Listeners, Observe(l)
  PROVE  SeamInv'
PROOF
<1>1. /\ listeners' = Append(listeners, l) /\ view' = [view EXCEPT ![l] = Filed]
      /\ entries' = entries /\ owner' = owner /\ telling' = telling /\ missed' = missed
      /\ l \notin AllOf(listeners)
      /\ \A f \in AllOf(telling) : l \notin AllOf(f.queue)
  BY DEF Observe
<1>2. /\ SeamTypes /\ OwnedEntries /\ Distinct(listeners)
      /\ StackHolds(telling, owner, AllOf(listeners) \cup missed) /\ Known
  BY DEF SeamInv
<1>3. listeners \in Seq(Listeners) /\ telling \in Seq(FrameType)
  BY <1>2 DEF SeamTypes
<1>4. /\ listeners' \in Seq(Listeners) /\ AllOf(listeners') = AllOf(listeners) \cup {l}
      /\ Distinct(listeners')
  BY <1>1, <1>2, <1>3, AppendFacts
<1>5. Filed' = Filed /\ Filed \subseteq Items
  BY <1>1 DEF Filed
<1>6. SeamTypes'
  BY <1>1, <1>2, <1>4, <1>5 DEF SeamTypes
<1>7. OwnedEntries'
  BY <1>1, <1>2, <1>5 DEF OwnedEntries
<1>8. StackHolds(telling', owner', AllOf(listeners') \cup missed')
  BY <1>1, <1>2, <1>3, <1>4, HeardMore
<1>9. ASSUME NEW j, NEW kind
      PROVE  ~Coming(telling, j, l, kind)
  <2>1. ASSUME NEW n \in DOMAIN telling
        PROVE  l \notin Rest(telling[n])
    <3>1. telling[n] \in AllOf(telling)
      BY DEF AllOf
    <3>2. telling[n].inside => telling[n].queue # <<>>
      BY <1>2 DEF StackHolds, FrameHolds
    <3>3. telling[n] \in FrameType
      BY <1>3
    <3>4. telling[n].queue \in Seq(Listeners)
      BY <3>3 DEF FrameType
    <3>5. CASE telling[n].inside
      <4>1. AllOf(Tail(telling[n].queue)) \subseteq AllOf(telling[n].queue)
        BY <3>2, <3>4, <3>5, TailFacts
      <4> QED BY <1>1, <3>1, <3>5, <4>1 DEF Rest
    <3>6. CASE ~telling[n].inside
      BY <1>1, <3>1, <3>6 DEF Rest
    <3> QED BY <3>5, <3>6
  <2> QED BY <2>1 DEF Coming
<1>10. ASSUME NEW m \in AllOf(listeners') \ missed', NEW j \in Items
       PROVE  j \in view'[m] <=> \/ j \in Filed' /\ ~Coming(telling', j, m, "added")
                                 \/ Coming(telling', j, m, "removed")
  <2>1. CASE m = l
    BY <1>1, <1>2, <1>5, <1>9, <2>1 DEF SeamTypes
  <2>2. CASE m # l
    <3>1. m \in AllOf(listeners) \ missed
      BY <1>1, <1>4, <2>2
    <3>2. view'[m] = view[m]
      <4>1. m \in Listeners
        BY <1>3, <3>1 DEF AllOf
      <4> QED BY <1>1, <1>2, <2>2, <4>1 DEF SeamTypes
    <3> QED BY <1>1, <1>2, <1>5, <3>1, <3>2 DEF Known
  <2> QED BY <2>1, <2>2
<1>11. Known'
  BY <1>10 DEF Known
<1> QED BY <1>4, <1>6, <1>7, <1>8, <1>11 DEF SeamInv, Distinct

\* One listener stops; what is on its way to it may still arrive.
LEMMA StopKeeps ==
  ASSUME SeamInv, NEW l \in Listeners, StopObserving(l)
  PROVE  SeamInv'
PROOF
<1>1. /\ listeners' = RemoveAt(listeners, Place(l)) /\ view' = [view EXCEPT ![l] = {}]
      /\ entries' = entries /\ owner' = owner /\ telling' = telling
      /\ missed' = missed \cup {l} /\ l \in AllOf(listeners)
  BY DEF StopObserving
<1>2. /\ SeamTypes /\ OwnedEntries /\ Distinct(listeners)
      /\ StackHolds(telling, owner, AllOf(listeners) \cup missed) /\ Known
  BY DEF SeamInv
<1>3. listeners \in Seq(Listeners) /\ telling \in Seq(FrameType)
  BY <1>2 DEF SeamTypes
<1>4. Place(l) \in DOMAIN listeners /\ listeners[Place(l)] = l
  BY <1>1 DEF Place, AllOf
<1>5. /\ listeners' \in Seq(Listeners) /\ AllOf(listeners') = AllOf(listeners) \ {l}
      /\ Distinct(listeners')
  BY <1>1, <1>2, <1>3, <1>4, RemovalFacts
<1>6. Filed' = Filed
  BY <1>1 DEF Filed
<1>7. SeamTypes'
  BY <1>1, <1>2, <1>5 DEF SeamTypes
<1>8. OwnedEntries'
  BY <1>1, <1>2, <1>6 DEF OwnedEntries
<1>9. StackHolds(telling', owner', AllOf(listeners') \cup missed')
  BY <1>1, <1>2, <1>3, <1>5, HeardMore
<1>10. ASSUME NEW m \in AllOf(listeners') \ missed', NEW j \in Items
       PROVE  j \in view'[m] <=> \/ j \in Filed' /\ ~Coming(telling', j, m, "added")
                                 \/ Coming(telling', j, m, "removed")
  <2>1. m \in AllOf(listeners) \ missed /\ m # l
    BY <1>1, <1>5
  <2>2. view'[m] = view[m]
    <3>1. m \in Listeners
      BY <1>3, <2>1 DEF AllOf
    <3> QED BY <1>1, <1>2, <2>1, <3>1 DEF SeamTypes
  <2> QED BY <1>1, <1>2, <1>6, <2>1, <2>2 DEF Known
<1>11. Known'
  BY <1>10 DEF Known
<1> QED BY <1>5, <1>7, <1>8, <1>9, <1>11 DEF SeamInv, Distinct

\* The innermost announcement and what it has still to tell.
LEMMA TopHolds ==
  ASSUME SeamInv, telling # <<>>
  PROVE  /\ Top = telling[Len(telling)] /\ Below = SubSeq(telling, 1, Len(telling) - 1)
         /\ Top \in FrameType /\ FrameHolds(Top, owner, AllOf(listeners) \cup missed)
         /\ Top.item \in Items /\ Top.kind \in {"added", "removed"}
         /\ Top.queue \in Seq(Listeners) /\ Top.inside \in BOOLEAN
         /\ telling \in Seq(FrameType)
         /\ StackHolds(telling, owner, AllOf(listeners) \cup missed)
PROOF
<1>1. telling \in Seq(FrameType) /\ StackHolds(telling, owner, AllOf(listeners) \cup missed)
  BY DEF SeamInv, SeamTypes
<1>2. Len(telling) \in DOMAIN telling
  BY <1>1, EmptySeq
<1>3. Top \in FrameType /\ FrameHolds(Top, owner, AllOf(listeners) \cup missed)
  <2>1. \A n \in DOMAIN telling :
          FrameHolds(telling[n], owner, AllOf(listeners) \cup missed)
    BY <1>1 DEF StackHolds
  <2>2. \A n \in DOMAIN telling : telling[n] \in FrameType
    BY <1>1
  <2> QED BY <1>2, <2>1, <2>2 DEF Top
<1>4. /\ Top.item \in Items /\ Top.kind \in {"added", "removed"}
      /\ Top.queue \in Seq(Listeners) /\ Top.inside \in BOOLEAN
  BY <1>3 DEF FrameType
<1> QED BY <1>1, <1>3, <1>4 DEF Top, Below

\* The innermost announcement has reached one more listener, or none.
LEMMA ResumedKeeps ==
  ASSUME SeamInv, telling # <<>>, NEW f \in FrameType,
         f.item = Top.item, f.kind = Top.kind, Rest(f) \subseteq Rest(Top),
         FrameHolds(f, owner, AllOf(listeners) \cup missed),
         telling' = Append(Below, f), view' \in [Listeners -> SUBSET Items],
         UNCHANGED <<entries, owner, listeners, missed>>,
         \A l \in AllOf(listeners), j \in Items :
           IF j = f.item /\ l \in Rest(Top) \ Rest(f) THEN j \in view'[l] <=> f.kind = "added"
           ELSE j \in view'[l] <=> j \in view[l]
  PROVE  SeamInv'
PROOF
<1>. DEFINE heard == AllOf(listeners) \cup missed
            x == f.item
<1>1. /\ SeamTypes /\ OwnedEntries /\ Distinct(listeners) /\ Known
      /\ entries' = entries /\ owner' = owner /\ listeners' = listeners /\ missed' = missed
  BY DEF SeamInv
<1>2. /\ telling' \in Seq(FrameType) /\ StackHolds(telling', owner, heard)
      /\ \A i, l, kind : i # x =>
           (Coming(telling', i, l, kind) <=> Coming(telling, i, l, kind))
      /\ \A l, kind : Coming(telling', x, l, kind) <=> f.kind = kind /\ l \in Rest(f)
      /\ \A l, kind : Coming(telling, x, l, kind) <=> f.kind = kind /\ l \in Rest(Top)
  <2>1. /\ Top = telling[Len(telling)] /\ Below = SubSeq(telling, 1, Len(telling) - 1)
        /\ telling \in Seq(FrameType) /\ StackHolds(telling, owner, heard)
    BY TopHolds
  <2>2. PICK u : u = telling'
    OBVIOUS
  <2>3. /\ u = Append(SubSeq(telling, 1, Len(telling) - 1), f)
        /\ f.item = telling[Len(telling)].item /\ f.kind = telling[Len(telling)].kind
    BY <2>1, <2>2
  <2>4. /\ u \in Seq(FrameType) /\ StackHolds(u, owner, heard)
        /\ \A i, l, kind : i # f.item => (Coming(u, i, l, kind) <=> Coming(telling, i, l, kind))
        /\ \A l, kind : Coming(u, f.item, l, kind) <=> f.kind = kind /\ l \in Rest(f)
        /\ \A l, kind : Coming(telling, f.item, l, kind) <=>
                          f.kind = kind /\ l \in Rest(telling[Len(telling)])
    <3>. HIDE DEF heard
    <3>1. FrameHolds(f, owner, heard)
      BY DEF heard
    <3>2. /\ telling \in Seq(FrameType) /\ StackHolds(telling, owner, heard)
      BY <2>1
    <3> QED BY <2>3, <3>1, <3>2, Resumed
  <2> QED BY <2>1, <2>2, <2>4
<1>3. /\ x \in Items /\ f.kind \in {"added", "removed"}
      /\ owner[x] = IF f.kind = "added" THEN "starting" ELSE "undone"
  <2>1. f.item \in Items /\ f.kind \in {"added", "removed"}
    BY DEF FrameType
  <2> QED BY <2>1 DEF FrameHolds
<1>4. x \in Filed <=> f.kind = "added"
  BY <1>1, <1>3 DEF OwnedEntries
<1>5. Filed' = Filed
  BY <1>1 DEF Filed
<1>6. ASSUME NEW l \in AllOf(listeners) \ missed, NEW j \in Items
      PROVE  j \in view'[l] <=> \/ j \in Filed /\ ~Coming(telling', j, l, "added")
                                \/ Coming(telling', j, l, "removed")
  <2>1. j \in view[l] <=> \/ j \in Filed /\ ~Coming(telling, j, l, "added")
                          \/ Coming(telling, j, l, "removed")
    BY <1>1 DEF Known
  <2>2. CASE j # x
    <3>1. j \in view'[l] <=> j \in view[l]
      BY <2>2
    <3> QED BY <1>2, <2>1, <2>2, <3>1
  <2>3. CASE j = x /\ l \in Rest(Top) \ Rest(f)
    <3>1. x \in view'[l] <=> f.kind = "added"
      BY <2>3
    <3> QED BY <1>2, <1>3, <1>4, <2>3, <3>1
  <2>4. CASE j = x /\ l \notin Rest(Top) \ Rest(f)
    <3>1. x \in view'[l] <=> x \in view[l]
      BY <2>4
    <3>2. l \in Rest(Top) <=> l \in Rest(f)
      BY <2>4
    <3> QED BY <1>2, <2>1, <2>4, <3>1, <3>2
  <2> QED BY <2>2, <2>3, <2>4
<1>7. SeamTypes'
  BY <1>1, <1>2 DEF SeamTypes
<1>8. OwnedEntries'
  BY <1>1, <1>5 DEF OwnedEntries
<1>9. Known'
  BY <1>1, <1>5, <1>6 DEF Known
<1> QED BY <1>1, <1>2, <1>7, <1>8, <1>9 DEF SeamInv, Distinct, AllOf

\* The innermost announcement is over; whom it did not reach is counted as missed.
LEMMA PoppedKeeps ==
  ASSUME SeamInv, telling # <<>>, NEW state \in {"effect", "lost"}, telling' = Below,
         owner' = [owner EXCEPT ![Top.item] = IF Top.kind = "added" THEN state ELSE @],
         missed' = missed \cup Rest(Top),
         UNCHANGED <<entries, listeners, view>>
  PROVE  SeamInv'
PROOF
<1>. DEFINE heard == AllOf(listeners) \cup missed
            x == Top.item
<1>1. /\ SeamTypes /\ OwnedEntries /\ Distinct(listeners) /\ Known
      /\ entries' = entries /\ view' = view /\ listeners' = listeners
  BY DEF SeamInv
<1>2. /\ Top = telling[Len(telling)] /\ Below = SubSeq(telling, 1, Len(telling) - 1)
      /\ telling \in Seq(FrameType) /\ StackHolds(telling, owner, heard)
      /\ x \in Items /\ Top.kind \in {"added", "removed"} /\ Top.queue \in Seq(Listeners)
      /\ FrameHolds(Top, owner, heard)
  BY TopHolds
<1>3. PICK own : own = owner'
  OBVIOUS
<1>4. \A j \in Items : j # x => own[j] = owner[j]
  BY <1>1, <1>3 DEF SeamTypes
<1>5. PICK now : now = AllOf(listeners) \cup missed'
  OBVIOUS
<1>6. heard \subseteq now
  BY <1>5
<1>7. PICK u : u = telling'
  OBVIOUS
<1>8. u = SubSeq(telling, 1, Len(telling) - 1)
  BY <1>2, <1>7
<1>9. /\ u \in Seq(FrameType) /\ StackHolds(u, own, now)
      /\ \A i, l, kind : Coming(u, i, l, kind) <=> Coming(telling, i, l, kind) /\ i # x
      /\ \A l, kind : Coming(telling, x, l, kind) <=> Top.kind = kind /\ l \in Rest(Top)
  <2>1. /\ \A i \in Items : i # telling[Len(telling)].item => own[i] = owner[i]
        /\ heard \subseteq now
    BY <1>2, <1>4, <1>6
  <2>2. /\ u \in Seq(FrameType) /\ StackHolds(u, own, now)
        /\ \A i, l, kind : Coming(u, i, l, kind) <=>
                             Coming(telling, i, l, kind) /\ i # telling[Len(telling)].item
        /\ \A l, kind : Coming(telling, telling[Len(telling)].item, l, kind) <=>
                          telling[Len(telling)].kind = kind /\ l \in Rest(telling[Len(telling)])
    <3>. HIDE DEF heard
    <3>1. /\ telling \in Seq(FrameType) /\ StackHolds(telling, owner, heard)
      BY <1>2
    <3> QED BY <1>8, <2>1, <3>1, Popped
  <2> QED BY <1>2, <2>2
<1>10. Rest(Top) \subseteq Listeners
  <2>1. Top.inside => Tail(Top.queue) \in Seq(Listeners)
    BY <1>2, TailFacts DEF FrameHolds
  <2> QED BY <1>2, <2>1 DEF Rest, AllOf
<1>11. SeamTypes'
  BY <1>1, <1>7, <1>9, <1>10 DEF SeamTypes
<1>12. Filed' = Filed
  BY <1>1 DEF Filed
<1>13. /\ owner[x] = (IF Top.kind = "added" THEN "starting" ELSE "undone")
       /\ owner'[x] = IF Top.kind = "added" THEN state ELSE owner[x]
  BY <1>1, <1>2 DEF FrameHolds, SeamTypes
<1>14. OwnedEntries'
  BY <1>1, <1>2, <1>3, <1>4, <1>12, <1>13 DEF OwnedEntries
<1>15. ASSUME NEW l \in AllOf(listeners) \ missed', NEW j \in Items
       PROVE  j \in view[l] <=> \/ j \in Filed /\ ~Coming(u, j, l, "added")
                                \/ Coming(u, j, l, "removed")
  <2>1. j \in view[l] <=> \/ j \in Filed /\ ~Coming(telling, j, l, "added")
                          \/ Coming(telling, j, l, "removed")
    BY <1>1 DEF Known
  <2>2. l \notin Rest(Top)
    OBVIOUS
  <2> QED BY <1>9, <2>1, <2>2
<1>16. Known'
  BY <1>1, <1>7, <1>12, <1>15 DEF Known
<1>17. StackHolds(telling', owner', AllOf(listeners') \cup missed')
  BY <1>1, <1>3, <1>5, <1>7, <1>9
<1> QED BY <1>1, <1>11, <1>14, <1>16, <1>17 DEF SeamInv, Distinct

\* A listener is told.
LEMMA TellKeeps ==
  ASSUME SeamInv, Tell
  PROVE  SeamInv'
PROOF
<1>. DEFINE f == [Top EXCEPT !.inside = TRUE]
            h == Head(Top.queue)
<1>1. /\ telling # <<>> /\ ~Top.inside /\ Top.queue # <<>> /\ telling' = Append(Below, f)
      /\ view' = [view EXCEPT ![h] = IF Top.kind = "added" THEN @ \cup {Top.item}
                                     ELSE @ \ {Top.item}]
      /\ UNCHANGED <<entries, owner, listeners, missed>>
  BY DEF Tell
<1>2. /\ Top \in FrameType /\ FrameHolds(Top, owner, AllOf(listeners) \cup missed)
      /\ Top.item \in Items /\ Top.kind \in {"added", "removed"}
      /\ Top.queue \in Seq(Listeners)
  BY <1>1, TopHolds
<1>3. /\ f \in FrameType /\ f.item = Top.item /\ f.kind = Top.kind /\ f.queue = Top.queue
      /\ f.inside
  BY <1>2 DEF FrameType
<1>. HIDE DEF f
<1>4. /\ h \in Listeners /\ AllOf(Top.queue) = {h} \cup AllOf(Tail(Top.queue))
      /\ h \notin AllOf(Tail(Top.queue))
  BY <1>1, <1>2, TailFacts DEF FrameHolds
<1>. HIDE DEF h
<1>5. FrameHolds(f, owner, AllOf(listeners) \cup missed)
  BY <1>1, <1>2, <1>3 DEF FrameHolds
<1>6. Rest(f) = AllOf(Tail(Top.queue)) /\ Rest(Top) = AllOf(Top.queue)
  BY <1>1, <1>3 DEF Rest
<1>7. Rest(f) \subseteq Rest(Top) /\ Rest(Top) \ Rest(f) = {h}
  BY <1>4, <1>6
<1>8. view \in [Listeners -> SUBSET Items] /\ listeners \in Seq(Listeners)
  BY DEF SeamInv, SeamTypes
<1>9. view' \in [Listeners -> SUBSET Items]
  BY <1>1, <1>2, <1>4, <1>8
<1>10. ASSUME NEW l \in AllOf(listeners), NEW j \in Items
       PROVE  IF j = f.item /\ l \in Rest(Top) \ Rest(f)
              THEN j \in view'[l] <=> f.kind = "added"
              ELSE j \in view'[l] <=> j \in view[l]
  <2>1. l \in Listeners
    BY <1>8 DEF AllOf
  <2>2. CASE l = h
    <3>1. view'[l] = IF Top.kind = "added" THEN view[l] \cup {Top.item}
                     ELSE view[l] \ {Top.item}
      BY <1>1, <1>8, <2>1, <2>2
    <3> QED BY <1>3, <1>7, <2>2, <3>1
  <2>3. CASE l # h
    <3>1. view'[l] = view[l]
      BY <1>1, <1>8, <2>1, <2>3
    <3> QED BY <1>7, <2>3, <3>1
  <2> QED BY <2>2, <2>3
<1> QED BY <1>1, <1>3, <1>5, <1>7, <1>9, <1>10, ResumedKeeps

\* A listener returns, or raises and is reported: the next one is up.
LEMMA ToldKeeps ==
  ASSUME SeamInv, Told \/ Contained
  PROVE  SeamInv'
PROOF
<1>. DEFINE f == [Top EXCEPT !.inside = FALSE, !.queue = Tail(@)]
<1>1. /\ telling # <<>> /\ Top.inside /\ telling' = Append(Below, f)
      /\ view' = view /\ UNCHANGED <<entries, owner, listeners, missed>>
  BY DEF Told, Contained, TheNext
<1>2. /\ Top \in FrameType /\ FrameHolds(Top, owner, AllOf(listeners) \cup missed)
      /\ Top.queue \in Seq(Listeners) /\ Top.queue # <<>>
  BY <1>1, TopHolds DEF FrameHolds
<1>3. /\ Tail(Top.queue) \in Seq(Listeners)
      /\ AllOf(Tail(Top.queue)) \subseteq AllOf(Top.queue) /\ Distinct(Tail(Top.queue))
  BY <1>2, TailFacts DEF FrameHolds
<1>4. /\ f \in FrameType /\ f.item = Top.item /\ f.kind = Top.kind
      /\ f.queue = Tail(Top.queue) /\ ~f.inside
  BY <1>2, <1>3 DEF FrameType
<1>. HIDE DEF f
<1>5. FrameHolds(f, owner, AllOf(listeners) \cup missed)
  BY <1>2, <1>3, <1>4 DEF FrameHolds
<1>6. Rest(f) = Rest(Top)
  BY <1>1, <1>4 DEF Rest
<1>7. view' \in [Listeners -> SUBSET Items]
  BY <1>1 DEF SeamInv, SeamTypes
<1>8. \A l \in AllOf(listeners), j \in Items :
        IF j = f.item /\ l \in Rest(Top) \ Rest(f) THEN j \in view'[l] <=> f.kind = "added"
        ELSE j \in view'[l] <=> j \in view[l]
  BY <1>1, <1>6
<1> QED BY <1>1, <1>4, <1>5, <1>6, <1>7, <1>8, ResumedKeeps

\* An announcement ends, because an error handler raises or because everybody has
\* been told.
LEMMA AnnouncedKeeps ==
  ASSUME SeamInv, HandlerFails \/ Announced
  PROVE  SeamInv'
PROOF
<1>1. CASE HandlerFails
  <2>1. /\ telling # <<>> /\ telling' = Below /\ missed' = missed \cup Rest(Top)
        /\ owner' = [owner EXCEPT ![Top.item] = IF Top.kind = "added" THEN "lost" ELSE @]
        /\ UNCHANGED <<entries, listeners, view>>
    BY <1>1 DEF HandlerFails, Rest
  <2> QED BY <2>1, PoppedKeeps
<1>2. CASE Announced
  <2>1. /\ telling # <<>> /\ telling' = Below /\ missed' = missed /\ Top.queue = <<>>
        /\ owner' = [owner EXCEPT ![Top.item] = IF Top.kind = "added" THEN "effect" ELSE @]
        /\ UNCHANGED <<entries, listeners, view>>
    BY <1>2 DEF Announced
  <2>2. ~Top.inside
    BY <2>1, TopHolds DEF FrameHolds
  <2>3. Rest(Top) = {}
    BY <2>1, <2>2 DEF Rest, AllOf
  <2> QED BY <2>1, <2>3, PoppedKeeps
<1> QED BY <1>1, <1>2

\* The invariant of a capability registry, however its listeners nest (Registry of
\* seam.py).
THEOREM SeamInvHolds == SeamSpec => []SeamInv
PROOF
<1>1. SeamInit => SeamInv
  BY SeamInvInit
<1>2. SeamInv /\ [SeamNext]_seamVars => SeamInv'
  <2> SUFFICES ASSUME SeamInv, [SeamNext]_seamVars
               PROVE  SeamInv'
    OBVIOUS
  <2>1. CASE UNCHANGED seamVars
    <3>1. /\ entries' = entries /\ owner' = owner /\ listeners' = listeners
          /\ telling' = telling /\ view' = view /\ missed' = missed
      BY <2>1 DEF seamVars
    <3> QED BY <3>1 DEF SeamInv, SeamTypes, OwnedEntries, Filed, Known, Distinct, AllOf
  <2>2. CASE \E i \in Items : Register(i) \/ Undo(i)
    BY <2>2, RegisterKeeps, UndoKeeps
  <2>3. CASE \E l \in Listeners : Observe(l) \/ StopObserving(l)
    BY <2>3, ObserveKeeps, StopKeeps
  <2>4. CASE Tell \/ Told \/ Contained \/ HandlerFails \/ Announced
    BY <2>4, TellKeeps, ToldKeeps, AnnouncedKeeps
  <2> QED BY <2>1, <2>2, <2>3, <2>4 DEF SeamNext
<1> QED BY <1>1, <1>2, PTL DEF SeamSpec

\* Whoever follows a capability registry by what it is told knows the entries there
\* are, but for the announcements on their way to it, and an entry is there for as
\* long as its effect is owed; for any number of items, keys and listeners, and
\* however deep their announcements nest (Registry.register, _announce).
THEOREM FollowedHolds == SeamSpec => []Followed
PROOF
<1>1. SeamInv => Followed
  <2> SUFFICES ASSUME SeamInv
               PROVE  Followed
    OBVIOUS
  <2>1. ASSUME NEW l \in AllOf(listeners) \ missed
        PROVE  view[l] = (Filed \ Untold(l, "added")) \cup Untold(l, "removed")
    <3>1. ASSUME NEW i, NEW kind
          PROVE  i \in Untold(l, kind) <=> Coming(telling, i, l, kind)
      <4>1. Untold(l, kind) =
              {f.item : f \in {g \in AllOf(telling) : g.kind = kind /\ l \in Rest(g)}}
        BY DEF Untold, Rest
      <4>2. AllOf(telling) = {telling[n] : n \in DOMAIN telling}
        BY DEF AllOf
      <4> QED BY <4>1, <4>2 DEF Coming
    <3>2. Untold(l, "removed") \subseteq Items /\ Filed \subseteq Items
      <4>1. \A n \in DOMAIN telling : telling[n].item \in Items
        <5>1. \A n \in DOMAIN telling : telling[n] \in FrameType
          BY DEF SeamInv, SeamTypes
        <5> QED BY <5>1 DEF FrameType
      <4> QED BY <3>1, <4>1 DEF Coming, Filed
    <3>3. l \in Listeners
      BY DEF SeamInv, SeamTypes, AllOf
    <3>4. view[l] \subseteq Items
      BY <3>3 DEF SeamInv, SeamTypes
    <3>5. ASSUME NEW i \in Items
          PROVE  i \in view[l] <=> \/ i \in Filed /\ ~Coming(telling, i, l, "added")
                                   \/ Coming(telling, i, l, "removed")
      BY DEF SeamInv, Known
    <3> QED BY <3>1, <3>2, <3>4, <3>5
  <2>2. InStep
    BY <2>1 DEF InStep
  <2> QED BY <2>2 DEF Followed, SeamInv
<1> QED BY <1>1, SeamInvHolds, PTL

-----------------------------------------------------------------------------
\* Timer

ShotType == [at : Nat, call : Nat, tick : Nat, ended : Nat, latest : Nat, since : Nat]

TaskType ==
  [phase : {"new", "asleep", "running", "over"}, cancel : BOOLEAN, call : Nat,
   begun : Nat, tick : Nat \ {0}, due : Nat]

HelperType ==
  [effect : {"none", "recorded", "stopping", "stopped"}, pending : Nat, call : Nat,
   awaited : Nat, owned : Nat, calls : Nat, calledAt : Nat, completed : Nat,
   skipped : Nat, fired : Seq(ShotType)]

\* The parts of the invariant of a helper: s is what it keeps, ts its tasks.

\* A task that is going to call.
Due(t) == t.phase \in {"new", "asleep"} /\ ~t.cancel

\* A wrapper has at most one task that is going to call and knows it; the other
\* helpers have one task, which the disposer waits for.
Owns(h, s, ts) ==
  /\ s.pending <= Len(ts)
  /\ s.effect = "none" => ts = <<>> /\ s.pending = 0 /\ s.calls = 0 /\ s.fired = <<>>
                          /\ s.completed = 0 /\ s.skipped = 0
  /\ s.effect \in {"stopping", "stopped"} => s.owned <= Len(ts)
  /\ IF Wrapper(h)
     THEN /\ \A i \in DOMAIN ts : Due(ts[i]) => i = s.pending
          /\ s.pending # 0 => Due(ts[s.pending])
          /\ s.effect \in {"stopping", "stopped"} => s.pending = 0 \/ s.pending > s.owned
     ELSE /\ s.effect # "none" => Len(ts) = 1
          /\ s.effect = "recorded" => s.pending = 1
          /\ s.effect \in {"stopping", "stopped"} => s.awaited = 1
          /\ s.effect = "stopped" => ts[1].phase = "over"

\* A wrapper that waits has taken the last call along, and one that does not has
\* carried it out; its task sleeps for a period, after the last shot of a
\* throttle and the last call of a debounce.
Calls(h, s, ts, now) ==
  Wrapper(h) =>
    /\ s.calledAt <= now
    /\ \A n \in DOMAIN s.fired :
         s.fired[n].call = s.fired[n].latest /\ s.fired[n].at <= now
    /\ \A i \in DOMAIN ts : ts[i].phase = "asleep" => ts[i].due = ts[i].begun + Period[h]
    /\ s.pending = 0 /\ s.effect = "recorded" /\ s.calls > 0 =>
         s.fired # <<>> /\ s.fired[Len(s.fired)].call = s.calls
    /\ s.pending # 0 =>
         s.calls = IF Kind[h] = "throttle" THEN s.call ELSE ts[s.pending].call
    /\ Kind[h] = "throttle" =>
         /\ \A n \in DOMAIN s.fired :
              n > 1 => s.fired[n].at >= s.fired[n - 1].at + Period[h]
         /\ s.pending # 0 /\ ts[s.pending].phase = "asleep" =>
              \A n \in DOMAIN s.fired : ts[s.pending].begun >= s.fired[n].at
    /\ Kind[h] = "debounce" =>
         /\ \A n \in DOMAIN s.fired : s.fired[n].at >= s.fired[n].since + Period[h]
         /\ s.pending # 0 /\ ts[s.pending].phase = "asleep" =>
              ts[s.pending].begun >= s.calledAt

Ran(s) == {s.fired[n].tick : n \in DOMAIN s.fired}

\* Every deadline before the current one was run or overrun, and an iteration is
\* for the current one.
Counts(h, s, ts) ==
  Kind[h] = "interval" /\ ts # <<>> =>
    LET t == ts[1] IN
    /\ IsFiniteSet(Ran(s))
    /\ t.phase = "new" => t.tick = 1 /\ s.fired = <<>> /\ s.completed = 0 /\ s.skipped = 0
    /\ t.phase \in {"asleep", "running"} =>
         /\ s.completed + s.skipped = t.tick - 1
         /\ \A k \in (1..t.tick - 1) \ Ran(s) :
              \E n \in DOMAIN s.fired :
                s.fired[n].tick < k /\ s.fired[n].ended > t.begun + k * Period[h]
    /\ t.phase = "asleep" =>
         /\ s.completed = Cardinality(Ran(s))
         /\ \A n \in DOMAIN s.fired : s.fired[n].tick < t.tick
    /\ t.phase = "running" =>
         /\ s.completed + 1 = Cardinality(Ran(s)) /\ s.fired # <<>>
         /\ \A n \in DOMAIN s.fired :
              IF n = Len(s.fired) THEN s.fired[n].tick = t.tick ELSE s.fired[n].tick < t.tick

Works(h, s, ts, now) == Owns(h, s, ts) /\ Calls(h, s, ts, now) /\ Counts(h, s, ts)

TimerTypes ==
  /\ clock \in 0..MaxTime
  /\ helper \in [Helpers -> HelperType] /\ tasks \in [Helpers -> Seq(TaskType)]

TimerInv == TimerTypes /\ \A h \in Helpers : Works(h, helper[h], tasks[h], clock)

\* What a replacement changes.
LEMMA ReplaceFacts ==
  ASSUME NEW S, NEW q \in Seq(S), NEW i \in DOMAIN q, NEW e \in S
  PROVE  /\ [q EXCEPT ![i] = e] \in Seq(S) /\ Len([q EXCEPT ![i] = e]) = Len(q)
         /\ DOMAIN [q EXCEPT ![i] = e] = DOMAIN q /\ [q EXCEPT ![i] = e][i] = e
         /\ \A j \in DOMAIN q \ {i} : [q EXCEPT ![i] = e][j] = q[j]
PROOF
<1>1. [q EXCEPT ![i] = e] \in Seq(S) /\ Len([q EXCEPT ![i] = e]) = Len(q)
  BY ExceptSeq
<1> QED BY <1>1

\* What the invariant says of one helper.
LEMMA HelperFacts ==
  ASSUME TimerInv, NEW h \in Helpers
  PROVE  /\ clock \in Nat /\ MaxTime \in Nat /\ Period[h] \in Nat /\ Period[h] > 0
         /\ helper[h] \in HelperType /\ tasks[h] \in Seq(TaskType)
         /\ Owns(h, helper[h], tasks[h]) /\ Calls(h, helper[h], tasks[h], clock)
         /\ Counts(h, helper[h], tasks[h])
PROOF
<1>1. clock \in 0..MaxTime /\ MaxTime \in Nat /\ Period[h] \in Nat \ {0}
  BY TimerAssumption DEF TimerInv, TimerTypes
<1>2. helper[h] \in HelperType /\ tasks[h] \in Seq(TaskType)
  BY DEF TimerInv, TimerTypes
<1>3. Works(h, helper[h], tasks[h], clock)
  BY DEF TimerInv
<1> QED BY <1>1, <1>2, <1>3 DEF Works

\* A step of one helper is judged by that helper.
LEMMA OneHelper ==
  ASSUME TimerInv, NEW h \in Helpers,
         NEW s \in HelperType, NEW ts \in Seq(TaskType),
         helper' = [helper EXCEPT ![h] = s], tasks' = [tasks EXCEPT ![h] = ts],
         clock' = clock,
         Owns(h, s, ts), Calls(h, s, ts, clock), Counts(h, s, ts)
  PROVE  TimerInv'
PROOF
<1>1. TimerTypes'
  BY DEF TimerInv, TimerTypes
<1>2. ASSUME NEW g \in Helpers
      PROVE  Works(g, helper[g], tasks[g], clock)'
  <2>1. CASE g = h
    <3>1. helper'[g] = s /\ tasks'[g] = ts /\ clock' = clock
      BY <2>1 DEF TimerInv, TimerTypes
    <3> QED BY <2>1, <3>1 DEF Works
  <2>2. CASE g # h
    <3>1. helper'[g] = helper[g] /\ tasks'[g] = tasks[g] /\ clock' = clock
      BY <2>2 DEF TimerInv, TimerTypes
    <3>2. Works(g, helper[g], tasks[g], clock)
      BY DEF TimerInv
    <3> QED BY <3>1, <3>2
  <2> QED BY <2>1, <2>2
<1> QED BY <1>1, <1>2 DEF TimerInv

\* A new helper keeps nothing.
LEMMA NewFacts ==
  /\ NewHelper \in HelperType /\ NewHelper.effect = "none" /\ NewHelper.pending = 0
  /\ NewHelper.calls = 0 /\ NewHelper.calledAt = 0 /\ NewHelper.fired = <<>>
  /\ NewHelper.completed = 0 /\ NewHelper.skipped = 0
  /\ \A c \in Nat : /\ NewTask(c) \in TaskType /\ NewTask(c).phase = "new"
                    /\ ~NewTask(c).cancel /\ NewTask(c).call = c /\ NewTask(c).tick = 1
PROOF
<1>1. <<>> \in Seq(ShotType)
  OBVIOUS
<1> QED BY <1>1 DEF NewHelper, NewTask, HelperType, TaskType

LEMMA TimerInvInit == TimerInit => TimerInv
PROOF
<1> SUFFICES ASSUME TimerInit
             PROVE  TimerInv
  OBVIOUS
<1>1. clock \in 0..MaxTime
  BY TimerAssumption DEF TimerInit
<1>2. helper \in [Helpers -> HelperType] /\ tasks \in [Helpers -> Seq(TaskType)]
  BY NewFacts DEF TimerInit
<1>3. ASSUME NEW h \in Helpers
      PROVE  Works(h, helper[h], tasks[h], clock)
  <2>1. helper[h] = NewHelper /\ tasks[h] = <<>> /\ clock = 0
    BY DEF TimerInit
  <2>2. Len(<<>>) = 0 /\ DOMAIN <<>> = {}
    OBVIOUS
  <2>3. Owns(h, NewHelper, <<>>)
    BY <2>2, NewFacts DEF Owns
  <2>4. Calls(h, NewHelper, <<>>, 0)
    BY <2>2, NewFacts DEF Calls
  <2>5. Counts(h, NewHelper, <<>>)
    BY DEF Counts
  <2> QED BY <2>1, <2>3, <2>4, <2>5 DEF Works
<1> QED BY <1>1, <1>2, <1>3 DEF TimerInv, TimerTypes

\* Time passes.
LEMMA AdvanceKeeps == ASSUME TimerInv, Advance PROVE TimerInv'
PROOF
<1>1. TimerTypes'
  BY TimerAssumption DEF TimerInv, TimerTypes, Advance
<1>2. ASSUME NEW h \in Helpers
      PROVE  Works(h, helper[h], tasks[h], clock)'
  <2>1. /\ helper' = helper /\ tasks' = tasks /\ clock' = clock + 1
    BY DEF Advance
  <2>2. Owns(h, helper[h], tasks[h]) /\ Counts(h, helper[h], tasks[h])
    BY HelperFacts
  <2>3. Calls(h, helper[h], tasks[h], clock + 1)
    <3>1. /\ clock \in Nat /\ helper[h] \in HelperType
          /\ Calls(h, helper[h], tasks[h], clock)
      BY HelperFacts
    <3>. DEFINE s == helper[h]
                ts == tasks[h]
                now == clock
    <3>2. s.calledAt \in Nat /\ \A n \in DOMAIN s.fired : s.fired[n].at \in Nat
      <4>1. s.calledAt \in Nat /\ s.fired \in Seq(ShotType)
        BY <3>1 DEF HelperType
      <4>2. \A n \in DOMAIN s.fired : s.fired[n] \in ShotType
        BY <4>1
      <4> QED BY <4>1, <4>2 DEF ShotType
    <3>3. now \in Nat /\ Calls(h, s, ts, now)
      BY <3>1
    <3>. HIDE DEF s, ts, now
    <3>4. \A k \in Nat : k <= now => k <= now + 1
      BY <3>3
    <3>5. Calls(h, s, ts, now + 1)
      BY <3>2, <3>3, <3>4, Zenon DEF Calls
    <3> QED BY <3>5 DEF s, ts, now
  <2> QED BY <2>1, <2>2, <2>3 DEF Works
<1> QED BY <1>1, <1>2 DEF TimerInv

\* What a task and what a helper keeps are made of.
LEMMA TaskFacts ==
  ASSUME NEW t \in TaskType
  PROVE  /\ t.phase \in {"new", "asleep", "running", "over"} /\ t.cancel \in BOOLEAN
         /\ t.call \in Nat /\ t.begun \in Nat /\ t.tick \in Nat /\ t.tick > 0 /\ t.due \in Nat
BY DEF TaskType

LEMMA KeptFacts ==
  ASSUME NEW s \in HelperType
  PROVE  /\ s.effect \in {"none", "recorded", "stopping", "stopped"}
         /\ s.pending \in Nat /\ s.call \in Nat /\ s.awaited \in Nat /\ s.owned \in Nat
         /\ s.calls \in Nat /\ s.calledAt \in Nat /\ s.completed \in Nat /\ s.skipped \in Nat
         /\ s.fired \in Seq(ShotType) /\ Len(s.fired) \in Nat
         /\ DOMAIN s.fired = 1..Len(s.fired)
         /\ \A n \in DOMAIN s.fired :
              /\ s.fired[n].at \in Nat /\ s.fired[n].call \in Nat /\ s.fired[n].tick \in Nat
              /\ s.fired[n].ended \in Nat /\ s.fired[n].latest \in Nat
              /\ s.fired[n].since \in Nat
PROOF
<1>1. s.fired \in Seq(ShotType)
  BY DEF HelperType
<1>2. \A n \in DOMAIN s.fired : s.fired[n] \in ShotType
  BY <1>1
<1>3. /\ s.effect \in {"none", "recorded", "stopping", "stopped"}
      /\ s.pending \in Nat /\ s.call \in Nat /\ s.awaited \in Nat /\ s.owned \in Nat
      /\ s.calls \in Nat /\ s.calledAt \in Nat /\ s.completed \in Nat /\ s.skipped \in Nat
  BY DEF HelperType
<1>4. /\ Len(s.fired) \in Nat /\ DOMAIN s.fired = 1..Len(s.fired)
  BY <1>1
<1>5. ASSUME NEW n \in DOMAIN s.fired
      PROVE  /\ s.fired[n].at \in Nat /\ s.fired[n].call \in Nat /\ s.fired[n].tick \in Nat
             /\ s.fired[n].ended \in Nat /\ s.fired[n].latest \in Nat
             /\ s.fired[n].since \in Nat
  BY <1>2 DEF ShotType
<1> QED BY <1>1, <1>3, <1>4, <1>5

\* A helper is set up.
LEMMA SetKeeps ==
  ASSUME TimerInv, NEW h \in Helpers, Set(h)
  PROVE  TimerInv'
PROOF
<1>. DEFINE s == helper[h]
            ts == tasks[h]
            ns == [s EXCEPT !.effect = "recorded", !.pending = IF Wrapper(h) THEN 0 ELSE 1]
            nts == IF Wrapper(h) THEN ts ELSE <<NewTask(0)>>
<1>1. /\ s \in HelperType /\ ts \in Seq(TaskType) /\ clock \in Nat
      /\ Owns(h, s, ts) /\ Calls(h, s, ts, clock)
  BY HelperFacts
<1>2. /\ s.effect = "none" /\ ts = <<>> /\ s.pending = 0 /\ s.calls = 0
      /\ s.fired = <<>> /\ s.completed = 0 /\ s.skipped = 0
  BY <1>1 DEF Set, Owns
<1>3. /\ ns \in HelperType /\ ns.effect = "recorded" /\ ns.calls = 0 /\ ns.fired = <<>>
      /\ ns.completed = 0 /\ ns.skipped = 0 /\ ns.calledAt = s.calledAt
      /\ Wrapper(h) => ns.pending = 0
      /\ ~Wrapper(h) => ns.pending = 1
  BY <1>1, <1>2 DEF HelperType
<1>4. /\ nts \in Seq(TaskType)
      /\ Wrapper(h) => nts = <<>>
      /\ ~Wrapper(h) => /\ Len(nts) = 1 /\ DOMAIN nts = {1} /\ nts[1] = NewTask(0)
  BY <1>1, <1>2, NewFacts
<1>5. /\ helper' = [helper EXCEPT ![h] = ns] /\ tasks' = [tasks EXCEPT ![h] = nts]
      /\ clock' = clock
  BY DEF Set
<1>. HIDE DEF s, ts, ns, nts
<1>6. Len(<<>>) = 0 /\ DOMAIN <<>> = {}
  OBVIOUS
<1>7. Owns(h, ns, nts)
  BY <1>3, <1>4, <1>6 DEF Owns
<1>8. Calls(h, ns, nts, clock)
  BY <1>1, <1>3, <1>4, <1>6 DEF Calls
<1>9. Counts(h, ns, nts)
  <2>1. CASE Wrapper(h)
    BY <2>1, <1>4 DEF Counts
  <2>2. CASE ~Wrapper(h)
    <3>1. nts[1].phase = "new" /\ nts[1].tick = 1
      BY <2>2, <1>4, NewFacts
    <3>2. Ran(ns) = {}
      BY <1>3, <1>6 DEF Ran
    <3> QED BY <1>3, <3>1, <3>2, FS_EmptySet DEF Counts
  <2> QED BY <2>1, <2>2
<1> QED BY <1>3, <1>4, <1>5, <1>7, <1>8, <1>9, OneHelper

\* A throttled callable is called.
LEMMA CallThrottledKeeps ==
  ASSUME TimerInv, NEW h \in Helpers, CallThrottled(h)
  PROVE  TimerInv'
PROOF
<1>. DEFINE s == helper[h]
            ts == tasks[h]
            n == s.calls + 1
            t == NewTask(n)
            kept == [s EXCEPT !.calls = n, !.calledAt = clock, !.call = n]
            p == Len(ts) + 1
            began == [kept EXCEPT !.pending = p]
            nts == Append(ts, t)
<1>1. /\ s \in HelperType /\ ts \in Seq(TaskType) /\ clock \in Nat
      /\ Owns(h, s, ts) /\ Calls(h, s, ts, clock)
      /\ Kind[h] = "throttle" /\ s.effect # "none"
  BY HelperFacts DEF CallThrottled
<1>2. /\ Wrapper(h) /\ Kind[h] # "interval" /\ Kind[h] # "debounce"
  BY <1>1 DEF Wrapper
<1>3. /\ n \in Nat /\ n > 0 /\ Len(ts) \in Nat /\ s.owned \in Nat /\ s.pending \in Nat
      /\ DOMAIN ts = 1..Len(ts) /\ s.effect \in {"recorded", "stopping", "stopped"}
  BY <1>1, KeptFacts
<1>4. t \in TaskType /\ t.phase = "new" /\ ~t.cancel
  BY <1>3, NewFacts
<1>5. /\ kept \in HelperType /\ kept.effect = s.effect /\ kept.owned = s.owned
      /\ kept.fired = s.fired /\ kept.calledAt = clock
      /\ kept.calls = n /\ kept.call = n /\ kept.pending = s.pending
  <2>. HIDE DEF s, ts, n
  <2> QED BY <1>1, <1>3 DEF HelperType
<1>5a. /\ began \in HelperType /\ began.effect = s.effect /\ began.owned = s.owned
       /\ began.fired = s.fired /\ began.calledAt = clock
       /\ began.calls = n /\ began.call = n /\ began.pending = Len(ts) + 1
  <2>1. p \in Nat
    BY <1>3
  <2>. HIDE DEF s, ts, n, kept, p
  <2>2. /\ began \in HelperType /\ began.effect = kept.effect /\ began.owned = kept.owned
        /\ began.fired = kept.fired /\ began.calledAt = kept.calledAt
        /\ began.calls = kept.calls /\ began.call = kept.call /\ began.pending = p
    BY <2>1, <1>5 DEF HelperType
  <2> QED BY <1>5, <2>2 DEF p
<1>6. CASE ~WindowClosed(h)
  <2>1. /\ helper' = [helper EXCEPT ![h] = kept] /\ tasks' = [tasks EXCEPT ![h] = ts]
        /\ clock' = clock /\ s.pending # 0
    <3>1. helper' = [Called(h) EXCEPT ![h].call = n] /\ tasks' = tasks /\ clock' = clock
      BY <1>6 DEF CallThrottled
    <3>2. helper' = [helper EXCEPT ![h] = kept]
      BY <3>1 DEF Called
    <3>3. tasks' = [tasks EXCEPT ![h] = ts]
      BY <3>1 DEF TimerInv, TimerTypes
    <3> QED BY <1>6, <3>1, <3>2, <3>3 DEF WindowClosed
  <2>. HIDE DEF s, ts, n, kept
  <2>2. Owns(h, kept, ts)
    BY <1>1, <1>2, <1>3, <1>5 DEF Owns
  <2>3. Calls(h, kept, ts, clock)
    BY <1>1, <1>2, <1>3, <1>5, <2>1 DEF Calls
  <2>4. Counts(h, kept, ts)
    BY <1>2 DEF Counts
  <2> QED BY <1>1, <1>5, <2>1, <2>2, <2>3, <2>4, OneHelper
<1>7. CASE WindowClosed(h)
  <2>1. /\ helper' = [helper EXCEPT ![h] = began] /\ tasks' = [tasks EXCEPT ![h] = nts]
        /\ clock' = clock /\ s.pending = 0
    <3>1. /\ helper' = [Called(h) EXCEPT ![h].call = n, ![h].pending = Len(tasks[h]) + 1]
          /\ tasks' = [tasks EXCEPT ![h] = Append(@, NewTask(n))] /\ clock' = clock
      BY <1>7 DEF CallThrottled
    <3>2. helper' = [helper EXCEPT ![h] = began]
      BY <3>1 DEF Called
    <3> QED BY <1>7, <3>1, <3>2 DEF WindowClosed
  <2>. HIDE DEF s, ts, n, t, began
  <2>2. /\ nts \in Seq(TaskType) /\ Len(nts) = Len(ts) + 1
        /\ \A i \in 1..Len(ts) : nts[i] = ts[i]
        /\ nts[Len(ts) + 1] = t
    BY <1>1, <1>4, AppendFacts
  <2>3. DOMAIN nts = 1..Len(ts) + 1
    BY <2>2
  <2>. HIDE DEF nts
  <2>4. Owns(h, began, nts)
    <3>1. \A i \in DOMAIN nts : Due(nts[i]) => i = Len(ts) + 1
      <4>1. \A i \in DOMAIN ts : ~Due(ts[i])
        BY <1>1, <1>2, <1>3, <2>1 DEF Owns
      <4> QED BY <1>3, <2>2, <2>3, <4>1
    <3>2. Due(nts[Len(ts) + 1])
      BY <1>4, <2>2 DEF Due
    <3>3. /\ s.effect \in {"stopping", "stopped"} => s.owned <= Len(ts)
      BY <1>1 DEF Owns
    <3> QED BY <1>1, <1>2, <1>3, <1>5a, <2>2, <3>1, <3>2, <3>3 DEF Owns
  <2>5. Calls(h, began, nts, clock)
    <3>1. \A i \in DOMAIN nts :
            nts[i].phase = "asleep" => nts[i].due = nts[i].begun + Period[h]
      <4>1. \A i \in DOMAIN ts : ts[i].phase = "asleep" => ts[i].due = ts[i].begun + Period[h]
        BY <1>1, <1>2 DEF Calls
      <4>2. \A i \in DOMAIN nts : i \in DOMAIN ts \/ i = Len(ts) + 1
        BY <1>3, <2>3
      <4> QED BY <1>3, <1>4, <2>2, <4>1, <4>2
    <3>2. /\ nts[began.pending].phase # "asleep" /\ began.pending # 0
      BY <1>3, <1>4, <1>5a, <2>2
    <3>3. /\ \A m \in DOMAIN s.fired : s.fired[m].call = s.fired[m].latest /\ s.fired[m].at <= clock
          /\ \A m \in DOMAIN s.fired : m > 1 => s.fired[m].at >= s.fired[m - 1].at + Period[h]
      BY <1>1, <1>2 DEF Calls
    <3>4. clock <= clock
      BY <1>1
    <3> QED BY <1>1, <1>2, <1>5a, <3>1, <3>2, <3>3, <3>4 DEF Calls
  <2>6. Counts(h, began, nts)
    BY <1>2 DEF Counts
  <2> QED BY <1>5a, <2>1, <2>2, <2>4, <2>5, <2>6, OneHelper
<1> QED BY <1>6, <1>7

\* Only the pending task is asked to stop, and a wrapper is left with no task that
\* is going to call.
LEMMA SupersededFacts ==
  ASSUME TimerInv, NEW h \in Helpers
  PROVE  /\ Superseded(h) \in Seq(TaskType) /\ Len(Superseded(h)) = Len(tasks[h])
         /\ DOMAIN Superseded(h) = DOMAIN tasks[h]
         /\ \A i \in DOMAIN tasks[h] :
              /\ Superseded(h)[i].phase = tasks[h][i].phase
              /\ Superseded(h)[i].begun = tasks[h][i].begun
              /\ Superseded(h)[i].due = tasks[h][i].due
              /\ Superseded(h)[i].tick = tasks[h][i].tick
              /\ Superseded(h)[i].cancel <=> tasks[h][i].cancel \/ i = helper[h].pending
         /\ Wrapper(h) => \A i \in DOMAIN tasks[h] : ~Due(Superseded(h)[i])
PROOF
<1>. DEFINE ts == tasks[h]
            q == Superseded(h)
            p == helper[h].pending
<1>1. ts \in Seq(TaskType) /\ Owns(h, helper[h], ts)
  BY HelperFacts
<1>2. /\ DOMAIN q = DOMAIN ts /\ DOMAIN ts = 1..Len(ts) /\ Len(ts) \in Nat
      /\ \A i \in DOMAIN ts : ts[i] \in TaskType
  BY <1>1 DEF Superseded
<1>3. \A i \in DOMAIN ts : q[i] = IF i = p THEN [ts[i] EXCEPT !.cancel = TRUE] ELSE ts[i]
  BY DEF Superseded
<1>4. ASSUME NEW i \in DOMAIN ts
      PROVE  /\ q[i] \in TaskType /\ q[i].phase = ts[i].phase /\ q[i].begun = ts[i].begun
             /\ q[i].due = ts[i].due /\ q[i].tick = ts[i].tick
             /\ q[i].cancel <=> ts[i].cancel \/ i = p
  <2>. DEFINE t == ts[i]
  <2>1. t \in TaskType
    BY <1>2
  <2>. HIDE DEF t, p
  <2>2. q[i] = IF i = p THEN [t EXCEPT !.cancel = TRUE] ELSE t
    BY <1>3 DEF t
  <2>. HIDE DEF q
  <2>3. CASE i = p
    <3>1. q[i] = [t EXCEPT !.cancel = TRUE]
      BY <2>2, <2>3
    <3>2. /\ q[i] \in TaskType /\ q[i].phase = t.phase /\ q[i].begun = t.begun
          /\ q[i].due = t.due /\ q[i].tick = t.tick /\ q[i].cancel
      BY <2>1, <3>1 DEF TaskType
    <3> QED BY <2>3, <3>2 DEF t
  <2>4. CASE i # p
    <3>1. q[i] = t
      BY <2>2, <2>4
    <3> QED BY <2>1, <2>4, <3>1 DEF t
  <2> QED BY <2>3, <2>4
<1>5. q \in Seq(TaskType) /\ Len(q) = Len(ts)
  <2>1. q = [i \in 1..Len(ts) |-> q[i]]
    BY <1>2 DEF Superseded
  <2>. HIDE DEF q, ts
  <2>2. \A i \in 1..Len(ts) : q[i] \in TaskType
    BY <1>2, <1>4
  <2>3. q \in [1..Len(ts) -> TaskType]
    BY <2>1, <2>2
  <2> QED BY <1>2, <2>3, SeqDef
<1>6. Wrapper(h) => \A i \in DOMAIN ts : ~Due(q[i])
  <2>1. Wrapper(h) => \A i \in DOMAIN ts : Due(ts[i]) => i = p
    BY <1>1 DEF Owns
  <2>. HIDE DEF q, ts, p
  <2> QED BY <1>4, <2>1 DEF Due
<1> QED BY <1>2, <1>4, <1>5, <1>6

\* A debounced callable is called.
LEMMA CallDebouncedKeeps ==
  ASSUME TimerInv, NEW h \in Helpers, CallDebounced(h)
  PROVE  TimerInv'
PROOF
<1>. DEFINE s == helper[h]
            ts == tasks[h]
            n == s.calls + 1
            t == NewTask(n)
            p == Len(ts) + 1
            q == Superseded(h)
            nts == Append(q, t)
            ns == [s EXCEPT !.calls = n, !.calledAt = clock, !.pending = p]
<1>1. /\ s \in HelperType /\ ts \in Seq(TaskType) /\ clock \in Nat
      /\ Owns(h, s, ts) /\ Calls(h, s, ts, clock)
      /\ Kind[h] = "debounce" /\ s.effect # "none"
  BY HelperFacts DEF CallDebounced
<1>2. /\ Wrapper(h) /\ Kind[h] # "interval" /\ Kind[h] # "throttle"
  BY <1>1 DEF Wrapper
<1>3. /\ n \in Nat /\ n > 0 /\ Len(ts) \in Nat /\ p \in Nat /\ s.owned \in Nat
      /\ DOMAIN ts = 1..Len(ts) /\ s.effect \in {"recorded", "stopping", "stopped"}
  BY <1>1, KeptFacts
<1>4. t \in TaskType /\ t.phase = "new" /\ ~t.cancel /\ t.call = n
  BY <1>3, NewFacts
<1>5. /\ q \in Seq(TaskType) /\ Len(q) = Len(ts) /\ DOMAIN q = 1..Len(ts)
      /\ \A i \in DOMAIN ts : q[i].phase = ts[i].phase /\ q[i].due = ts[i].due
                              /\ q[i].begun = ts[i].begun /\ ~Due(q[i])
  BY <1>2, <1>3, SupersededFacts
<1>6. /\ helper' = [helper EXCEPT ![h] = ns] /\ tasks' = [tasks EXCEPT ![h] = nts]
      /\ clock' = clock
  BY DEF CallDebounced, Called
<1>. HIDE DEF s, ts, n, t, p, q
<1>7. /\ ns \in HelperType /\ ns.effect = s.effect /\ ns.owned = s.owned /\ ns.fired = s.fired
      /\ ns.calledAt = clock /\ ns.calls = n /\ ns.pending = p
  BY <1>1, <1>3 DEF HelperType
<1>8. /\ nts \in Seq(TaskType) /\ Len(nts) = Len(q) + 1
      /\ \A i \in 1..Len(q) : nts[i] = q[i]
      /\ nts[Len(q) + 1] = t
  BY <1>4, <1>5, AppendFacts
<1>. HIDE DEF ns, nts
<1>9. /\ Len(nts) = p /\ DOMAIN nts = 1..p /\ nts[p] = t /\ p # 0 /\ p > Len(ts)
      /\ \A i \in DOMAIN nts : i = p \/ (i \in DOMAIN ts /\ nts[i] = q[i])
  BY <1>3, <1>5, <1>8 DEF p
<1>10. Owns(h, ns, nts)
  <2>1. \A i \in DOMAIN nts : Due(nts[i]) => i = p
    BY <1>5, <1>9
  <2>2. Due(nts[p])
    BY <1>4, <1>9 DEF Due
  <2>3. s.effect \in {"stopping", "stopped"} => s.owned <= Len(ts)
    BY <1>1 DEF Owns
  <2> QED BY <1>1, <1>2, <1>3, <1>7, <1>9, <2>1, <2>2, <2>3 DEF Owns
<1>11. Calls(h, ns, nts, clock)
  <2>1. \A i \in DOMAIN nts : nts[i].phase = "asleep" => nts[i].due = nts[i].begun + Period[h]
    <3>1. \A i \in DOMAIN ts : ts[i].phase = "asleep" => ts[i].due = ts[i].begun + Period[h]
      BY <1>1, <1>2 DEF Calls
    <3> QED BY <1>4, <1>5, <1>9, <3>1
  <2>2. nts[p].phase # "asleep" /\ nts[p].call = n
    BY <1>4, <1>9
  <2>3. /\ \A m \in DOMAIN s.fired : s.fired[m].call = s.fired[m].latest /\ s.fired[m].at <= clock
        /\ \A m \in DOMAIN s.fired : s.fired[m].at >= s.fired[m].since + Period[h]
    BY <1>1, <1>2 DEF Calls
  <2>4. clock <= clock
    BY <1>1
  <2> QED BY <1>1, <1>2, <1>7, <1>9, <2>1, <2>2, <2>3, <2>4 DEF Calls
<1>12. Counts(h, ns, nts)
  BY <1>2 DEF Counts
<1> QED BY <1>6, <1>7, <1>8, <1>10, <1>11, <1>12, OneHelper

\* A helper that has a task was set up, and one that is no wrapper has one task.
LEMMA HasTask ==
  ASSUME TimerInv, NEW h \in Helpers, NEW i \in DOMAIN tasks[h]
  PROVE  /\ i \in Nat /\ i > 0 /\ i <= Len(tasks[h]) /\ Len(tasks[h]) \in Nat
         /\ DOMAIN tasks[h] = 1..Len(tasks[h])
         /\ tasks[h][i] \in TaskType /\ helper[h].effect # "none" /\ tasks[h] # <<>>
         /\ ~Wrapper(h) => i = 1 /\ Len(tasks[h]) = 1
PROOF
<1>1. tasks[h] \in Seq(TaskType) /\ Owns(h, helper[h], tasks[h])
  BY HelperFacts
<1>2. /\ i \in Nat /\ i > 0 /\ i <= Len(tasks[h]) /\ Len(tasks[h]) \in Nat
      /\ DOMAIN tasks[h] = 1..Len(tasks[h])
      /\ tasks[h][i] \in TaskType /\ tasks[h] # <<>>
  BY <1>1
<1>3. helper[h].effect # "none"
  BY <1>1, <1>2 DEF Owns
<1>4. ~Wrapper(h) => Len(tasks[h]) = 1
  BY <1>1, <1>3 DEF Owns
<1> QED BY <1>2, <1>3, <1>4

\* A task begins.
LEMMA BeginKeeps ==
  ASSUME TimerInv, NEW h \in Helpers, NEW i \in DOMAIN tasks[h], Begin(h, i)
  PROVE  TimerInv'
PROOF
<1>. DEFINE s == helper[h]
            ts == tasks[h]
            t == ts[i]
            now == clock
            wait == clock + Period[h]
            next == IF Kind[h] = "spawn" THEN "running" ELSE "asleep"
            nt == [t EXCEPT !.phase = next, !.begun = now, !.due = wait]
            nts == [ts EXCEPT ![i] = nt]
<1>1. /\ s \in HelperType /\ ts \in Seq(TaskType) /\ now \in Nat /\ wait \in Nat
      /\ Period[h] \in Nat
      /\ Owns(h, s, ts) /\ Calls(h, s, ts, now) /\ Counts(h, s, ts)
      /\ t.phase = "new" /\ ~t.cancel
  BY HelperFacts DEF Begin, Asked
<1>2. /\ i \in Nat /\ i > 0 /\ i <= Len(ts) /\ t \in TaskType /\ DOMAIN ts = 1..Len(ts)
      /\ s.effect # "none" /\ ts # <<>> /\ Len(ts) \in Nat
      /\ ~Wrapper(h) => i = 1 /\ Len(ts) = 1
  BY HasTask
<1>3. /\ helper' = [helper EXCEPT ![h] = s] /\ tasks' = [tasks EXCEPT ![h] = nts]
      /\ clock' = clock
  BY DEF Begin, TimerInv, TimerTypes
<1>4. wait = now + Period[h] /\ next \in {"running", "asleep"}
      /\ (Kind[h] # "spawn" => next = "asleep")
  OBVIOUS
<1>5. i \in DOMAIN ts
  OBVIOUS
<1>. HIDE DEF s, ts, t, now, wait, next
<1>6. /\ nt \in TaskType /\ nt.phase = next /\ nt.begun = now /\ nt.due = wait
      /\ nt.cancel = t.cancel /\ nt.call = t.call /\ nt.tick = t.tick
  BY <1>1, <1>2, <1>4 DEF TaskType
<1>. HIDE DEF nt
<1>7. /\ nts \in Seq(TaskType) /\ Len(nts) = Len(ts) /\ DOMAIN nts = DOMAIN ts /\ nts[i] = nt
      /\ \A j \in DOMAIN ts \ {i} : nts[j] = ts[j]
  BY <1>1, <1>5, <1>6, ReplaceFacts
<1>. HIDE DEF nts
<1>8. Owns(h, s, nts)
  <2>1. Due(t)
    BY <1>1 DEF Due
  <2>2. Wrapper(h) => Due(nt)
    BY <1>1, <1>4, <1>6 DEF Due, Wrapper
  <2>3. Wrapper(h) => i = s.pending
    BY <1>1, <1>5, <2>1 DEF Owns, t
  <2>4. Wrapper(h) => \A j \in DOMAIN nts : Due(nts[j]) => j = s.pending
    BY <1>1, <1>7, <2>3 DEF Owns
  <2>5. s.effect = "stopped" => Wrapper(h)
    BY <1>1, <1>2 DEF Owns, t
  <2> QED BY <1>1, <1>2, <1>7, <2>2, <2>3, <2>4, <2>5 DEF Owns
<1>9. Calls(h, s, nts, now)
  <2>. SUFFICES ASSUME Wrapper(h)
                PROVE  Calls(h, s, nts, now)
    BY DEF Calls
  <2>1. Due(t) /\ i = s.pending
    BY <1>1, <1>5 DEF Owns, Due, t
  <2>2. \A j \in DOMAIN nts : nts[j].phase = "asleep" => nts[j].due = nts[j].begun + Period[h]
    BY <1>1, <1>4, <1>6, <1>7 DEF Calls
  <2>3. nts[s.pending].call = ts[s.pending].call /\ nts[s.pending].begun = now
    BY <1>6, <1>7, <2>1 DEF t
  <2>4. /\ s.calledAt <= now
        /\ \A n \in DOMAIN s.fired : s.fired[n].call = s.fired[n].latest /\ s.fired[n].at <= now
    BY <1>1 DEF Calls
  <2>5. s.calledAt \in Nat /\ \A n \in DOMAIN s.fired : s.fired[n].at \in Nat
    BY <1>1, KeptFacts
  <2>6. now >= s.calledAt /\ \A n \in DOMAIN s.fired : now >= s.fired[n].at
    BY <1>1, <2>4, <2>5
  <2> QED BY <1>1, <2>2, <2>3, <2>4, <2>6, Zenon DEF Calls
<1>10. Counts(h, s, nts)
  <2>. SUFFICES ASSUME Kind[h] = "interval"
                PROVE  Counts(h, s, nts)
    BY DEF Counts
  <2>1. ~Wrapper(h) /\ i = 1 /\ next = "asleep"
    BY <1>2, <1>4 DEF Wrapper
  <2>2. /\ t.tick = 1 /\ s.fired = <<>> /\ s.completed = 0 /\ s.skipped = 0
        /\ IsFiniteSet(Ran(s))
    BY <1>1, <1>2, <2>1 DEF Counts, t
  <2>3. DOMAIN s.fired = {} /\ Ran(s) = {} /\ Cardinality({}) = 0
    BY <2>2, FS_EmptySet DEF Ran
  <2>4. /\ nts[1].phase = "asleep" /\ nts[1].tick = 1
    BY <1>6, <1>7, <2>1, <2>2
  <2> QED BY <2>2, <2>3, <2>4 DEF Counts
<1> QED BY <1>1, <1>3, <1>7, <1>8, <1>9, <1>10, OneHelper DEF now

\* A task that was asked to stop ends.
LEMMA CancelledKeeps ==
  ASSUME TimerInv, NEW h \in Helpers, NEW i \in DOMAIN tasks[h],
         Cancelled(h, i)
  PROVE  TimerInv'
PROOF
<1>. DEFINE s == helper[h]
            ts == tasks[h]
            t == ts[i]
            now == clock
            nt == [t EXCEPT !.phase = "over"]
            nts == [ts EXCEPT ![i] = nt]
<1>1. /\ s \in HelperType /\ ts \in Seq(TaskType) /\ now \in Nat
      /\ Owns(h, s, ts) /\ Calls(h, s, ts, now) /\ Counts(h, s, ts)
      /\ t.cancel
  BY HelperFacts DEF Cancelled, Asked
<1>2. /\ i \in Nat /\ i > 0 /\ i <= Len(ts) /\ t \in TaskType /\ DOMAIN ts = 1..Len(ts)
      /\ s.effect # "none" /\ ts # <<>> /\ Len(ts) \in Nat
      /\ ~Wrapper(h) => i = 1 /\ Len(ts) = 1
  BY HasTask
<1>3. /\ helper' = [helper EXCEPT ![h] = s] /\ tasks' = [tasks EXCEPT ![h] = nts]
      /\ clock' = clock
  BY DEF Cancelled, TimerInv, TimerTypes
<1>5. i \in DOMAIN ts
  OBVIOUS
<1>. HIDE DEF s, ts, t, now
<1>6. /\ nt \in TaskType /\ nt.phase = "over" /\ nt.cancel = t.cancel
  BY <1>2 DEF TaskType
<1>. HIDE DEF nt
<1>7. /\ nts \in Seq(TaskType) /\ Len(nts) = Len(ts) /\ DOMAIN nts = DOMAIN ts /\ nts[i] = nt
      /\ \A j \in DOMAIN ts \ {i} : nts[j] = ts[j]
  BY <1>1, <1>5, <1>6, ReplaceFacts
<1>. HIDE DEF nts
<1>8. /\ ~Due(t) /\ ~Due(nt)
      /\ Wrapper(h) => s.pending # i
  BY <1>1, <1>2, <1>6 DEF Due, Owns, t
<1>9. s.pending \in Nat /\ (s.pending # 0 => s.pending \in DOMAIN ts)
  <2>1. s.pending \in Nat /\ s.pending <= Len(ts)
    BY <1>1, KeptFacts DEF Owns
  <2> QED BY <1>2, <2>1
<1>10. Owns(h, s, nts)
  <2>1. Wrapper(h) => \A j \in DOMAIN nts : Due(nts[j]) => j = s.pending
    BY <1>1, <1>7, <1>8 DEF Owns
  <2>2. Wrapper(h) /\ s.pending # 0 => Due(nts[s.pending])
    BY <1>1, <1>7, <1>8, <1>9 DEF Owns
  <2>3. ~Wrapper(h) => nts[1].phase = "over"
    BY <1>2, <1>6, <1>7
  <2> QED BY <1>1, <1>2, <1>7, <2>1, <2>2, <2>3 DEF Owns
<1>11. Calls(h, s, nts, now)
  <2>1. \A j \in DOMAIN nts : nts[j].phase = "asleep" => j # i /\ nts[j] = ts[j]
    BY <1>6, <1>7
  <2>2. Wrapper(h) /\ s.pending # 0 => nts[s.pending] = ts[s.pending]
    BY <1>7, <1>8, <1>9
  <2> QED BY <1>1, <1>7, <2>1, <2>2 DEF Calls
<1>12. Counts(h, s, nts)
  <2>. SUFFICES ASSUME Kind[h] = "interval"
                PROVE  Counts(h, s, nts)
    BY DEF Counts
  <2>1. nts[1].phase = "over" /\ IsFiniteSet(Ran(s))
    BY <1>1, <1>2, <1>6, <1>7 DEF Wrapper, Counts
  <2> QED BY <2>1 DEF Counts
<1> QED BY <1>1, <1>3, <1>7, <1>10, <1>11, <1>12, OneHelper DEF now

\* A helper is told to stop.
LEMMA StopTimerKeeps ==
  ASSUME TimerInv, NEW h \in Helpers, Stop(h)
  PROVE  TimerInv'
PROOF
<1>. DEFINE s == helper[h]
            ts == tasks[h]
            m == Len(ts)
            now == clock
            q == Superseded(h)
            ns == [s EXCEPT !.effect = "stopping", !.awaited = s.pending, !.owned = m,
                            !.pending = 0, !.call = 0]
<1>1. /\ s \in HelperType /\ ts \in Seq(TaskType) /\ now \in Nat /\ m \in Nat
      /\ Owns(h, s, ts) /\ Calls(h, s, ts, now) /\ Counts(h, s, ts)
      /\ s.effect = "recorded"
  BY HelperFacts DEF Stop
<1>2. /\ q \in Seq(TaskType) /\ Len(q) = m /\ DOMAIN q = DOMAIN ts /\ DOMAIN ts = 1..m
      /\ \A i \in DOMAIN ts : /\ q[i].phase = ts[i].phase /\ q[i].due = ts[i].due
                              /\ q[i].begun = ts[i].begun /\ q[i].tick = ts[i].tick
      /\ Wrapper(h) => \A i \in DOMAIN ts : ~Due(q[i])
  BY <1>1, SupersededFacts
<1>3. /\ helper' = [helper EXCEPT ![h] = ns] /\ tasks' = [tasks EXCEPT ![h] = q]
      /\ clock' = clock
  BY DEF Stop
<1>4. m = Len(ts)
  OBVIOUS
<1>. HIDE DEF s, ts, m, now, q
<1>5. /\ ns \in HelperType /\ ns.effect = "stopping" /\ ns.awaited = s.pending
      /\ ns.owned = m /\ ns.pending = 0 /\ ns.fired = s.fired /\ ns.calledAt = s.calledAt
      /\ ns.completed = s.completed /\ ns.skipped = s.skipped
  BY <1>1 DEF HelperType
<1>. HIDE DEF ns
<1>6. Owns(h, ns, q)
  BY <1>1, <1>2, <1>4, <1>5 DEF Owns
<1>7. Calls(h, ns, q, now)
  <2>. SUFFICES ASSUME Wrapper(h)
                PROVE  Calls(h, ns, q, now)
    BY DEF Calls
  <2>1. \A i \in DOMAIN q : q[i].phase = "asleep" => q[i].due = q[i].begun + Period[h]
    BY <1>1, <1>2 DEF Calls
  <2> QED BY <1>1, <1>5, <2>1 DEF Calls
<1>8. Counts(h, ns, q)
  <2>. SUFFICES ASSUME Kind[h] = "interval", ts # <<>>
                PROVE  Counts(h, ns, q)
    BY <1>1, <1>2, <1>4 DEF Counts
  <2>1. /\ q[1].phase = ts[1].phase /\ q[1].begun = ts[1].begun /\ q[1].tick = ts[1].tick
    BY <1>1, <1>2, <1>4
  <2>2. Ran(ns) = Ran(s)
    BY <1>5 DEF Ran
  <2> QED BY <1>1, <1>5, <2>1, <2>2 DEF Counts
<1> QED BY <1>2, <1>3, <1>5, <1>6, <1>7, <1>8, OneHelper DEF now

\* The disposer returns.
LEMMA StoppedKeeps ==
  ASSUME TimerInv, NEW h \in Helpers, Stopped(h)
  PROVE  TimerInv'
PROOF
<1>. DEFINE s == helper[h]
            ts == tasks[h]
            now == clock
            ns == [s EXCEPT !.effect = "stopped"]
<1>1. /\ s \in HelperType /\ ts \in Seq(TaskType) /\ now \in Nat
      /\ Owns(h, s, ts) /\ Calls(h, s, ts, now) /\ Counts(h, s, ts)
      /\ s.effect = "stopping" /\ (s.awaited # 0 => ts[s.awaited].phase = "over")
  BY HelperFacts DEF Stopped, Gathered
<1>2. /\ helper' = [helper EXCEPT ![h] = ns] /\ tasks' = [tasks EXCEPT ![h] = ts]
      /\ clock' = clock
  BY DEF Stopped, TimerInv, TimerTypes
<1>. HIDE DEF s, ts, now
<1>3. /\ ns \in HelperType /\ ns.effect = "stopped" /\ ns.awaited = s.awaited
      /\ ns.owned = s.owned /\ ns.pending = s.pending /\ ns.fired = s.fired
      /\ ns.calls = s.calls /\ ns.call = s.call /\ ns.calledAt = s.calledAt
      /\ ns.completed = s.completed /\ ns.skipped = s.skipped
  BY <1>1 DEF HelperType
<1>. HIDE DEF ns
<1>4. Owns(h, ns, ts)
  BY <1>1, <1>3 DEF Owns
<1>5. Calls(h, ns, ts, now)
  BY <1>1, <1>3 DEF Calls
<1>6. Counts(h, ns, ts)
  <2>1. Ran(ns) = Ran(s)
    BY <1>3 DEF Ran
  <2> QED BY <1>1, <1>3, <2>1 DEF Counts
<1> QED BY <1>1, <1>2, <1>3, <1>4, <1>5, <1>6, OneHelper DEF now

\* The end of a shot is noted in it, and nothing else is.
LEMMA EndShotFacts ==
  ASSUME TimerInv, NEW h \in Helpers
  PROVE  /\ EndShot(h) \in Seq(ShotType) /\ Len(EndShot(h)) = Len(helper[h].fired)
         /\ DOMAIN EndShot(h) = DOMAIN helper[h].fired
         /\ \A n \in DOMAIN helper[h].fired :
              /\ EndShot(h)[n].at = helper[h].fired[n].at
              /\ EndShot(h)[n].call = helper[h].fired[n].call
              /\ EndShot(h)[n].tick = helper[h].fired[n].tick
              /\ EndShot(h)[n].latest = helper[h].fired[n].latest
              /\ EndShot(h)[n].since = helper[h].fired[n].since
              /\ EndShot(h)[n].ended =
                   IF n = Len(helper[h].fired) THEN clock ELSE helper[h].fired[n].ended
PROOF
<1>. DEFINE f == helper[h].fired
            m == Len(f)
            now == clock
            e == [f EXCEPT ![m].ended = now]
<1>1. /\ f \in Seq(ShotType) /\ m \in Nat /\ DOMAIN f = 1..m /\ now \in Nat
      /\ EndShot(h) = e
  BY HelperFacts, KeptFacts DEF EndShot
<1>. HIDE DEF f, now
<1>2. m = Len(f) /\ \A n \in DOMAIN f : f[n] \in ShotType
  BY <1>1
<1>3. CASE m = 0
  <2>1. f = <<>> /\ DOMAIN f = {}
    BY <1>1, <1>3, EmptySeq
  <2>2. DOMAIN e = {} /\ e = [n \in DOMAIN f |-> e[n]]
    BY <2>1
  <2>3. f = [n \in DOMAIN f |-> f[n]]
    BY <1>1
  <2>4. e = f
    BY <2>1, <2>2, <2>3
  <2> QED BY <1>1, <1>3, <2>1, <2>4 DEF f
<1>4. CASE m # 0
  <2>. DEFINE last == f[m]
              end == [last EXCEPT !.ended = now]
  <2>1. m \in DOMAIN f /\ last \in ShotType
    BY <1>1, <1>2, <1>4
  <2>2. e = [f EXCEPT ![m] = end]
    OBVIOUS
  <2>. HIDE DEF e, m
  <2>3. last = f[m]
    OBVIOUS
  <2>. HIDE DEF last
  <2>4. /\ end \in ShotType /\ end.at = last.at /\ end.call = last.call /\ end.tick = last.tick
        /\ end.latest = last.latest /\ end.since = last.since /\ end.ended = now
    BY <1>1, <2>1 DEF ShotType
  <2>. HIDE DEF end
  <2>5. /\ e \in Seq(ShotType) /\ Len(e) = Len(f) /\ DOMAIN e = DOMAIN f /\ e[m] = end
        /\ \A n \in DOMAIN f \ {m} : e[n] = f[n]
    BY <1>1, <2>1, <2>2, <2>4, ReplaceFacts
  <2>6. ASSUME NEW n \in DOMAIN f
        PROVE  /\ e[n].at = f[n].at /\ e[n].call = f[n].call /\ e[n].tick = f[n].tick
               /\ e[n].latest = f[n].latest /\ e[n].since = f[n].since
               /\ e[n].ended = IF n = m THEN now ELSE f[n].ended
    BY <2>3, <2>4, <2>5
  <2> QED BY <1>1, <1>2, <2>5, <2>6 DEF f, now
<1> QED BY <1>3, <1>4

\* The callable returns or raises.
LEMMA ReturnKeeps ==
  ASSUME TimerInv, NEW h \in Helpers, NEW i \in DOMAIN tasks[h], Return(h, i)
  PROVE  TimerInv'
PROOF
<1>. DEFINE s == helper[h]
            ts == tasks[h]
            t == ts[i]
            now == clock
            e == EndShot(h)
            f == IF Kind[h] = "spawn" THEN s.fired ELSE e
            ns == [s EXCEPT !.fired = f]
            nt == [t EXCEPT !.phase = "over"]
            nts == [ts EXCEPT ![i] = nt]
<1>1. /\ s \in HelperType /\ ts \in Seq(TaskType) /\ now \in Nat
      /\ Owns(h, s, ts) /\ Calls(h, s, ts, now) /\ Counts(h, s, ts)
      /\ t.phase = "running"
  BY HelperFacts DEF Return
<1>2. /\ i \in Nat /\ i > 0 /\ i <= Len(ts) /\ t \in TaskType /\ DOMAIN ts = 1..Len(ts)
      /\ s.effect # "none" /\ ts # <<>> /\ Len(ts) \in Nat
      /\ ~Wrapper(h) => i = 1 /\ Len(ts) = 1
  BY HasTask
<1>3. tasks' = [tasks EXCEPT ![h] = nts] /\ clock' = clock
  BY DEF Return
<1>4. helper' = [helper EXCEPT ![h] = ns]
  <2>1. CASE Kind[h] = "spawn"
    <3>1. helper' = helper /\ ns = s
      BY <1>1, <2>1 DEF Return, HelperType
    <3> QED BY <3>1 DEF TimerInv, TimerTypes
  <2>2. CASE Kind[h] # "spawn"
    BY <2>2 DEF Return
  <2> QED BY <2>1, <2>2
<1>5. i \in DOMAIN ts
  OBVIOUS
<1>6. /\ f \in Seq(ShotType) /\ Len(f) = Len(s.fired) /\ DOMAIN f = DOMAIN s.fired
      /\ \A n \in DOMAIN s.fired :
           /\ f[n].at = s.fired[n].at /\ f[n].call = s.fired[n].call
           /\ f[n].tick = s.fired[n].tick /\ f[n].latest = s.fired[n].latest
           /\ f[n].since = s.fired[n].since
  <2>1. CASE Kind[h] = "spawn"
    BY <1>1, <2>1, KeptFacts
  <2>2. CASE Kind[h] # "spawn"
    BY <2>2, EndShotFacts
  <2> QED BY <2>1, <2>2
<1>. HIDE DEF s, ts, t, now, e, f
<1>7. /\ ns \in HelperType /\ ns.effect = s.effect /\ ns.awaited = s.awaited
      /\ ns.owned = s.owned /\ ns.pending = s.pending /\ ns.fired = f
      /\ ns.calls = s.calls /\ ns.call = s.call /\ ns.calledAt = s.calledAt
  BY <1>1, <1>6 DEF HelperType
<1>8. /\ nt \in TaskType /\ nt.phase = "over" /\ nt.cancel = t.cancel
  BY <1>2 DEF TaskType
<1>. HIDE DEF ns, nt
<1>9. /\ nts \in Seq(TaskType) /\ Len(nts) = Len(ts) /\ DOMAIN nts = DOMAIN ts /\ nts[i] = nt
      /\ \A j \in DOMAIN ts \ {i} : nts[j] = ts[j]
  BY <1>1, <1>5, <1>8, ReplaceFacts
<1>. HIDE DEF nts
<1>10. /\ ~Due(t) /\ ~Due(nt)
       /\ Wrapper(h) => s.pending # i
  BY <1>1, <1>2, <1>8 DEF Due, Owns, t
<1>11. s.pending \in Nat /\ (s.pending # 0 => s.pending \in DOMAIN ts)
  <2>1. s.pending \in Nat /\ s.pending <= Len(ts)
    BY <1>1, KeptFacts DEF Owns
  <2> QED BY <1>2, <2>1
<1>12. Owns(h, ns, nts)
  <2>1. Wrapper(h) => \A j \in DOMAIN nts : Due(nts[j]) => j = s.pending
    BY <1>1, <1>9, <1>10 DEF Owns
  <2>2. Wrapper(h) /\ s.pending # 0 => Due(nts[s.pending])
    BY <1>1, <1>9, <1>10, <1>11 DEF Owns
  <2>3. ~Wrapper(h) => nts[1].phase = "over"
    BY <1>2, <1>8, <1>9
  <2> QED BY <1>1, <1>2, <1>7, <1>9, <2>1, <2>2, <2>3 DEF Owns
<1>13. Calls(h, ns, nts, now)
  <2>. SUFFICES ASSUME Wrapper(h)
                PROVE  Calls(h, ns, nts, now)
    BY DEF Calls
  <2>1. \A j \in DOMAIN nts : nts[j].phase = "asleep" => nts[j].due = nts[j].begun + Period[h]
    <3>1. \A j \in DOMAIN nts : nts[j].phase = "asleep" => j # i /\ nts[j] = ts[j]
      BY <1>8, <1>9
    <3> QED BY <1>1, <1>9, <3>1 DEF Calls
  <2>2. s.pending # 0 => nts[s.pending] = ts[s.pending]
    BY <1>9, <1>10, <1>11
  <2>3. /\ DOMAIN s.fired = 1..Len(s.fired) /\ Len(s.fired) \in Nat
        /\ s.fired \in Seq(ShotType)
    BY <1>1, KeptFacts
  <2>4. /\ \A n \in DOMAIN f : n > 1 => n - 1 \in DOMAIN f
        /\ s.fired # <<>> => Len(f) \in DOMAIN f /\ f # <<>>
    BY <1>6, <2>3, EmptySeq
  <2>5. /\ \A n \in DOMAIN f : f[n].call = f[n].latest /\ f[n].at <= now
        /\ s.pending = 0 /\ s.effect = "recorded" /\ s.calls > 0 =>
             f # <<>> /\ f[Len(f)].call = s.calls
    BY <1>1, <1>6, <2>4 DEF Calls
  <2>6. Kind[h] = "throttle" =>
          /\ \A n \in DOMAIN f : n > 1 => f[n].at >= f[n - 1].at + Period[h]
          /\ s.pending # 0 /\ nts[s.pending].phase = "asleep" =>
               \A n \in DOMAIN f : nts[s.pending].begun >= f[n].at
    BY <1>1, <1>6, <2>2, <2>4 DEF Calls
  <2>7. Kind[h] = "debounce" => \A n \in DOMAIN f : f[n].at >= f[n].since + Period[h]
    BY <1>1, <1>6 DEF Calls
  <2> QED BY <1>1, <1>7, <2>1, <2>2, <2>5, <2>6, <2>7 DEF Calls
<1>14. Counts(h, ns, nts)
  <2>. SUFFICES ASSUME Kind[h] = "interval"
                PROVE  Counts(h, ns, nts)
    BY DEF Counts
  <2>1. nts[1].phase = "over" /\ IsFiniteSet(Ran(s))
    BY <1>1, <1>2, <1>8, <1>9 DEF Wrapper, Counts
  <2>2. Ran(ns) = Ran(s)
    BY <1>6, <1>7 DEF Ran
  <2> QED BY <2>1, <2>2 DEF Counts
<1> QED BY <1>3, <1>4, <1>7, <1>9, <1>12, <1>13, <1>14, OneHelper DEF now

\* A sleep is over and the callable is invoked.
LEMMA WakeKeeps ==
  ASSUME TimerInv, NEW h \in Helpers, NEW i \in DOMAIN tasks[h], Wake(h, i)
  PROVE  TimerInv'
PROOF
<1>. DEFINE s == helper[h]
            ts == tasks[h]
            t == ts[i]
            now == clock
            n == IF Kind[h] = "throttle" THEN s.call ELSE t.call
            shot == [at |-> clock, call |-> n, tick |-> t.tick, ended |-> clock,
                     latest |-> s.calls, since |-> s.calledAt]
            m == Len(s.fired)
            f == Append(s.fired, shot)
            p == IF Wrapper(h) THEN 0 ELSE s.pending
            c == IF Wrapper(h) THEN 0 ELSE s.call
            ns == [s EXCEPT !.pending = p, !.call = c, !.fired = f]
            nt == [t EXCEPT !.phase = "running"]
            nts == [ts EXCEPT ![i] = nt]
<1>1. /\ s \in HelperType /\ ts \in Seq(TaskType) /\ now \in Nat /\ Period[h] \in Nat
      /\ Owns(h, s, ts) /\ Calls(h, s, ts, now) /\ Counts(h, s, ts)
      /\ t.phase = "asleep" /\ ~t.cancel /\ now >= t.due
  BY HelperFacts DEF Wake, Asked
<1>2. /\ i \in Nat /\ i > 0 /\ i <= Len(ts) /\ t \in TaskType /\ DOMAIN ts = 1..Len(ts)
      /\ s.effect # "none" /\ ts # <<>> /\ Len(ts) \in Nat
      /\ ~Wrapper(h) => i = 1 /\ Len(ts) = 1
  BY HasTask
<1>3. tasks' = [tasks EXCEPT ![h] = nts] /\ clock' = clock
  BY DEF Wake
<1>4. helper' = [helper EXCEPT ![h] = ns]
  <2>1. CASE Wrapper(h)
    <3>1. helper' = [Forgotten(h) EXCEPT ![h].fired = Append(@, shot)]
      BY <2>1 DEF Wake
    <3> QED BY <2>1, <3>1 DEF Forgotten
  <2>2. CASE ~Wrapper(h)
    <3>1. helper' = [helper EXCEPT ![h].fired = Append(@, shot)]
      BY <2>2 DEF Wake
    <3>2. ns = [s EXCEPT !.fired = f]
      BY <1>1, <2>2 DEF HelperType
    <3> QED BY <3>1, <3>2
  <2> QED BY <2>1, <2>2
<1>5. /\ i \in DOMAIN ts /\ n \in Nat /\ p \in Nat /\ c \in Nat /\ s.fired \in Seq(ShotType)
      /\ m \in Nat /\ DOMAIN s.fired = 1..m
      /\ t.tick \in Nat /\ t.begun \in Nat /\ t.due \in Nat
      /\ s.calls \in Nat /\ s.calledAt \in Nat /\ s.completed \in Nat /\ s.pending \in Nat
      /\ \A k \in DOMAIN s.fired : s.fired[k].at \in Nat /\ s.fired[k].tick \in Nat
  BY <1>1, <1>2, KeptFacts, TaskFacts
<1>6. /\ shot \in ShotType /\ shot.at = now /\ shot.call = n /\ shot.tick = t.tick
      /\ shot.latest = s.calls /\ shot.since = s.calledAt
  BY <1>1, <1>5 DEF ShotType
<1>7. /\ Wrapper(h) => p = 0
      /\ ~Wrapper(h) => p = s.pending
  OBVIOUS
<1>8. /\ Kind[h] = "throttle" => n = s.call
      /\ Kind[h] # "throttle" => n = t.call
  OBVIOUS
<1>9. m = Len(s.fired)
  OBVIOUS
<1>. HIDE DEF s, ts, t, now, n, shot, m, p, c
<1>10. /\ f \in Seq(ShotType) /\ Len(f) = m + 1 /\ f[m + 1] = shot
       /\ \A k \in 1..m : f[k] = s.fired[k]
  BY <1>5, <1>6, <1>9, AppendFacts
<1>. HIDE DEF f
<1>11. DOMAIN f = 1..m + 1 /\ f # <<>>
  <2>1. m \in Nat
    BY <1>5
  <2>2. Len(f) # 0 /\ DOMAIN f = 1..Len(f)
    BY <1>10, <2>1
  <2> QED BY <1>10, <2>2
<1>12. /\ ns \in HelperType /\ ns.effect = s.effect /\ ns.awaited = s.awaited
       /\ ns.owned = s.owned /\ ns.pending = p /\ ns.fired = f
       /\ ns.calls = s.calls /\ ns.calledAt = s.calledAt
       /\ ns.completed = s.completed /\ ns.skipped = s.skipped
  BY <1>1, <1>5, <1>10 DEF HelperType
<1>13. /\ nt \in TaskType /\ nt.phase = "running" /\ nt.tick = t.tick /\ nt.begun = t.begun
  BY <1>2 DEF TaskType
<1>. HIDE DEF ns, nt
<1>14. /\ nts \in Seq(TaskType) /\ Len(nts) = Len(ts) /\ DOMAIN nts = DOMAIN ts /\ nts[i] = nt
       /\ \A j \in DOMAIN ts \ {i} : nts[j] = ts[j]
  BY <1>1, <1>5, <1>13, ReplaceFacts
<1>. HIDE DEF nts
<1>15. Due(t) /\ ~Due(nt) /\ (Wrapper(h) => i = s.pending)
  BY <1>1, <1>2, <1>5, <1>13 DEF Due, Owns, t
<1>16. Owns(h, ns, nts)
  <2>1. Wrapper(h) => \A j \in DOMAIN nts : ~Due(nts[j])
    BY <1>1, <1>14, <1>15 DEF Owns
  <2>2. s.effect = "stopped" => Wrapper(h)
    BY <1>1, <1>2 DEF Owns, t
  <2> QED BY <1>1, <1>2, <1>7, <1>12, <1>14, <2>1, <2>2 DEF Owns
<1>17. Calls(h, ns, nts, now)
  <2>. SUFFICES ASSUME Wrapper(h)
                PROVE  Calls(h, ns, nts, now)
    BY DEF Calls
  <2>1. i = s.pending /\ s.pending # 0 /\ ns.pending = 0
    BY <1>2, <1>7, <1>12, <1>15
  <2>2. \A j \in DOMAIN nts : nts[j].phase = "asleep" => nts[j].due = nts[j].begun + Period[h]
    <3>1. \A j \in DOMAIN nts : nts[j].phase = "asleep" => j # i /\ nts[j] = ts[j]
      BY <1>13, <1>14
    <3> QED BY <1>1, <1>14, <3>1 DEF Calls
  <2>3. n = s.calls
    <3>1. s.calls = IF Kind[h] = "throttle" THEN s.call ELSE ts[s.pending].call
      BY <1>1, <2>1 DEF Calls
    <3> QED BY <1>8, <2>1, <3>1 DEF t
  <2>4. t.due = t.begun + Period[h]
    BY <1>1, <1>5 DEF Calls, t
  <2>5. \A k \in DOMAIN f : f[k].call = f[k].latest /\ f[k].at <= now
    <3>1. \A k \in DOMAIN s.fired : s.fired[k].call = s.fired[k].latest /\ s.fired[k].at <= now
      BY <1>1 DEF Calls
    <3>2. shot.call = shot.latest /\ shot.at <= now
      BY <1>1, <1>6, <2>3
    <3>3. \A k \in DOMAIN f : k \in DOMAIN s.fired \/ k = m + 1
      BY <1>5, <1>11
    <3> QED BY <1>5, <1>10, <3>1, <3>2, <3>3
  <2>6. f[Len(f)].call = s.calls
    BY <1>6, <1>10, <2>3
  <2>7. CASE Kind[h] = "throttle"
    <3>1. \A k \in DOMAIN s.fired : t.begun >= s.fired[k].at
      BY <1>1, <2>1, <2>7 DEF Calls, t
    <3>2. \A k \in DOMAIN s.fired : k > 1 => s.fired[k].at >= s.fired[k - 1].at + Period[h]
      BY <1>1, <2>7 DEF Calls
    <3>3. ASSUME NEW k \in DOMAIN f, k > 1
          PROVE  f[k].at >= f[k - 1].at + Period[h]
      <4>1. CASE k = m + 1
        <5>1. k - 1 \in DOMAIN s.fired /\ f[k - 1] = s.fired[k - 1] /\ f[k] = shot
          BY <1>5, <1>10, <3>3, <4>1
        <5>2. t.begun >= s.fired[k - 1].at /\ s.fired[k - 1].at \in Nat
          BY <1>5, <3>1, <5>1
        <5>3. now >= s.fired[k - 1].at + Period[h]
          <6>. DEFINE at == s.fired[k - 1].at
          <6>1. at \in Nat /\ t.begun >= at
            BY <5>2
          <6>. HIDE DEF at
          <6>2. t.begun \in Nat /\ t.due \in Nat /\ now >= t.due /\ now \in Nat
            BY <1>1, <1>5
          <6>3. Period[h] \in Nat
            BY <1>1
          <6>4. now >= at + Period[h]
            BY <2>4, <6>1, <6>2, <6>3
          <6> QED BY <6>4 DEF at
        <5> QED BY <1>6, <5>1, <5>3
      <4>2. CASE k # m + 1
        <5>1. /\ k \in DOMAIN s.fired /\ k - 1 \in DOMAIN s.fired
              /\ f[k - 1] = s.fired[k - 1] /\ f[k] = s.fired[k]
          BY <1>5, <1>10, <1>11, <3>3, <4>2
        <5> QED BY <3>2, <3>3, <5>1
      <4> QED BY <4>1, <4>2
    <3>4. Kind[h] # "debounce"
      BY <2>7
    <3> QED BY <1>1, <1>11, <1>12, <2>1, <2>2, <2>5, <2>6, <3>3, <3>4 DEF Calls
  <2>8. CASE Kind[h] = "debounce"
    <3>1. t.begun >= s.calledAt
      BY <1>1, <2>1, <2>8 DEF Calls, t
    <3>2. \A k \in DOMAIN s.fired : s.fired[k].at >= s.fired[k].since + Period[h]
      BY <1>1, <2>8 DEF Calls
    <3>3. shot.at >= shot.since + Period[h]
      BY <1>1, <1>5, <1>6, <2>4, <3>1
    <3>4. \A k \in DOMAIN f : f[k].at >= f[k].since + Period[h]
      <4>1. \A k \in DOMAIN f : k \in DOMAIN s.fired \/ k = m + 1
        BY <1>5, <1>11
      <4> QED BY <1>5, <1>10, <3>2, <3>3, <4>1
    <3>5. Kind[h] # "throttle"
      BY <2>8
    <3> QED BY <1>1, <1>11, <1>12, <2>1, <2>2, <2>5, <2>6, <3>4, <3>5 DEF Calls
  <2> QED BY <2>7, <2>8 DEF Wrapper
<1>18. Counts(h, ns, nts)
  <2>. SUFFICES ASSUME Kind[h] = "interval"
                PROVE  Counts(h, ns, nts)
    BY DEF Counts
  <2>1. ~Wrapper(h) /\ i = 1 /\ ts[1] = t /\ nts[1] = nt
    BY <1>2, <1>14 DEF Wrapper, t
  <2>2. /\ IsFiniteSet(Ran(s))
        /\ s.completed + s.skipped = t.tick - 1
        /\ \A k \in (1..t.tick - 1) \ Ran(s) :
             \E j \in DOMAIN s.fired :
               s.fired[j].tick < k /\ s.fired[j].ended > t.begun + k * Period[h]
        /\ s.completed = Cardinality(Ran(s))
        /\ \A j \in DOMAIN s.fired : s.fired[j].tick < t.tick
    BY <1>1, <1>2, <2>1 DEF Counts
  <2>3. Ran(ns) = Ran(s) \cup {t.tick}
    <3>1. Ran(ns) = {f[j].tick : j \in DOMAIN f} /\ Ran(s) = {s.fired[j].tick : j \in DOMAIN s.fired}
      BY <1>12 DEF Ran
    <3>2. \A j \in DOMAIN f : (j \in DOMAIN s.fired /\ f[j] = s.fired[j]) \/ f[j] = shot
      BY <1>5, <1>10, <1>11
    <3>3. m + 1 \in DOMAIN f /\ f[m + 1].tick = t.tick
      BY <1>5, <1>6, <1>10, <1>11
    <3>4. \A j \in DOMAIN s.fired : j \in DOMAIN f /\ f[j] = s.fired[j]
      BY <1>5, <1>10, <1>11
    <3> QED BY <1>6, <3>1, <3>2, <3>3, <3>4
  <2>4. t.tick \notin Ran(s)
    BY <1>5, <2>2 DEF Ran
  <2>5. IsFiniteSet(Ran(ns)) /\ Cardinality(Ran(ns)) = s.completed + 1
    BY <2>2, <2>3, <2>4, FS_AddElement
  <2>6. ASSUME NEW k \in (1..t.tick - 1) \ Ran(ns)
        PROVE  \E j \in DOMAIN f : f[j].tick < k /\ f[j].ended > t.begun + k * Period[h]
    <3>1. k \in (1..t.tick - 1) \ Ran(s)
      BY <2>3
    <3>2. PICK j \in DOMAIN s.fired :
                 s.fired[j].tick < k /\ s.fired[j].ended > t.begun + k * Period[h]
      BY <2>2, <3>1
    <3>3. j \in DOMAIN f /\ f[j] = s.fired[j]
      BY <1>5, <1>10, <1>11
    <3> QED BY <3>2, <3>3
  <2>7. \A j \in DOMAIN f : IF j = Len(f) THEN f[j].tick = t.tick ELSE f[j].tick < t.tick
    BY <1>5, <1>6, <1>10, <1>11, <2>2
  <2> QED BY <1>11, <1>12, <1>13, <2>1, <2>2, <2>5, <2>6, <2>7 DEF Counts
<1> QED BY <1>3, <1>4, <1>12, <1>14, <1>16, <1>17, <1>18, OneHelper DEF now

\* A set of numbers has a least one.
LEMMA LeastOf ==
  ASSUME NEW S, S \subseteq Nat, S # {}
  PROVE  \E x \in S : \A y \in S : x <= y
PROOF
<1>1. PICK x \in S : \A y \in S : <<y, x>> \notin OpToRel(<, Nat)
  <2>. DEFINE less == OpToRel(<, Nat)
  <2>1. IsWellFoundedOn(less, Nat)
    BY NatLessThanWellFounded
  <2>. HIDE DEF less
  <2>2. \E x \in S : \A y \in S : ~ (<<y, x>> \in less)
    BY <2>1, WFMin
  <2> QED BY <2>2 DEF less
<1>2. ASSUME NEW y \in S
      PROVE  x <= y
  <2>1. <<y, x>> \in Nat \X Nat /\ <<y, x>>[1] = y /\ <<y, x>>[2] = x
    OBVIOUS
  <2>2. ~ (y < x)
    BY <1>1, <2>1 DEF OpToRel
  <2> QED BY <2>2
<1> QED BY <1>2

\* There is a deadline that has not gone by, and those before it have.
LEMMA NextTickFacts ==
  ASSUME TimerInv, NEW h \in Helpers, NEW t \in TaskType
  PROVE  /\ NextTick(h, t) \in Nat /\ NextTick(h, t) > t.tick
         /\ \A j \in t.tick + 1..NextTick(h, t) - 1 : clock > t.begun + j * Period[h]
PROOF
<1>. DEFINE a == t.tick
            b == t.begun
            P == Period[h]
            now == clock
            S == {k \in Nat : k > a /\ ~ (now > b + k * P)}
<1>1. /\ a \in Nat /\ b \in Nat /\ P \in Nat /\ P > 0 /\ MaxTime \in Nat /\ now \in 0..MaxTime
  BY HelperFacts, TaskFacts DEF TimerInv, TimerTypes
<1>2. /\ NextTick(h, t) = CHOOSE k \in a + 1..a + MaxTime + 2 :
           /\ ~ (now > b + k * P)
           /\ \A j \in a + 1..k - 1 : now > b + j * P
  BY DEF NextTick, Past
<1>. HIDE DEF a, b, P, now
<1>3. a + MaxTime + 1 \in S
  <2>. DEFINE k == a + MaxTime + 1
  <2>1. k \in Nat /\ k > a /\ k > now
    BY <1>1
  <2>. HIDE DEF k
  <2>2. k * P \in Nat /\ k * P >= k
    BY <1>1, <2>1
  <2>3. ~ (now > b + k * P)
    BY <1>1, <2>1, <2>2
  <2> QED BY <2>1, <2>3 DEF k
<1>4. PICK m \in S : \A k \in S : m <= k
  <2>1. S \subseteq Nat /\ S # {}
    BY <1>3
  <2>. HIDE DEF S
  <2> QED BY <2>1, LeastOf
<1>5. /\ m \in a + 1..a + MaxTime + 2 /\ ~ (now > b + m * P)
  BY <1>1, <1>3, <1>4
<1>6. ASSUME NEW j \in a + 1..m - 1
      PROVE  now > b + j * P
  <2>1. j \in Nat /\ j > a /\ j < m /\ m \in Nat
    BY <1>1, <1>4
  <2>2. j \notin S
    BY <1>4, <2>1
  <2> QED BY <2>1, <2>2
<1>. DEFINE k == NextTick(h, t)
<1>7. /\ k \in a + 1..a + MaxTime + 2
      /\ \A j \in a + 1..k - 1 : now > b + j * P
  BY <1>2, <1>5, <1>6
<1>. HIDE DEF k
<1>8. k \in Nat /\ k > a
  BY <1>1, <1>7
<1> QED BY <1>7, <1>8 DEF k, a, b, P, now

\* An iteration ends and the next deadline is chosen.
LEMMA AgainKeeps ==
  ASSUME TimerInv, NEW h \in Helpers, NEW i \in DOMAIN tasks[h], Again(h, i)
  PROVE  TimerInv'
PROOF
<1>. DEFINE s == helper[h]
            ts == tasks[h]
            t == ts[i]
            now == clock
            k == NextTick(h, t)
            wait == t.begun + k * Period[h]
            f == EndShot(h)
            done == s.completed + 1
            over == s.skipped + (k - t.tick - 1)
            ns == [s EXCEPT !.completed = done, !.skipped = over, !.fired = f]
            nt == [t EXCEPT !.phase = "asleep", !.tick = k, !.due = wait]
            nts == [ts EXCEPT ![i] = nt]
<1>1. /\ s \in HelperType /\ ts \in Seq(TaskType) /\ now \in Nat /\ Period[h] \in Nat
      /\ Owns(h, s, ts) /\ Calls(h, s, ts, now) /\ Counts(h, s, ts)
      /\ t.phase = "running" /\ ~t.cancel /\ Kind[h] = "interval"
  BY HelperFacts DEF Again, Asked
<1>2. /\ i = 1 /\ t \in TaskType /\ Len(ts) = 1 /\ DOMAIN ts = {1}
      /\ s.effect # "none" /\ ts # <<>> /\ ~Wrapper(h)
  <2>1. ~Wrapper(h)
    BY <1>1 DEF Wrapper
  <2>2. /\ i = 1 /\ t \in TaskType /\ Len(ts) = 1 /\ DOMAIN ts = 1..1
        /\ s.effect # "none" /\ ts # <<>>
    BY <2>1, HasTask
  <2>3. 1..1 = {1}
    OBVIOUS
  <2> QED BY <2>1, <2>2, <2>3
<1>3. /\ k \in Nat /\ k > t.tick /\ \A j \in t.tick + 1..k - 1 : now > t.begun + j * Period[h]
  BY <1>2, NextTickFacts
<1>4. /\ helper' = [helper EXCEPT ![h] = ns] /\ tasks' = [tasks EXCEPT ![h] = nts]
      /\ clock' = clock
  BY DEF Again
<1>5. /\ f \in Seq(ShotType) /\ Len(f) = Len(s.fired) /\ DOMAIN f = DOMAIN s.fired
      /\ \A n \in DOMAIN s.fired :
           /\ f[n].tick = s.fired[n].tick
           /\ f[n].ended = IF n = Len(s.fired) THEN now ELSE s.fired[n].ended
  BY EndShotFacts
<1>6. /\ t.tick \in Nat /\ t.tick > 0 /\ t.begun \in Nat /\ s.completed \in Nat
      /\ s.skipped \in Nat /\ Len(s.fired) \in Nat /\ DOMAIN s.fired = 1..Len(s.fired)
      /\ \A n \in DOMAIN s.fired : s.fired[n].tick \in Nat /\ s.fired[n].ended \in Nat
  BY <1>1, <1>2, KeptFacts, TaskFacts
<1>. DEFINE P == Period[h]
<1>7. P \in Nat /\ wait = t.begun + k * P
  BY <1>1
<1>8. over = s.skipped + (k - t.tick - 1) /\ done = s.completed + 1
  OBVIOUS
<1>. HIDE DEF s, ts, t, now, k, wait, f, done, over, P
<1>9. wait \in Nat
  <2>1. k * P \in Nat
    BY <1>3, <1>7
  <2> QED BY <1>6, <1>7, <2>1
<1>10. over \in Nat /\ done \in Nat
  BY <1>3, <1>6, <1>8
<1>11. /\ ns \in HelperType /\ ns.effect = s.effect /\ ns.awaited = s.awaited
       /\ ns.owned = s.owned /\ ns.pending = s.pending /\ ns.fired = f
       /\ ns.completed = done /\ ns.skipped = over
  BY <1>1, <1>5, <1>10 DEF HelperType
<1>12. /\ nt \in TaskType /\ nt.phase = "asleep" /\ nt.tick = k /\ nt.begun = t.begun
  <2>1. k \in Nat \ {0}
    BY <1>3, <1>6
  <2> QED BY <1>2, <1>9, <2>1 DEF TaskType
<1>. HIDE DEF ns, nt
<1>13. /\ nts \in Seq(TaskType) /\ Len(nts) = Len(ts) /\ nts[1] = nt
  BY <1>1, <1>2, <1>12, ReplaceFacts
<1>. HIDE DEF nts
<1>14. Owns(h, ns, nts)
  <2>1. s.effect # "stopped"
    BY <1>1, <1>2 DEF Owns, t
  <2> QED BY <1>1, <1>2, <1>11, <1>13, <2>1 DEF Owns
<1>15. Calls(h, ns, nts, now)
  BY <1>2 DEF Calls
<1>16. Counts(h, ns, nts)
  <2>1. /\ IsFiniteSet(Ran(s))
        /\ s.completed + s.skipped = t.tick - 1
        /\ \A j \in (1..t.tick - 1) \ Ran(s) :
             \E n \in DOMAIN s.fired :
               s.fired[n].tick < j /\ s.fired[n].ended > t.begun + j * Period[h]
        /\ s.completed + 1 = Cardinality(Ran(s)) /\ s.fired # <<>>
        /\ \A n \in DOMAIN s.fired :
             IF n = Len(s.fired) THEN s.fired[n].tick = t.tick ELSE s.fired[n].tick < t.tick
    BY <1>1, <1>2 DEF Counts, t
  <2>. DEFINE m == Len(s.fired)
  <2>2. m \in DOMAIN s.fired /\ s.fired[m].tick = t.tick
    <3>1. s.fired \in Seq(ShotType)
      BY <1>1, KeptFacts
    <3>2. m # 0
      BY <2>1, <3>1, EmptySeq
    <3> QED BY <1>6, <2>1, <3>2
  <2>3. Ran(ns) = Ran(s)
    BY <1>5, <1>11 DEF Ran
  <2>4. done + over = k - 1
    <3>1. /\ s.completed \in Nat /\ s.skipped \in Nat /\ t.tick \in Nat /\ k \in Nat
          /\ s.completed + s.skipped = t.tick - 1
      BY <1>3, <1>6, <2>1
    <3> QED BY <1>8, <3>1
  <2>5. done = Cardinality(Ran(ns))
    BY <1>8, <2>1, <2>3
  <2>6. ASSUME NEW j \in (1..k - 1) \ Ran(ns)
        PROVE  \E n \in DOMAIN f : f[n].tick < j /\ f[n].ended > t.begun + j * Period[h]
    <3>1. j \in Nat /\ j >= 1 /\ j < k /\ j \notin Ran(s)
      BY <1>3, <2>3
    <3>2. t.tick \in Ran(s)
      BY <2>2 DEF Ran
    <3>3. CASE j < t.tick
      <4>1. j \in (1..t.tick - 1) \ Ran(s)
        BY <1>6, <3>1, <3>3
      <4>2. PICK n \in DOMAIN s.fired :
                   s.fired[n].tick < j /\ s.fired[n].ended > t.begun + j * Period[h]
        BY <2>1, <4>1
      <4>3. n # m
        BY <1>6, <2>2, <3>1, <3>3, <4>2
      <4>4. /\ n \in DOMAIN f /\ f[n].tick = s.fired[n].tick
            /\ f[n].ended = s.fired[n].ended
        BY <1>5, <4>3
      <4> QED BY <4>2, <4>4
    <3>4. CASE j > t.tick
      <4>1. j \in t.tick + 1..k - 1
        BY <1>3, <1>6, <3>1, <3>4
      <4>2. now > t.begun + j * Period[h]
        BY <1>3, <4>1
      <4>3. m \in DOMAIN f /\ f[m].ended = now /\ f[m].tick = t.tick
        BY <1>5, <2>2
      <4> QED BY <3>4, <4>2, <4>3
    <3>5. j # t.tick
      BY <3>1, <3>2
    <3> QED BY <1>6, <3>1, <3>3, <3>4, <3>5
  <2>7. \A n \in DOMAIN f : f[n].tick < k
    <3>1. ASSUME NEW n \in DOMAIN s.fired
          PROVE  s.fired[n].tick < k
      <4>1. s.fired[n].tick <= t.tick
        BY <1>6, <2>1
      <4> QED BY <1>3, <1>6, <4>1
    <3> QED BY <1>5, <3>1
  <2> QED BY <1>11, <1>12, <1>13, <2>1, <2>3, <2>4, <2>5, <2>6, <2>7 DEF Counts
<1> QED BY <1>4, <1>11, <1>13, <1>14, <1>15, <1>16, OneHelper DEF now

\* Every step keeps the invariant.
LEMMA TimerStepKeeps ==
  ASSUME TimerInv, [TimerNext]_timerVars
  PROVE  TimerInv'
PROOF
<1>1. CASE Advance
  BY <1>1, AdvanceKeeps
<1>2. ASSUME NEW h \in Helpers, Step(h)
      PROVE  TimerInv'
  <2>1. CASE Set(h)
    BY <2>1, SetKeeps
  <2>2. CASE CallThrottled(h)
    BY <2>2, CallThrottledKeeps
  <2>3. CASE CallDebounced(h)
    BY <2>3, CallDebouncedKeeps
  <2>4. CASE Stop(h)
    BY <2>4, StopTimerKeeps
  <2>5. CASE Stopped(h)
    BY <2>5, StoppedKeeps
  <2>6. ASSUME NEW i \in DOMAIN tasks[h],
               Begin(h, i) \/ Wake(h, i) \/ Again(h, i) \/ Return(h, i) \/ Cancelled(h, i)
        PROVE  TimerInv'
    <3>1. CASE Begin(h, i)
      BY <3>1, BeginKeeps
    <3>2. CASE Wake(h, i)
      BY <3>2, WakeKeeps
    <3>3. CASE Again(h, i)
      BY <3>3, AgainKeeps
    <3>4. CASE Return(h, i)
      BY <3>4, ReturnKeeps
    <3>5. CASE Cancelled(h, i)
      BY <3>5, CancelledKeeps
    <3> QED BY <2>6, <3>1, <3>2, <3>3, <3>4, <3>5
  <2> QED BY <1>2, <2>1, <2>2, <2>3, <2>4, <2>5, <2>6 DEF Step
<1>3. CASE UNCHANGED timerVars
  BY <1>3 DEF timerVars, TimerInv, TimerTypes
<1> QED BY <1>1, <1>2, <1>3 DEF TimerNext

\* A wrapper knows its one task that is going to call, the others' disposer waits
\* for their one task, and calls and deadlines are accounted for (timer.py).
THEOREM TimerInvHolds == TimerSpec => []TimerInv
PROOF
<1>1. TimerInit => TimerInv
  BY TimerInvInit
<1>2. TimerInv /\ [TimerNext]_timerVars => TimerInv'
  BY TimerStepKeeps
<1> QED BY <1>1, <1>2, PTL DEF TimerSpec

\* When a disposer has returned, no task it owned is left to run, but the call of
\* a wrapper that had disowned it or was asked to stop (_register, spawn).
THEOREM StopMeansStoppedHolds ==
  TimerSpec => []StopMeansStopped
PROOF
<1>1. TimerInv => StopMeansStopped
  <2>. SUFFICES ASSUME TimerInv, NEW h \in Helpers, helper[h].effect = "stopped",
                       NEW i \in 1..helper[h].owned
                PROVE  \/ tasks[h][i].phase = "over"
                       \/ Wrapper(h) /\ (tasks[h][i].phase = "running" \/ Asked(h, i))
    BY DEF StopMeansStopped
  <2>1. /\ Owns(h, helper[h], tasks[h]) /\ tasks[h] \in Seq(TaskType)
        /\ helper[h].owned \in Nat /\ helper[h].pending \in Nat
    BY HelperFacts, KeptFacts
  <2>2. helper[h].owned <= Len(tasks[h])
    BY <2>1 DEF Owns
  <2>3. i \in DOMAIN tasks[h] /\ tasks[h][i] \in TaskType
    BY <2>1, <2>2
  <2>4. CASE Wrapper(h)
    <3>1. i # helper[h].pending
      <4>1. helper[h].pending = 0 \/ helper[h].pending > helper[h].owned
        BY <2>1, <2>4 DEF Owns
      <4> QED BY <2>1, <4>1
    <3>2. ~Due(tasks[h][i])
      BY <2>1, <2>3, <2>4, <3>1 DEF Owns
    <3> QED BY <2>3, <2>4, <3>2, TaskFacts DEF Due, Asked
  <2>5. CASE ~Wrapper(h)
    <3>1. i = 1 /\ tasks[h][1].phase = "over"
      BY <2>1, <2>3, <2>5, HasTask DEF Owns
    <3> QED BY <3>1
  <2> QED BY <2>4, <2>5
<1> QED BY <1>1, TimerInvHolds, PTL

\* The repeating and the rate limiting helpers fire when they should (interval,
\* throttle, debounce).
THEOREM OnScheduleHolds == TimerSpec => []OnSchedule
PROOF
<1>1. TimerInv => OnSchedule
  <2>. SUFFICES ASSUME TimerInv
                PROVE  OnSchedule
    OBVIOUS
  <2>1. ASSUME NEW h \in Helpers
        PROVE  /\ helper[h] \in HelperType /\ tasks[h] \in Seq(TaskType) /\ clock \in Nat
               /\ Owns(h, helper[h], tasks[h]) /\ Calls(h, helper[h], tasks[h], clock)
               /\ Counts(h, helper[h], tasks[h])
    BY HelperFacts
  <2>2. DeadlinesCounted
    <3>. SUFFICES ASSUME NEW h \in Helpers, Kind[h] = "interval",
                         NEW i \in DOMAIN tasks[h], tasks[h][i].phase = "asleep"
                  PROVE  /\ helper[h].completed = Cardinality(Ran(helper[h]))
                         /\ helper[h].completed + helper[h].skipped = tasks[h][i].tick - 1
                         /\ \A k \in (1..tasks[h][i].tick - 1) \ Ran(helper[h]) :
                              \E n \in DOMAIN helper[h].fired :
                                /\ helper[h].fired[n].tick < k
                                /\ helper[h].fired[n].ended
                                     > tasks[h][i].begun + k * Period[h]
      BY DEF DeadlinesCounted, Ran
    <3>1. i = 1 /\ tasks[h] # <<>>
      BY HasTask DEF Wrapper
    <3> QED BY <2>1, <3>1 DEF Counts
  <2>3. RateLimited
    <3>. SUFFICES ASSUME NEW h \in Helpers, Kind[h] = "throttle",
                         NEW n \in DOMAIN helper[h].fired
                  PROVE  LET shots == helper[h].fired
                         IN  /\ shots[n].call = shots[n].latest
                             /\ n > 1 => shots[n].at >= shots[n - 1].at + Period[h]
      BY DEF RateLimited
    <3> QED BY <2>1 DEF Calls, Wrapper
  <2>4. BurstSettled
    <3>. SUFFICES ASSUME NEW h \in Helpers, Kind[h] = "debounce",
                         NEW n \in DOMAIN helper[h].fired
                  PROVE  LET shot == helper[h].fired[n]
                         IN  shot.call = shot.latest /\ shot.at >= shot.since + Period[h]
      BY DEF BurstSettled
    <3> QED BY <2>1 DEF Calls, Wrapper
  <2>5. LastCallKept
    <3>. SUFFICES ASSUME NEW h \in Helpers, Wrapper(h), helper[h].effect = "recorded",
                         helper[h].calls > 0
                  PROVE  LET s == helper[h]
                         IN  \/ s.fired # <<>> /\ s.fired[Len(s.fired)].call = s.calls
                             \/ /\ s.pending # 0
                                /\ tasks[h][s.pending].phase \in {"new", "asleep"}
                                /\ ~Asked(h, s.pending)
                                /\ s.calls \in {s.call, tasks[h][s.pending].call}
      BY DEF LastCallKept
    <3>. DEFINE s == helper[h]
                ts == tasks[h]
    <3>1. CASE s.pending = 0
      <4>1. s.fired # <<>> /\ s.fired[Len(s.fired)].call = s.calls
        BY <2>1, <3>1 DEF Calls
      <4> QED BY <4>1
    <3>2. CASE s.pending # 0
      <4>1. Due(ts[s.pending])
        BY <2>1, <3>2 DEF Owns
      <4>2. s.calls = IF Kind[h] = "throttle" THEN s.call ELSE ts[s.pending].call
        BY <2>1, <3>2 DEF Calls
      <4> QED BY <3>2, <4>1, <4>2 DEF Due, Asked
    <3> QED BY <3>1, <3>2
  <2> QED BY <2>2, <2>3, <2>4, <2>5 DEF OnSchedule
<1> QED BY <1>1, TimerInvHolds, PTL

-----------------------------------------------------------------------------
\* Scoped

\* Whoever is in it is in it with the scope it was created from.
UpClosed(C) == \A u \in C : scope[u].parent \in C \cup {NoScope}

\* What is made through a context that scope_target had no part in belongs to the
\* subject, and its filter asks about the subject and the scopes above.
Upright(subject, own, filter) ==
  \/ subject = NoScope /\ own = Base /\ filter = {}
  \/ /\ subject \in Born /\ own = subject /\ scope[subject].straight /\ subject \in filter
     /\ \A C \in SUBSET Scopes : UpClosed(C) /\ subject \in C => filter \subseteq C

ScopeType ==
  [state : {"unborn", "alive", "ending", "over"}, parent : Scopes \cup {NoScope},
   home : Scopes \cup {Base}, filter : SUBSET Scopes, straight : BOOLEAN]

ThingType ==
  [state : {"unborn", "live", "gone"}, scope : Scopes \cup {NoScope},
   owner : Scopes \cup {Base}, filter : SUBSET Scopes, straight : BOOLEAN]

ScopedTypes == scope \in [Scopes -> ScopeType] /\ thing \in [Things -> ThingType]

\* What was created has its place among what was created before.
Grounded ==
  \A s \in Scopes :
    /\ scope[s].state = "unborn" => scope[s].parent = NoScope /\ scope[s].home = Base
    /\ scope[s].parent \in Born \cup {NoScope} /\ scope[s].home \in Born \cup {Base}
    /\ s \in Born /\ scope[s].straight =>
         Upright(scope[s].parent, scope[s].home, scope[s].filter)

\* An instance that has ended has nothing mounted under it that has not, and owns
\* nothing that is live.
EndedBelow ==
  /\ \A s \in Born : scope[s].home # Base /\ scope[scope[s].home].state = "over" =>
       scope[s].state = "over"
  /\ \A e \in Existing :
       /\ thing[e].owner # Base => scope[thing[e].owner].state # "over"
       /\ thing[e].straight => Upright(thing[e].scope, thing[e].owner, thing[e].filter)

ScopedInv == ScopedTypes /\ Grounded /\ EndedBelow

-----------------------------------------------------------------------------

\* A function that collects the scopes above s, n steps up.
Climbs(s, f, n) ==
  f = [m \in 0..n |->
         IF m = 0 THEN {s} \ {NoScope}
         ELSE f[m - 1] \cup ({scope[t].parent : t \in f[m - 1]} \ {NoScope})]

\* There is one, for any number of steps.
LEMMA Climbable ==
  ASSUME NEW s, NEW n \in Nat
  PROVE  \E f : Climbs(s, f, n)
PROOF
<1>. DEFINE Bad == {k \in Nat : ~ \E f : Climbs(s, f, k)}
<1>. SUFFICES ASSUME Bad # {}
              PROVE  FALSE
  BY Zenon
<1>1. PICK k \in Bad : \A j \in Bad : k <= j
  <2>1. Bad \subseteq Nat /\ Bad # {}
    OBVIOUS
  <2>. HIDE DEF Bad
  <2> QED BY <2>1, LeastOf
<1>2. k \in Nat /\ ~ \E f : Climbs(s, f, k)
  BY <1>1
<1>3. k # 0
  <2>. SUFFICES ASSUME k = 0
                PROVE  FALSE
    OBVIOUS
  <2>. DEFINE f == [m \in 0..0 |-> {s} \ {NoScope}]
  <2>1. \A m \in 0..0 : m = 0
    OBVIOUS
  <2>2. f = [m \in 0..0 |->
               IF m = 0 THEN {s} \ {NoScope}
               ELSE f[m - 1] \cup ({scope[t].parent : t \in f[m - 1]} \ {NoScope})]
    BY <2>1
  <2>3. Climbs(s, f, 0)
    BY <2>2, Zenon DEF Climbs
  <2>. HIDE DEF f
  <2> QED BY <1>2, <2>3
<1>4. k - 1 \in Nat /\ k - 1 \notin Bad
  BY <1>1, <1>2, <1>3
<1>5. PICK f : Climbs(s, f, k - 1)
  BY <1>4
<1>. DEFINE Up(S) == S \cup ({scope[t].parent : t \in S} \ {NoScope})
<1>6. /\ DOMAIN f = 0..k - 1
      /\ \A m \in 0..k - 1 : f[m] = IF m = 0 THEN {s} \ {NoScope} ELSE Up(f[m - 1])
  <2>1. f = [m \in 0..k - 1 |-> IF m = 0 THEN {s} \ {NoScope} ELSE Up(f[m - 1])]
    BY <1>5 DEF Climbs
  <2>. HIDE DEF Up
  <2> QED BY <2>1
<1>. DEFINE g == [m \in 0..k |-> IF m = k THEN Up(f[k - 1]) ELSE f[m]]
<1>. HIDE DEF Up
<1>7. /\ g[k] = Up(f[k - 1])
      /\ \A m \in 0..k - 1 : g[m] = f[m]
  BY <1>2
<1>8. g = [m \in 0..k |-> g[m]]
  OBVIOUS
<1>. HIDE DEF g
<1>9. ASSUME NEW m \in 0..k
      PROVE  g[m] = IF m = 0 THEN {s} \ {NoScope} ELSE Up(g[m - 1])
  <2>1. CASE m = k
    <3>1. g[k - 1] = f[k - 1]
      BY <1>4, <1>7
    <3> QED BY <1>3, <1>7, <2>1, <3>1
  <2>2. CASE m # k
    <3>1. m \in 0..k - 1 /\ (m # 0 => m - 1 \in 0..k - 1)
      BY <1>2, <2>2
    <3> QED BY <1>6, <1>7, <3>1
  <2> QED BY <2>1, <2>2
<1>10. g = [m \in 0..k |-> IF m = 0 THEN {s} \ {NoScope} ELSE Up(g[m - 1])]
  BY <1>8, <1>9
<1>11. Climbs(s, g, k)
  BY <1>10, Zenon DEF Climbs, Up
<1> QED BY <1>2, <1>11

\* Lineage is reached in as many steps as there are scopes.
Reached(s, f, n) ==
  /\ Lineage(s) = f[n] /\ n \in Nat /\ f[0] = {s} \ {NoScope}
  /\ \A m \in 1..n : f[m] = f[m - 1] \cup ({scope[t].parent : t \in f[m - 1]} \ {NoScope})

\* So lineage is what it says (Scope.lineage).
LEMMA LineageUnfolds ==
  ASSUME NEW s
  PROVE  \E f : Reached(s, f, Cardinality(Scopes))
PROOF
<1>. DEFINE N == Cardinality(Scopes)
            up == CHOOSE up : up = [n \in 0..N |->
                    IF n = 0 THEN {s} \ {NoScope}
                    ELSE up[n - 1] \cup ({scope[t].parent : t \in up[n - 1]} \ {NoScope})]
<1>1. N \in Nat
  BY FS_CardinalityType, ScopedAssumption
<1>2. Lineage(s) = up[N]
  BY DEF Lineage
<1>. HIDE DEF N
<1>3. up = [n \in 0..N |->
              IF n = 0 THEN {s} \ {NoScope}
              ELSE up[n - 1] \cup ({scope[t].parent : t \in up[n - 1]} \ {NoScope})]
  <2>1. \E f : Climbs(s, f, N)
    BY <1>1, Climbable
  <2> QED BY <2>1, Zenon DEF Climbs
<1>. HIDE DEF up
<1>. DEFINE Up(S) == S \cup ({scope[t].parent : t \in S} \ {NoScope})
<1>4. up = [n \in 0..N |-> IF n = 0 THEN {s} \ {NoScope} ELSE Up(up[n - 1])]
  BY <1>3
<1>. HIDE DEF Up
<1>5. up[0] = {s} \ {NoScope} /\ \A n \in 1..N : up[n] = Up(up[n - 1])
  <2>1. 0 \in 0..N /\ \A n \in 1..N : n \in 0..N /\ n # 0
    BY <1>1
  <2> QED BY <1>4, <2>1
<1>6. Reached(s, up, N)
  BY <1>1, <1>2, <1>5 DEF Up, Reached
<1> QED BY <1>6 DEF N

\* Nothing is in the lineage of a scope that need not be.
LEMMA LineageLeast ==
  ASSUME NEW C, UpClosed(C), NEW s \in C \cup {NoScope}
  PROVE  Lineage(s) \subseteq C
PROOF
<1>. DEFINE N == Cardinality(Scopes)
<1>0. PICK f : Reached(s, f, N)
  BY LineageUnfolds
<1>1. /\ Lineage(s) = f[N] /\ N \in Nat /\ f[0] = {s} \ {NoScope}
      /\ \A n \in 1..N :
           f[n] = f[n - 1] \cup ({scope[t].parent : t \in f[n - 1]} \ {NoScope})
  BY <1>0 DEF Reached
<1>. HIDE DEF N
<1>. DEFINE Bad == {n \in 0..N : ~ (f[n] \subseteq C)}
<1>2. ASSUME Bad # {}
      PROVE  FALSE
  <2>1. PICK n \in Bad : \A j \in Bad : n <= j
    <3>1. Bad \subseteq Nat
      BY <1>1
    <3>. HIDE DEF Bad
    <3> QED BY <1>2, <3>1, LeastOf
  <2>2. n \in 0..N /\ ~ (f[n] \subseteq C)
    BY <2>1
  <2>3. n # 0
    BY <1>1, <2>2
  <2>4. n - 1 \in 0..N /\ n - 1 \notin Bad /\ n \in 1..N
    BY <1>1, <2>1, <2>2, <2>3
  <2>5. f[n - 1] \subseteq C
    BY <2>4
  <2>6. f[n] = f[n - 1] \cup ({scope[t].parent : t \in f[n - 1]} \ {NoScope})
    BY <1>1, <2>4
  <2>7. \A t \in f[n - 1] : scope[t].parent \in C \cup {NoScope}
    BY <2>5 DEF UpClosed
  <2> QED BY <2>2, <2>5, <2>6, <2>7
<1>3. f[N] \subseteq C
  BY <1>1, <1>2
<1> QED BY <1>1, <1>3

\* The walk goes up to the end.
LEMMA LineageClosed ==
  ASSUME ScopedTypes, NEW s \in Scopes
  PROVE  s \in Lineage(s) /\ Lineage(s) \subseteq Scopes /\ UpClosed(Lineage(s))
PROOF
<1>. DEFINE N == Cardinality(Scopes)
<1>0. PICK f : Reached(s, f, N)
  BY LineageUnfolds
<1>1. /\ Lineage(s) = f[N] /\ N \in Nat /\ f[0] = {s} \ {NoScope}
      /\ \A n \in 1..N :
           f[n] = f[n - 1] \cup ({scope[t].parent : t \in f[n - 1]} \ {NoScope})
  BY <1>0 DEF Reached
<1>2. IsFiniteSet(Scopes) /\ N = Cardinality(Scopes) /\ f[0] = {s}
  BY <1>1, ScopedAssumption
<1>3. \A t \in Scopes : scope[t].parent \in Scopes \cup {NoScope}
  BY DEF ScopedTypes, ScopeType
<1>. HIDE DEF N
<1>. DEFINE Good(n) == /\ s \in f[n] /\ f[n] \subseteq Scopes
                       /\ UpClosed(f[n]) \/ Cardinality(f[n]) > n
            Bad == {n \in 0..N : ~ Good(n)}
<1>4. Good(0)
  <2>1. IsFiniteSet({}) /\ Cardinality({}) = 0
    BY FS_EmptySet
  <2>2. Cardinality({} \cup {s}) = 1
    BY <2>1, FS_AddElement
  <2>3. f[0] = {} \cup {s}
    BY <1>2
  <2>4. Cardinality(f[0]) > 0
    BY <2>2, <2>3
  <2> QED BY <1>2, <2>4
<1>5. ASSUME NEW n \in 1..N, Good(n - 1)
      PROVE  Good(n)
  <2>. DEFINE A == f[n - 1]
              B == f[n]
  <2>1. B = A \cup ({scope[t].parent : t \in A} \ {NoScope}) /\ A \subseteq Scopes /\ s \in A
    BY <1>1, <1>5
  <2>2. B \subseteq Scopes /\ A \subseteq B /\ s \in B
    BY <1>3, <2>1
  <2>3. CASE UpClosed(A)
    <3>1. B = A
      BY <2>1, <2>3 DEF UpClosed
    <3> QED BY <2>2, <2>3, <3>1
  <2>4. CASE ~UpClosed(A)
    <3>1. PICK t \in A : scope[t].parent \notin A /\ scope[t].parent # NoScope
      BY <2>4 DEF UpClosed
    <3>2. scope[t].parent \in B
      BY <2>1, <3>1
    <3>3. Cardinality(A) > n - 1
      BY <1>5, <2>4
    <3>. HIDE DEF A, B
    <3>4. A \in SUBSET B /\ A # B /\ IsFiniteSet(B)
      BY <1>2, <2>2, <3>1, <3>2, FS_Subset
    <3>5. /\ Cardinality(A) <= Cardinality(B) /\ Cardinality(A) # Cardinality(B)
          /\ IsFiniteSet(A)
      BY <3>4, FS_Subset
    <3>6. Cardinality(A) \in Nat /\ Cardinality(B) \in Nat
      BY <3>4, <3>5, FS_CardinalityType
    <3>7. Cardinality(B) > n
      BY <1>1, <3>3, <3>5, <3>6
    <3> QED BY <2>2, <3>7 DEF B
  <2> QED BY <2>3, <2>4
<1>. HIDE DEF Good
<1>6. ASSUME Bad # {}
      PROVE  FALSE
  <2>1. PICK n \in Bad : \A j \in Bad : n <= j
    <3>1. Bad \subseteq Nat
      BY <1>1
    <3>. HIDE DEF Bad
    <3> QED BY <1>6, <3>1, LeastOf
  <2>2. n \in 0..N /\ ~Good(n)
    BY <2>1
  <2>3. n # 0
    BY <1>4, <2>2
  <2>4. n - 1 \in 0..N /\ n - 1 \notin Bad /\ n \in 1..N
    BY <1>1, <2>1, <2>2, <2>3
  <2>5. Good(n - 1)
    BY <2>4
  <2> QED BY <1>5, <2>2, <2>4, <2>5
<1>7. Good(N)
  BY <1>1, <1>6
<1>8. s \in f[N] /\ f[N] \subseteq Scopes /\ (UpClosed(f[N]) \/ Cardinality(f[N]) > N)
  BY <1>7 DEF Good
<1>9. Cardinality(f[N]) <= N /\ Cardinality(f[N]) \in Nat
  BY <1>2, <1>8, FS_Subset, FS_CardinalityType
<1> QED BY <1>1, <1>8, <1>9

-----------------------------------------------------------------------------

LEMMA ScopedTyped ==
  ASSUME ScopedTypes
  PROVE  /\ \A s \in Scopes :
              /\ scope[s] \in ScopeType /\ scope[s].parent \in Scopes \cup {NoScope}
              /\ scope[s].home \in Scopes \cup {Base} /\ scope[s].filter \in SUBSET Scopes
              /\ scope[s].straight \in BOOLEAN
              /\ scope[s].state \in {"unborn", "alive", "ending", "over"}
         /\ \A e \in Things :
              /\ thing[e] \in ThingType /\ thing[e].scope \in Scopes \cup {NoScope}
              /\ thing[e].owner \in Scopes \cup {Base} /\ thing[e].filter \in SUBSET Scopes
              /\ thing[e].straight \in BOOLEAN
              /\ thing[e].state \in {"unborn", "live", "gone"}
BY DEF ScopedTypes, ScopeType, ThingType

LEMMA ScopedInvInit == ScopedInit => ScopedInv
PROOF
<1> SUFFICES ASSUME ScopedInit
             PROVE  ScopedInv
  OBVIOUS
<1>1. ScopedTypes
  BY DEF ScopedInit, ScopedTypes, ScopeType, ThingType
<1>2. /\ \A s \in Scopes : /\ scope[s].state = "unborn" /\ scope[s].parent = NoScope
                           /\ scope[s].home = Base
      /\ \A e \in Things : thing[e].state = "unborn"
  BY DEF ScopedInit
<1>3. Born = {} /\ Existing = {}
  BY <1>2 DEF Born, Existing
<1> QED BY <1>1, <1>2, <1>3 DEF ScopedInv, Grounded, EndedBelow

\* What there is to know of a context.
LEMMA ContextFacts ==
  ASSUME ScopedInv, NEW c \in Contexts
  PROVE  /\ c.owner \in Born \cup {Base} /\ c.subject \in Born \cup {NoScope}
         /\ c.filter \in SUBSET Scopes /\ c.straight \in BOOLEAN
         /\ c.straight => Upright(c.subject, c.owner, c.filter)
PROOF
<1>1. ASSUME NEW b \in Plain
      PROVE  /\ b.owner \in Born \cup {Base} /\ b.subject \in Born \cup {NoScope}
             /\ b.filter \in SUBSET Scopes /\ b.straight \in BOOLEAN
             /\ b.straight => Upright(b.subject, b.owner, b.filter)
             /\ b = [owner |-> b.owner, subject |-> b.subject, filter |-> b.filter,
                     straight |-> b.straight]
  <2>1. CASE b = RootContext
    BY <2>1 DEF RootContext, Upright
  <2>2. CASE b # RootContext
    <3>1. PICK s \in Born : b = Context(s)
      BY <2>2 DEF Plain
    <3>2. s \in Scopes
      BY DEF Born
    <3>3. /\ b.owner = s /\ b.subject = s /\ b.filter = {s} \cup scope[s].filter
          /\ b.straight = scope[s].straight
      BY <3>1 DEF Context, FilterOf
    <3>4. /\ scope[s].filter \in SUBSET Scopes /\ scope[s].straight \in BOOLEAN
          /\ scope[s].straight => Upright(scope[s].parent, scope[s].home, scope[s].filter)
      BY <3>2, ScopedTyped DEF ScopedInv, Grounded
    <3>5. ASSUME scope[s].straight, NEW C \in SUBSET Scopes, UpClosed(C), s \in C
          PROVE  {s} \cup scope[s].filter \subseteq C
      <4>1. scope[s].parent \in C \cup {NoScope}
        BY <3>5 DEF UpClosed
      <4>2. scope[s].filter \subseteq C
        BY <3>4, <3>5, <4>1, ScopedAssumption DEF Upright
      <4> QED BY <3>5, <4>2
    <3>6. b.straight => Upright(b.subject, b.owner, b.filter)
      BY <3>3, <3>5 DEF Upright
    <3> QED BY <3>1, <3>2, <3>3, <3>4, <3>6 DEF Context
  <2> QED BY <2>1, <2>2
<1>2. CASE c \in Plain
  BY <1>1, <1>2
<1>3. CASE c \notin Plain
  <2>1. PICK b \in Plain, s \in Born \cup {NoScope} : c = Targeted(b, s)
    BY <1>3 DEF Contexts
  <2>2. /\ c.owner = b.owner /\ c.subject = s /\ ~c.straight
        /\ c.filter = IF s = NoScope THEN b.filter ELSE b.filter \cup {s}
    <3>1. b = [owner |-> b.owner, subject |-> b.subject, filter |-> b.filter,
               straight |-> b.straight]
      BY <1>1
    <3> QED BY <2>1, <3>1 DEF Targeted
  <2>3. s \in Scopes \cup {NoScope} /\ c.straight = FALSE
    <3>1. c.straight = FALSE
      <4>1. b = [owner |-> b.owner, subject |-> b.subject, filter |-> b.filter,
                 straight |-> b.straight]
        BY <1>1
      <4> QED BY <2>1, <4>1 DEF Targeted
    <3> QED BY <3>1 DEF Born
  <2> QED BY <1>1, <2>2, <2>3
<1> QED BY <1>2, <1>3

\* A step that creates or ends scopes leaves what is upright upright.
LEMMA UprightStays ==
  ASSUME NEW sub, NEW own, NEW fil, Upright(sub, own, fil),
         Born \subseteq Born',
         \A t \in Born : scope'[t].straight = scope[t].straight,
         \A t \in Scopes :
           scope'[t].parent = scope[t].parent \/ scope[t].parent = NoScope
  PROVE  Upright(sub, own, fil)'
PROOF
<1>1. \A C : UpClosed(C)' /\ C \subseteq Scopes => UpClosed(C)
  BY DEF UpClosed
<1> QED BY <1>1 DEF Upright

\* A scope is created.
LEMMA CreateScopeKeeps ==
  ASSUME ScopedInv, NEW s \in Scopes, NEW c \in Contexts, CreateScope(s, c)
  PROVE  ScopedInv'
PROOF
<1>. DEFINE new == [state |-> "alive", parent |-> c.subject, home |-> c.owner,
                    filter |-> c.filter, straight |-> c.straight]
<1>1. /\ c.owner \in Born \cup {Base} /\ c.subject \in Born \cup {NoScope}
      /\ c.filter \in SUBSET Scopes /\ c.straight \in BOOLEAN
      /\ c.straight => Upright(c.subject, c.owner, c.filter)
  BY ContextFacts
<1>2. /\ scope[s].state = "unborn" /\ Alive(c.owner) /\ thing' = thing
      /\ scope' = [scope EXCEPT ![s] = new]
  BY DEF CreateScope, HomeIn
<1>3. Born \subseteq Scopes /\ s \notin Born
  BY <1>2 DEF Born
<1>4. /\ new \in ScopeType /\ new.state = "alive" /\ new.parent = c.subject
      /\ new.home = c.owner /\ new.filter = c.filter /\ new.straight = c.straight
  BY <1>1, <1>3 DEF ScopeType
<1>. HIDE DEF new
<1>5. ScopedTypes'
  BY <1>2, <1>4 DEF ScopedInv, ScopedTypes
<1>6. /\ scope'[s] = new /\ \A t \in Scopes \ {s} : scope'[t] = scope[t]
  BY <1>2 DEF ScopedInv, ScopedTypes
<1>7. Born' = Born \cup {s}
  BY <1>4, <1>6 DEF Born
<1>8. scope[s].parent = NoScope
  BY <1>2 DEF ScopedInv, Grounded
<1>9. ASSUME NEW sub, NEW own, NEW fil, Upright(sub, own, fil)
      PROVE  Upright(sub, own, fil)'
  BY <1>3, <1>6, <1>7, <1>8, <1>9, UprightStays
<1>10. Grounded'
  <2>. SUFFICES ASSUME NEW t \in Scopes
                PROVE  (/\ scope[t].state = "unborn" =>
                             scope[t].parent = NoScope /\ scope[t].home = Base
                        /\ scope[t].parent \in Born \cup {NoScope}
                        /\ scope[t].home \in Born \cup {Base}
                        /\ t \in Born /\ scope[t].straight =>
                             Upright(scope[t].parent, scope[t].home, scope[t].filter))'
    BY DEF Grounded
  <2>1. CASE t = s
    <3>1. c.straight => Upright(c.subject, c.owner, c.filter)'
      BY <1>1, <1>9
    <3>2. scope'[t] = new
      BY <1>6, <2>1
    <3> QED BY <1>1, <1>4, <1>7, <3>1, <3>2
  <2>2. CASE t # s
    <3>1. scope'[t] = scope[t] /\ (t \in Born' => t \in Born)
      BY <1>6, <1>7, <2>2
    <3>2. /\ scope[t].state = "unborn" => scope[t].parent = NoScope /\ scope[t].home = Base
          /\ scope[t].parent \in Born \cup {NoScope} /\ scope[t].home \in Born \cup {Base}
          /\ t \in Born /\ scope[t].straight =>
               Upright(scope[t].parent, scope[t].home, scope[t].filter)
      BY DEF ScopedInv, Grounded
    <3>3. t \in Born /\ scope[t].straight =>
               Upright(scope[t].parent, scope[t].home, scope[t].filter)'
      <4>. DEFINE p == scope[t].parent
                  o == scope[t].home
                  f == scope[t].filter
      <4>1. t \in Born /\ scope[t].straight => Upright(p, o, f)
        BY <3>2
      <4>. SUFFICES ASSUME t \in Born, scope[t].straight
                    PROVE  Upright(scope[t].parent, scope[t].home, scope[t].filter)'
        OBVIOUS
      <4>2. PICK q, w, g : q = p /\ w = o /\ g = f
        OBVIOUS
      <4>3. Upright(q, w, g)'
        BY <1>9, <4>1, <4>2
      <4>4. q = scope'[t].parent /\ w = scope'[t].home /\ g = scope'[t].filter
        BY <3>1, <4>2
      <4> QED BY <4>3, <4>4
    <3> QED BY <1>7, <3>1, <3>2, <3>3
  <2> QED BY <2>1, <2>2
<1>11. EndedBelow'
  <2>1. ASSUME NEW t \in Born', scope'[t].home # Base, scope'[scope'[t].home].state = "over"
        PROVE  scope'[t].state = "over"
    <3>1. CASE t = s
      <4>1. scope'[t].home = c.owner /\ c.owner \in Born
        BY <1>1, <1>4, <1>6, <2>1, <3>1
      <4>2. scope'[c.owner] = scope[c.owner] /\ scope[c.owner].state = "alive"
        BY <1>2, <1>3, <1>6, <2>1, <4>1 DEF Alive
      <4> QED BY <2>1, <4>1, <4>2
    <3>2. CASE t # s
      <4>1. t \in Born /\ scope'[t] = scope[t]
        BY <1>3, <1>6, <1>7, <3>2
      <4>2. scope[t].home \in Born
        BY <1>3, <2>1, <4>1 DEF ScopedInv, Grounded
      <4>3. scope'[scope[t].home] = scope[scope[t].home]
        BY <1>3, <1>6, <4>2
      <4> QED BY <2>1, <4>1, <4>3 DEF ScopedInv, EndedBelow
    <3> QED BY <3>1, <3>2
  <2>2. Existing' = Existing
    BY <1>2 DEF Existing
  <2>3. ASSUME NEW e \in Existing
        PROVE  /\ thing[e].owner # Base => scope'[thing[e].owner].state # "over"
               /\ thing[e].straight => Upright(thing[e].scope, thing[e].owner, thing[e].filter)'
    <3>. DEFINE p == thing[e].scope
                o == thing[e].owner
                f == thing[e].filter
    <3>1. /\ o # Base => scope[o].state # "over"
          /\ thing[e].straight => Upright(p, o, f)
          /\ o \in Scopes \cup {Base}
      BY ScopedTyped DEF ScopedInv, EndedBelow, Existing
    <3>2. o # Base => scope'[o].state # "over"
      BY <1>4, <1>6, <3>1
    <3>3. PICK q, w, g : q = p /\ w = o /\ g = f
      OBVIOUS
    <3>4. thing[e].straight => Upright(q, w, g)'
      BY <1>9, <3>1, <3>3
    <3>5. q = thing'[e].scope /\ w = thing'[e].owner /\ g = thing'[e].filter
      BY <1>2, <3>3
    <3> QED BY <3>2, <3>4, <3>5
  <2> QED BY <1>2, <2>1, <2>2, <2>3 DEF EndedBelow
<1> QED BY <1>5, <1>10, <1>11 DEF ScopedInv

\* A step that leaves the scopes aside.
LEMMA ScopesAside ==
  ASSUME ScopedInv, scope' = scope, thing' \in [Things -> ThingType],
         \A e \in Existing' :
           /\ thing'[e].owner # Base => scope[thing'[e].owner].state # "over"
           /\ thing'[e].straight =>
                Upright(thing'[e].scope, thing'[e].owner, thing'[e].filter)
  PROVE  ScopedInv'
PROOF
<1>1. Born' = Born
  BY DEF Born
<1>2. ASSUME NEW sub, NEW own, NEW fil
      PROVE  Upright(sub, own, fil)' <=> Upright(sub, own, fil)
  BY <1>1 DEF Upright, UpClosed
<1>3. Grounded'
  BY <1>1, <1>2 DEF ScopedInv, Grounded
<1>4. EndedBelow'
  BY <1>1, <1>2 DEF ScopedInv, EndedBelow
<1> QED BY <1>3, <1>4 DEF ScopedInv, ScopedTypes

\* Something is contributed.
LEMMA ContributeKeeps ==
  ASSUME ScopedInv, NEW e \in Things, NEW c \in Contexts, Contribute(e, c)
  PROVE  ScopedInv'
PROOF
<1>. DEFINE new == [state |-> "live", scope |-> c.subject, owner |-> c.owner,
                    filter |-> c.filter, straight |-> c.straight]
<1>1. /\ c.owner \in Born \cup {Base} /\ c.subject \in Born \cup {NoScope}
      /\ c.filter \in SUBSET Scopes /\ c.straight \in BOOLEAN
      /\ c.straight => Upright(c.subject, c.owner, c.filter)
  BY ContextFacts
<1>2. Alive(c.owner) /\ scope' = scope /\ thing' = [thing EXCEPT ![e] = new]
  BY DEF Contribute
<1>3. /\ new \in ThingType /\ new.scope = c.subject /\ new.owner = c.owner
      /\ new.filter = c.filter /\ new.straight = c.straight
  BY <1>1 DEF ThingType, Born
<1>. HIDE DEF new
<1>4. thing' \in [Things -> ThingType]
  BY <1>2, <1>3 DEF ScopedInv, ScopedTypes
<1>5. ASSUME NEW g \in Existing'
      PROVE  /\ thing'[g].owner # Base => scope[thing'[g].owner].state # "over"
             /\ thing'[g].straight =>
                  Upright(thing'[g].scope, thing'[g].owner, thing'[g].filter)
  <2>1. CASE g = e
    <3>1. thing'[g] = new
      BY <1>2, <2>1 DEF ScopedInv, ScopedTypes
    <3>2. c.owner # Base => scope[c.owner].state = "alive"
      BY <1>2 DEF Alive
    <3> QED BY <1>1, <1>3, <3>1, <3>2
  <2>2. CASE g # e
    <3>1. g \in Things /\ thing'[g] = thing[g]
      BY <1>2, <2>2 DEF ScopedInv, ScopedTypes, Existing
    <3>2. g \in Existing
      BY <3>1 DEF Existing
    <3> QED BY <3>1, <3>2 DEF ScopedInv, EndedBelow
  <2> QED BY <2>1, <2>2
<1> QED BY <1>2, <1>4, <1>5, ScopesAside

\* A contribution is withdrawn.
LEMMA WithdrawnKeeps ==
  ASSUME ScopedInv, NEW e \in Things, Withdrawn(e)
  PROVE  ScopedInv'
PROOF
<1>1. scope' = scope /\ thing' = [thing EXCEPT ![e].state = "gone"]
  BY DEF Withdrawn
<1>2. thing' \in [Things -> ThingType]
  BY <1>1 DEF ScopedInv, ScopedTypes, ThingType
<1>3. ASSUME NEW g \in Existing'
      PROVE  g \in Existing /\ thing'[g] = thing[g]
  <2>1. g \in Things /\ thing'[g].state = "live"
    BY DEF Existing
  <2>2. g # e
    BY <1>1, <2>1 DEF ScopedInv, ScopedTypes
  <2>3. thing'[g] = thing[g]
    BY <1>1, <2>1, <2>2 DEF ScopedInv, ScopedTypes
  <2> QED BY <2>1, <2>3 DEF Existing
<1> QED BY <1>1, <1>2, <1>3, ScopesAside DEF ScopedInv, EndedBelow

\* What the end of a scope, and its beginning, leave of everything else.
LEMMA EndingStep ==
  ASSUME ScopedInv, NEW s \in Born, NEW st \in {"ending", "over"},
         scope' = [scope EXCEPT ![s].state = st], thing' \in [Things -> ThingType],
         st = "over" => \A t \in Born : scope[t].home = s => scope[t].state = "over",
         scope[s].state # "over",
         \A e \in Existing' : /\ e \in Existing /\ thing'[e] = thing[e]
                              /\ st = "over" => thing[e].owner # s
  PROVE  ScopedInv'
PROOF
<1>1. s \in Scopes
  BY DEF Born
<1>2. ScopedTypes'
  BY DEF ScopedInv, ScopedTypes, ScopeType
<1>3. /\ scope'[s].state = st
      /\ \A t \in Scopes \ {s} : scope'[t].state = scope[t].state
      /\ \A t \in Scopes :
           /\ scope'[t].parent = scope[t].parent /\ scope'[t].home = scope[t].home
           /\ scope'[t].filter = scope[t].filter /\ scope'[t].straight = scope[t].straight
  BY <1>1 DEF ScopedInv, ScopedTypes, ScopeType
<1>4. Born' = Born
  BY <1>1, <1>3 DEF Born
<1>5. ASSUME NEW sub, NEW own, NEW fil, Upright(sub, own, fil)
      PROVE  Upright(sub, own, fil)'
  <2>1. \A t \in Born : t \in Scopes
    BY DEF Born
  <2> QED BY <1>3, <1>4, <1>5, <2>1, UprightStays
<1>7. Grounded'
  <2>. SUFFICES ASSUME NEW t \in Scopes
                PROVE  (/\ scope[t].state = "unborn" =>
                             scope[t].parent = NoScope /\ scope[t].home = Base
                        /\ scope[t].parent \in Born \cup {NoScope}
                        /\ scope[t].home \in Born \cup {Base}
                        /\ t \in Born /\ scope[t].straight =>
                             Upright(scope[t].parent, scope[t].home, scope[t].filter))'
    BY DEF Grounded
  <2>1. /\ scope[t].state = "unborn" => scope[t].parent = NoScope /\ scope[t].home = Base
        /\ scope[t].parent \in Born \cup {NoScope} /\ scope[t].home \in Born \cup {Base}
        /\ t \in Born /\ scope[t].straight =>
             Upright(scope[t].parent, scope[t].home, scope[t].filter)
    BY DEF ScopedInv, Grounded
  <2>2. scope'[t].state = "unborn" => scope[t].state = "unborn"
    BY <1>3
  <2>3. ASSUME t \in Born, scope[t].straight
        PROVE  Upright(scope[t].parent, scope[t].home, scope[t].filter)'
    <3>1. PICK q, w, g :
            q = scope[t].parent /\ w = scope[t].home /\ g = scope[t].filter
      OBVIOUS
    <3>2. Upright(q, w, g)
      BY <2>1, <2>3, <3>1
    <3>3. Upright(q, w, g)'
      BY <1>5, <3>2
    <3>4. q = scope'[t].parent /\ w = scope'[t].home /\ g = scope'[t].filter
      BY <1>3, <3>1
    <3> QED BY <3>3, <3>4
  <2> QED BY <1>3, <1>4, <2>1, <2>2, <2>3
<1>8. EndedBelow'
  <2>1. ASSUME NEW t \in Born, scope[t].home # Base,
               scope'[scope[t].home].state = "over"
        PROVE  scope'[t].state = "over"
    <3>. DEFINE o == scope[t].home
    <3>1. t \in Scopes /\ o \in Scopes
      BY <2>1, ScopedTyped DEF ScopedInv, Born
    <3>2. CASE o = s
      <4>1. scope[t].state = "over"
        BY <1>3, <2>1, <3>2
      <4>2. t # s
        BY <4>1
      <4> QED BY <1>3, <3>1, <4>1, <4>2
    <3>3. CASE o # s
      <4>1. scope[o].state = "over"
        BY <1>3, <2>1, <3>1, <3>3
      <4>2. scope[t].state = "over"
        BY <2>1, <4>1 DEF ScopedInv, EndedBelow
      <4>3. t # s
        BY <4>2
      <4> QED BY <1>3, <3>1, <4>2, <4>3
    <3> QED BY <3>2, <3>3
  <2>2. ASSUME NEW t \in Born', scope'[t].home # Base, scope'[scope'[t].home].state = "over"
        PROVE  scope'[t].state = "over"
    <3>1. t \in Born /\ scope'[t].home = scope[t].home
      BY <1>3, <1>4 DEF Born
    <3> QED BY <2>1, <2>2, <3>1
  <2>3. ASSUME NEW e \in Existing'
        PROVE  /\ thing'[e].owner # Base => scope'[thing'[e].owner].state # "over"
               /\ thing'[e].straight =>
                    Upright(thing[e].scope, thing[e].owner, thing[e].filter)'
    <3>1. /\ e \in Existing /\ thing'[e] = thing[e] /\ (st = "over" => thing[e].owner # s)
          /\ thing[e].owner \in Scopes \cup {Base}
      BY ScopedTyped DEF ScopedInv, Existing
    <3>2. /\ thing[e].owner # Base => scope[thing[e].owner].state # "over"
          /\ thing[e].straight => Upright(thing[e].scope, thing[e].owner, thing[e].filter)
      BY <3>1 DEF ScopedInv, EndedBelow
    <3>3. thing[e].owner # Base => scope'[thing[e].owner].state # "over"
      BY <1>3, <3>1, <3>2
    <3>4. PICK q, w, g :
            q = thing[e].scope /\ w = thing[e].owner /\ g = thing[e].filter
      OBVIOUS
    <3>5. thing[e].straight => Upright(q, w, g)'
      BY <1>5, <3>2, <3>4
    <3>6. q = thing'[e].scope /\ w = thing'[e].owner /\ g = thing'[e].filter
      BY <3>1, <3>4
    <3> QED BY <3>1, <3>3, <3>5, <3>6
  <2> QED BY <2>2, <2>3 DEF EndedBelow
<1> QED BY <1>2, <1>7, <1>8 DEF ScopedInv

LEMMA EndsKeeps ==
  ASSUME ScopedInv, NEW s \in Scopes, Ends(s)
  PROVE  ScopedInv'
PROOF
<1>1. /\ scope[s].state = "alive" /\ scope' = [scope EXCEPT ![s].state = "ending"]
      /\ thing' = thing
  BY DEF Ends
<1>2. s \in Born /\ Existing' = Existing
  BY <1>1 DEF Born, Existing
<1>3. thing' \in [Things -> ThingType]
  BY <1>1 DEF ScopedInv, ScopedTypes
<1> QED BY <1>1, <1>2, <1>3, EndingStep

LEMMA EndedKeeps ==
  ASSUME ScopedInv, NEW s \in Scopes, Ended(s)
  PROVE  ScopedInv'
PROOF
<1>1. /\ scope[s].state = "ending" /\ scope' = [scope EXCEPT ![s].state = "over"]
      /\ \A t \in Born : scope[t].home = s => scope[t].state = "over"
  BY DEF Ended
<1>2. /\ DOMAIN thing' = Things /\ thing' = [e \in Things |-> thing'[e]]
      /\ \A e \in Things : thing'[e] = IF thing[e].owner = s /\ thing[e].state = "live"
                                       THEN [thing[e] EXCEPT !.state = "gone"] ELSE thing[e]
  BY DEF Ended
<1>3. s \in Born
  BY <1>1 DEF Born
<1>4. ASSUME NEW e \in Things
      PROVE  /\ thing'[e] \in ThingType
             /\ thing'[e].state = "live" => thing'[e] = thing[e] /\ thing[e].owner # s
  <2>1. thing[e] \in ThingType
    BY ScopedTyped DEF ScopedInv
  <2>2. CASE thing[e].owner = s /\ thing[e].state = "live"
    <3>1. thing'[e] = [thing[e] EXCEPT !.state = "gone"]
      BY <1>2, <2>2
    <3>2. thing'[e] \in ThingType /\ thing'[e].state = "gone"
      BY <2>1, <3>1 DEF ThingType
    <3> QED BY <3>2
  <2>3. CASE ~ (thing[e].owner = s /\ thing[e].state = "live")
    <3>1. thing'[e] = thing[e]
      BY <1>2, <2>3
    <3> QED BY <2>1, <2>3, <3>1
  <2> QED BY <2>2, <2>3
<1>5. thing' \in [Things -> ThingType]
  BY <1>2, <1>4
<1>6. \A e \in Existing' : e \in Existing /\ thing'[e] = thing[e] /\ thing[e].owner # s
  BY <1>4 DEF Existing
<1> QED BY <1>1, <1>3, <1>5, <1>6, EndingStep

\* The two trees are one: what a subject has was made in the instance that is
\* mounted where the subject was created, and an instance ends after those below
\* (scope.py).
THEOREM ScopedInvHolds == ScopedSpec => []ScopedInv
PROOF
<1>1. ScopedInit => ScopedInv
  BY ScopedInvInit
<1>2. ScopedInv /\ [ScopedNext]_scopedVars => ScopedInv'
  <2>. SUFFICES ASSUME ScopedInv, [ScopedNext]_scopedVars
                PROVE  ScopedInv'
    OBVIOUS
  <2>1. ASSUME NEW s \in Scopes, NEW c \in Contexts, CreateScope(s, c)
        PROVE  ScopedInv'
    BY <2>1, CreateScopeKeeps
  <2>2. ASSUME NEW s \in Scopes, Ends(s)
        PROVE  ScopedInv'
    BY <2>2, EndsKeeps
  <2>3. ASSUME NEW s \in Scopes, Ended(s)
        PROVE  ScopedInv'
    BY <2>3, EndedKeeps
  <2>4. ASSUME NEW e \in Things, NEW c \in Contexts, Contribute(e, c)
        PROVE  ScopedInv'
    BY <2>4, ContributeKeeps
  <2>5. ASSUME NEW e \in Things, Withdrawn(e)
        PROVE  ScopedInv'
    BY <2>5, WithdrawnKeeps
  <2>6. CASE UNCHANGED scopedVars
    <3>1. scope' = scope /\ thing' = thing
      BY <2>6 DEF scopedVars
    <3>2. Existing' = Existing
      BY <3>1 DEF Existing
    <3> QED BY <3>1, <3>2, ScopesAside DEF ScopedInv, ScopedTypes, EndedBelow
  <2> QED BY <2>1, <2>2, <2>3, <2>4, <2>5, <2>6 DEF ScopedNext
<1> QED BY <1>1, <1>2, PTL DEF ScopedSpec

\* Above a scope that was created straight are such scopes, and each is the home of
\* the one below.
LEMMA StraightUp ==
  ASSUME ScopedInv, NEW u \in Born, scope[u].straight
  PROVE  \/ scope[u].parent = NoScope /\ scope[u].home = Base
         \/ /\ scope[u].parent \in Born /\ scope[scope[u].parent].straight
            /\ scope[u].home = scope[u].parent
BY DEF ScopedInv, Grounded, Upright, Born

\* For those, the scopes above are the instances above.
LEMMA HomesAreLineage ==
  ASSUME ScopedInv, NEW s \in Born, scope[s].straight
  PROVE  Homes(s) = Lineage(s)
PROOF
<1>1. Born \subseteq Scopes
  BY DEF Born
<1>2. s \in Lineage(s) /\ Lineage(s) \subseteq Scopes /\ UpClosed(Lineage(s))
  BY <1>1, LineageClosed DEF ScopedInv
<1>3. \A u \in Lineage(s) : u \in Born /\ scope[u].straight
  <2>. DEFINE C == {u \in Born : scope[u].straight}
  <2>1. UpClosed(C) /\ s \in C \cup {NoScope}
    BY StraightUp DEF UpClosed
  <2>2. Lineage(s) \subseteq C
    <3>. HIDE DEF C
    <3> QED BY <2>1, LineageLeast
  <2> QED BY <2>2
<1>4. \A t \in Lineage(s) : scope[t].home # Base => scope[t].home \in Lineage(s)
  <2>. SUFFICES ASSUME NEW t \in Lineage(s), scope[t].home # Base
                PROVE  scope[t].home \in Lineage(s)
    OBVIOUS
  <2>1. scope[t].parent \in Born /\ scope[t].home = scope[t].parent
    BY <1>3, StraightUp
  <2>2. scope[t].parent # NoScope
    BY <1>1, <2>1, ScopedAssumption
  <2> QED BY <1>2, <2>1, <2>2 DEF UpClosed
<1>5. Homes(s) \subseteq Lineage(s)
  BY <1>2, <1>4 DEF Homes
<1>6. ASSUME NEW S \in SUBSET Scopes, s \in S,
             \A t \in S : scope[t].home # Base => scope[t].home \in S
      PROVE  Lineage(s) \subseteq S
  <2>. DEFINE C == {u \in S : u \in Born /\ scope[u].straight}
  <2>1. UpClosed(C)
    <3>. SUFFICES ASSUME NEW u \in C, scope[u].parent # NoScope
                  PROVE  scope[u].parent \in C
      BY DEF UpClosed
    <3>1. /\ scope[u].parent \in Born /\ scope[scope[u].parent].straight
          /\ scope[u].home = scope[u].parent
      BY StraightUp
    <3>2. scope[u].home # Base
      BY <1>1, <3>1, ScopedAssumption
    <3> QED BY <1>6, <3>1, <3>2
  <2>2. s \in C \cup {NoScope}
    BY <1>6
  <2>3. Lineage(s) \subseteq C
    <3>. HIDE DEF C
    <3> QED BY <2>1, <2>2, LineageLeast
  <2> QED BY <2>3
<1>7. Lineage(s) \subseteq Homes(s)
  BY <1>2, <1>6 DEF Homes
<1> QED BY <1>5, <1>7

\* Scopes end with what they contributed and divide what is seen, for every tree of
\* subjects (scope.py).
THEOREM ScopesHoldAlways == ScopedSpec => []ScopesHold
PROOF
<1>1. ASSUME ScopedInv, NEW s \in Scopes, scope[s].state = "over",
             NEW t \in Born, Covers(s, t), scope[t].straight
      PROVE  scope[t].state = "over"
  <2>. DEFINE C == {u \in Born : /\ scope[u].straight
                                 /\ scope[u].state = "over" => scope[t].state = "over"}
  <2>1. UpClosed(C)
    <3>. SUFFICES ASSUME NEW u \in C, scope[u].parent # NoScope
                  PROVE  scope[u].parent \in C
      BY DEF UpClosed
    <3>1. /\ scope[u].parent \in Born /\ scope[scope[u].parent].straight
          /\ scope[u].home = scope[u].parent
      BY <1>1, StraightUp
    <3>2. scope[u].home # Base
      BY <3>1, ScopedAssumption DEF Born
    <3>3. scope[scope[u].parent].state = "over" => scope[u].state = "over"
      BY <1>1, <3>1, <3>2 DEF ScopedInv, EndedBelow
    <3> QED BY <3>1, <3>3
  <2>2. t \in C \cup {NoScope}
    BY <1>1
  <2>3. s \in C
    <3>1. s \in Lineage(t)
      BY <1>1 DEF Covers
    <3>. HIDE DEF C
    <3>2. Lineage(t) \subseteq C
      BY <2>1, <2>2, LineageLeast
    <3> QED BY <3>1, <3>2
  <2> QED BY <1>1, <2>3
<1>2. ASSUME ScopedInv, NEW s \in Scopes, scope[s].state = "over",
             NEW e \in Existing, thing[e].straight, Covers(s, thing[e].scope)
      PROVE  FALSE
  <2>1. /\ Upright(thing[e].scope, thing[e].owner, thing[e].filter)
        /\ thing[e].owner # Base => scope[thing[e].owner].state # "over"
    BY <1>2 DEF ScopedInv, EndedBelow
  <2>2. CASE thing[e].scope = NoScope
    <3>1. UpClosed({}) /\ NoScope \in {} \cup {NoScope}
      BY DEF UpClosed
    <3>2. Lineage(NoScope) \subseteq {}
      BY <3>1, LineageLeast
    <3> QED BY <1>2, <2>2, <3>2 DEF Covers
  <2>3. CASE thing[e].scope # NoScope
    <3>1. /\ thing[e].scope \in Born /\ thing[e].owner = thing[e].scope
          /\ scope[thing[e].scope].straight
      BY <2>1, <2>3 DEF Upright
    <3>2. thing[e].scope # Base
      BY <3>1, ScopedAssumption DEF Born
    <3>3. scope[thing[e].scope].state = "over"
      BY <1>1, <1>2, <3>1
    <3> QED BY <2>1, <3>1, <3>2, <3>3
  <2> QED BY <2>2, <2>3
<1>3. ASSUME ScopedInv, NEW e \in Existing, NEW s \in Born, thing[e].straight,
             scope[s].straight
      PROVE  /\ Visible(e, s) <=> thing[e].scope \in Homes(s) \cup {NoScope}
             /\ Hears(e, s) <=> Visible(e, s)
  <2>1. Homes(s) = Lineage(s)
    BY <1>3, HomesAreLineage
  <2>2. s \in Lineage(s) /\ Lineage(s) \in SUBSET Scopes /\ UpClosed(Lineage(s))
    BY <1>3, LineageClosed DEF ScopedInv, Born
  <2>3. Upright(thing[e].scope, thing[e].owner, thing[e].filter)
    BY <1>3 DEF ScopedInv, EndedBelow
  <2>4. Visible(e, s) <=> thing[e].scope \in Lineage(s) \cup {NoScope}
    BY DEF Visible, Admits, Covers
  <2>5. Hears(e, s) <=> thing[e].filter \subseteq Lineage(s) \cup {NoScope}
    BY DEF Hears, Admits, Covers
  <2>6. NoScope \notin Lineage(s) /\ NoScope \notin Born
    BY <2>2, ScopedAssumption DEF Born
  <2>7. Hears(e, s) <=> Visible(e, s)
    BY <2>2, <2>3, <2>4, <2>5, <2>6 DEF Upright
  <2> QED BY <2>1, <2>4, <2>7
<1>4. ScopedInv => ScopesHold
  BY <1>1, <1>2, <1>3 DEF ScopesHold, GoneWithScope, OneRelation
<1> QED BY <1>4, ScopedInvHolds, PTL

-----------------------------------------------------------------------------
\* LogChannel

Jobs == Seq([sink : Sinks, record : Nat])
DeliveryType == [jobs : Jobs, adds : SUBSET Sinks, replay : BOOLEAN,
              next : Nat \ {0}, inside : BOOLEAN]

LogTypeOK ==
    /\ sinks \in Seq(Sinks) /\ level \in Seq(Levels) /\ threshold \in Nat
    /\ parked \in Seq(Nat) /\ evicted \in SUBSET Nat /\ replayed \in BOOLEAN
    /\ deliveries \in Seq(DeliveryType) /\ got \in [Sinks -> Seq(Nat)]
    /\ registered \in SUBSET Sinks /\ quietly \in SUBSET Nat
    /\ wanted \in Seq(SUBSET Sinks) /\ Len(wanted) = Len(level)

\* A sink is registered once, and the threshold lets through what it wants.
SinksOK ==
    /\ \A i, j \in DOMAIN sinks : sinks[i] = sinks[j] => i = j
    /\ \A s \in Members(sinks) : Interest[s] >= threshold
    /\ sinks = <<>> => threshold = IF replayed THEN Off ELSE Lowest(Levels)

\* The numbers after b, one by one, the last of all being n.
Run(s, b) == \A i \in 1..Len(s) : s[i] = b + i
Kept(b, n) ==
    /\ b + Len(parked) = n /\ Run(parked, b)
    /\ Len(parked) <= BufferSize /\ (Len(parked) < BufferSize => b = 0)

\* Before the first exporter every record is built and the newest are in the buffer;
\* from then on the buffer stays empty.
BufferOK ==
    /\ evicted \subseteq 1..Len(level) /\ quietly \subseteq 1..Len(level)
    /\ replayed => parked = <<>>
    /\ ~replayed =>
         /\ sinks = <<>> /\ deliveries = <<>> /\ \A s \in Sinks : got[s] = <<>>
         /\ \E b \in Nat : Kept(b, Len(level)) /\ evicted = 1..b

\* What the frames are to deliver: a sink's records in order, nothing that was dropped,
\* and inside an exporter only what was written since.
FramesOK ==
    \A d \in DOMAIN deliveries :
      /\ \A i \in DOMAIN deliveries[d].jobs :
           LET r == deliveries[d].jobs[i].record IN
           r \in 1..Len(level) /\ r \notin evicted /\ (d # 1 => r \notin quietly)
      /\ \A i, j \in DOMAIN deliveries[d].jobs :
           i < j /\ deliveries[d].jobs[i].sink = deliveries[d].jobs[j].sink
             => deliveries[d].jobs[i].record < deliveries[d].jobs[j].record
      /\ \A e \in DOMAIN deliveries : d < e =>
           \A i \in DOMAIN deliveries[d].jobs, j \in DOMAIN deliveries[e].jobs :
             deliveries[d].jobs[i].record < deliveries[e].jobs[j].record

\* What the exporters were given, each record once.
GotOK ==
    \A s \in Sinks : \A i \in DOMAIN got[s] :
      /\ got[s][i] \in 1..Len(level) /\ got[s][i] \notin evicted
      /\ \A j \in DOMAIN got[s] : got[s][i] = got[s][j] => i = j

\* The jobs of a frame that are still to be done.
ToDo(f) == {i \in DOMAIN f.jobs : IF f.inside THEN f.next < i ELSE f.next <= i}

\* A job that is due has not been done, nor has a later one of the same delivery.
DueOK ==
    \A d \in DOMAIN deliveries : \A i \in ToDo(deliveries[d]) :
      LET job == deliveries[d].jobs[i] IN
      \A k \in DOMAIN got[job.sink] :
        /\ got[job.sink][k] # job.record
        /\ d = 1 /\ got[job.sink][k] \in quietly => got[job.sink][k] < job.record

\* Whoever a record was written for has it or will get it.
HasGot(s, r) == \E k \in DOMAIN got[s] : got[s][k] = r
IsDue(s, r) ==
    \E d \in DOMAIN deliveries : \E i \in ToDo(deliveries[d]) :
      deliveries[d].jobs[i].sink = s /\ deliveries[d].jobs[i].record = r
WantedOK ==
    \A r \in DOMAIN level : \A s \in wanted[r] :
      level[r] >= Interest[s] /\ (HasGot(s, r) \/ IsDue(s, r))

LogInv ==
    /\ LogTypeOK /\ SinksOK /\ BufferOK /\ FramesOK /\ GotOK /\ DueOK /\ WantedOK
    /\ Ascending

LEMMA LowestIs ==
  ASSUME NEW S \in SUBSET Nat, S # {} PROVE Lowest(S) \in S /\ \A k \in S : Lowest(S) <= k
<1>1. \E x \in S : \A y \in S : x <= y
  BY LeastOf
<1> QED BY <1>1 DEF Lowest

LEMMA OffIsAbove ==
  ASSUME LogConstants PROVE Off \in Nat /\ \A l \in Levels : l < Off
<1> DEFINE top == CHOOSE l \in Levels : \A k \in Levels : k <= l
<1>1. top \in Levels /\ \A k \in Levels : k <= top
  BY DEF LogConstants
<1>2. Off = 1 + top
  BY DEF Off
<1> HIDE DEF top
<1> QED BY <1>1, <1>2 DEF LogConstants

\* The stack of frames with another one on top, without the topmost, or with that
\* one replaced.
LEMMA Stacked ==
  ASSUME deliveries \in Seq(DeliveryType), NEW f \in DeliveryType
  PROVE  /\ Depth \in Nat /\ DOMAIN deliveries = 1..Depth
         /\ \A d \in 1..Depth : deliveries[d] \in DeliveryType
         /\ Append(deliveries, f) \in Seq(DeliveryType)
         /\ DOMAIN Append(deliveries, f) = 1..Depth + 1
         /\ \A d \in 1..Depth : Append(deliveries, f)[d] = deliveries[d]
         /\ Append(deliveries, f)[Depth + 1] = f
         /\ Depth > 0 => /\ Outer \in Seq(DeliveryType) /\ DOMAIN Outer = 1..Depth - 1
                         /\ \A d \in 1..Depth - 1 : Outer[d] = deliveries[d]
                         /\ Append(Outer, f) \in Seq(DeliveryType)
                         /\ DOMAIN Append(Outer, f) = 1..Depth
                         /\ \A d \in 1..Depth - 1 : Append(Outer, f)[d] = deliveries[d]
                         /\ Append(Outer, f)[Depth] = f
<1>1. /\ Depth \in Nat /\ DOMAIN deliveries = 1..Depth
      /\ \A d \in 1..Depth : deliveries[d] \in DeliveryType
  BY DEF Depth
<1>2. /\ Append(deliveries, f) \in Seq(DeliveryType)
      /\ Len(Append(deliveries, f)) = Depth + 1
      /\ \A d \in 1..Depth : Append(deliveries, f)[d] = deliveries[d]
      /\ Append(deliveries, f)[Depth + 1] = f
  BY AppendProperties DEF Depth
<1>3. DOMAIN Append(deliveries, f) = 1..Depth + 1
  BY <1>2, LenProperties
<1>4. ASSUME Depth > 0
      PROVE  /\ Outer \in Seq(DeliveryType) /\ DOMAIN Outer = 1..Depth - 1
             /\ \A d \in 1..Depth - 1 : Outer[d] = deliveries[d]
             /\ Append(Outer, f) \in Seq(DeliveryType)
             /\ DOMAIN Append(Outer, f) = 1..Depth
             /\ \A d \in 1..Depth - 1 : Append(Outer, f)[d] = deliveries[d]
             /\ Append(Outer, f)[Depth] = f
  <2>1. \A d \in 1..Depth - 1 : deliveries[d] \in DeliveryType
    BY <1>1
  <2>2. /\ Outer \in Seq(DeliveryType)
        /\ Len(Outer) = IF 1 <= Depth - 1 THEN Depth - 1 - 1 + 1 ELSE 0
        /\ \A d \in 1..Depth - 1 - 1 + 1 : Outer[d] = deliveries[1 + d - 1]
    BY <1>1, <2>1, SubSeqProperties DEF Outer
  <2>3. Len(Outer) = Depth - 1 /\ \A d \in 1..Depth - 1 : Outer[d] = deliveries[d]
    BY <1>1, <1>4, <2>2
  <2>4. DOMAIN Outer = 1..Depth - 1
    BY <2>2, <2>3, LenProperties
  <2> HIDE DEF Outer
  <2>5. /\ Append(Outer, f) \in Seq(DeliveryType) /\ Len(Append(Outer, f)) = Len(Outer) + 1
        /\ \A d \in 1..Len(Outer) : Append(Outer, f)[d] = Outer[d]
        /\ Append(Outer, f)[Len(Outer) + 1] = f
    BY <2>2, AppendProperties
  <2>6. DOMAIN Append(Outer, f) = 1..Depth
    <3>1. Len(Append(Outer, f)) = Depth
      BY <1>1, <2>3, <2>5
    <3> QED BY <2>5, <3>1, LenProperties
  <2>7. Len(Outer) + 1 = Depth
    BY <1>1, <2>3
  <2> QED BY <2>2, <2>3, <2>4, <2>5, <2>6, <2>7
<1> QED BY <1>1, <1>2, <1>3, <1>4

\* The innermost frame goes on: its jobs are what they were.
LEMMA Moved ==
  ASSUME LogTypeOK, Depth > 0, NEW g \in DeliveryType, g.jobs = Innermost.jobs, Replace(g)
  PROVE  /\ deliveries' \in Seq(DeliveryType) /\ DOMAIN deliveries' = DOMAIN deliveries
         /\ Depth \in DOMAIN deliveries /\ deliveries'[Depth] = g
         /\ \A d \in DOMAIN deliveries :
              deliveries'[d].jobs = deliveries[d].jobs /\ (d # Depth => deliveries'[d] = deliveries[d])
<1>1. deliveries \in Seq(DeliveryType) /\ deliveries' = Append(Outer, g)
  BY DEF LogTypeOK, Replace
<1>2. /\ Depth \in Nat /\ DOMAIN deliveries = 1..Depth
      /\ Append(Outer, g) \in Seq(DeliveryType) /\ DOMAIN Append(Outer, g) = 1..Depth
      /\ \A d \in 1..Depth - 1 : Append(Outer, g)[d] = deliveries[d]
      /\ Append(Outer, g)[Depth] = g
  BY <1>1, Stacked
<1>3. Depth \in 1..Depth /\ \A d \in 1..Depth : d # Depth => d \in 1..Depth - 1
  BY <1>2
<1> QED BY <1>1, <1>2, <1>3 DEF Innermost

\* Then what the frames hold is as good as it was.
LEMMA MovedFramesOK ==
  ASSUME LogTypeOK, FramesOK, Depth > 0, NEW g \in DeliveryType, g.jobs = Innermost.jobs, Replace(g),
         UNCHANGED <<level, evicted, quietly>>
  PROVE  FramesOK'
<1>1. /\ DOMAIN deliveries' = DOMAIN deliveries
      /\ \A d \in DOMAIN deliveries : deliveries'[d].jobs = deliveries[d].jobs
  BY Moved
<1> QED BY <1>1 DEF FramesOK

LEMMA JobsAre ==
  ASSUME NEW jobs \in Jobs
  PROVE  /\ DOMAIN jobs = 1..Len(jobs) /\ Len(jobs) \in Nat
         /\ \A i \in DOMAIN jobs : jobs[i].sink \in Sinks /\ jobs[i].record \in Nat
<1>1. DOMAIN jobs = 1..Len(jobs) /\ Len(jobs) \in Nat
  BY LenProperties DEF Jobs
<1>2. \A i \in DOMAIN jobs : jobs[i] \in [sink : Sinks, record : Nat]
  BY <1>1, ElementOfSeq DEF Jobs
<1>3. \A job \in [sink : Sinks, record : Nat] : job.sink \in Sinks /\ job.record \in Nat
  OBVIOUS
<1> QED BY <1>1, <1>2, <1>3

LEMMA InnermostIs ==
  ASSUME LogTypeOK, Depth > 0
  PROVE  /\ Depth \in DOMAIN deliveries /\ Innermost \in DeliveryType
         /\ DOMAIN Innermost.jobs = 1..Len(Innermost.jobs) /\ Len(Innermost.jobs) \in Nat
         /\ Innermost.next \in Nat \ {0}
         /\ \A i \in DOMAIN Innermost.jobs :
              Innermost.jobs[i].sink \in Sinks /\ Innermost.jobs[i].record \in Nat
<1>1. Depth \in 1..Len(deliveries) /\ deliveries \in Seq(DeliveryType)
  BY DEF LogTypeOK, Depth
<1>2. Innermost \in DeliveryType
  BY <1>1 DEF Innermost
<1>3. Innermost.jobs \in Jobs /\ Innermost.next \in Nat \ {0}
  BY <1>2 DEF DeliveryType
<1> QED BY <1>1, <1>2, <1>3, JobsAre

\* The exporter of the next job is called.
LEMMA GiveKeeps == ASSUME LogConstants, LogInv, Give PROVE LogInv'
<1> DEFINE g == [Innermost EXCEPT !.inside = TRUE]
           n == Innermost.next
           s == Job.sink
           r == Job.record
<1>1. /\ LogTypeOK /\ FramesOK /\ GotOK /\ DueOK /\ WantedOK /\ Ascending
      /\ Depth > 0 /\ ~Innermost.inside /\ n <= Len(Innermost.jobs) /\ Replace(g)
      /\ got' = [got EXCEPT ![s] = Append(@, r)]
      /\ UNCHANGED <<sinks, level, threshold, parked, evicted, replayed, registered, wanted, quietly>>
  BY DEF LogInv, Give, Waits
<1>2. /\ Depth \in DOMAIN deliveries /\ Innermost \in DeliveryType
      /\ DOMAIN Innermost.jobs = 1..Len(Innermost.jobs) /\ Len(Innermost.jobs) \in Nat
      /\ n \in Nat \ {0} /\ \A i \in DOMAIN Innermost.jobs :
           Innermost.jobs[i].sink \in Sinks /\ Innermost.jobs[i].record \in Nat
  BY <1>1, InnermostIs
<1>3. /\ g \in DeliveryType /\ g.jobs = Innermost.jobs /\ g.next = n /\ g.inside = TRUE
  BY <1>2 DEF DeliveryType
<1>4. n \in DOMAIN Innermost.jobs /\ Innermost.jobs[n] = Job
  BY <1>1, <1>2 DEF Job
<1>5. s \in Sinks /\ r \in Nat
  BY <1>2, <1>4
<1>6. n \in ToDo(Innermost) /\ ToDo(g) = ToDo(Innermost) \ {n} /\ \A i \in ToDo(g) : n < i
  BY <1>1, <1>2, <1>3, <1>4 DEF ToDo
<1> HIDE DEF g, n, s, r
<1>7. /\ deliveries' \in Seq(DeliveryType) /\ DOMAIN deliveries' = DOMAIN deliveries
      /\ deliveries'[Depth] = g /\ deliveries[Depth] = Innermost
      /\ \A d \in DOMAIN deliveries :
           deliveries'[d].jobs = deliveries[d].jobs /\ (d # Depth => deliveries'[d] = deliveries[d])
  BY <1>1, <1>3, Moved DEF Innermost
<1>8. got \in [Sinks -> Seq(Nat)] /\ got[s] \in Seq(Nat) /\ Len(got[s]) \in Nat
      /\ DOMAIN got[s] = 1..Len(got[s])
  BY <1>1, <1>5 DEF LogTypeOK
<1>9. /\ got' \in [Sinks -> Seq(Nat)] /\ DOMAIN got'[s] = 1..Len(got[s]) + 1
      /\ \A k \in DOMAIN got[s] : got'[s][k] = got[s][k]
      /\ got'[s][Len(got[s]) + 1] = r
      /\ \A x \in Sinks \ {s} : got'[x] = got[x]
  <2>1. got'[s] = Append(got[s], r) /\ \A x \in Sinks \ {s} : got'[x] = got[x]
    BY <1>1, <1>5, <1>8
  <2>2. /\ Append(got[s], r) \in Seq(Nat) /\ Len(Append(got[s], r)) = Len(got[s]) + 1
        /\ \A k \in 1..Len(got[s]) : Append(got[s], r)[k] = got[s][k]
        /\ Append(got[s], r)[Len(got[s]) + 1] = r
    BY <1>5, <1>8, AppendProperties
  <2>3. DOMAIN Append(got[s], r) = 1..Len(got[s]) + 1
    BY <2>2, LenProperties
  <2>4. got' \in [Sinks -> Seq(Nat)]
    BY <1>1, <1>5, <1>8, <2>2
  <2> QED BY <1>8, <2>1, <2>2, <2>3, <2>4
<1>10. /\ r \in 1..Len(level) /\ r \notin evicted
       /\ Depth # 1 => r \notin quietly
       /\ \A k \in DOMAIN got[s] : got[s][k] # r /\ (Depth = 1 /\ got[s][k] \in quietly => got[s][k] < r)
  <2>1. s = Innermost.jobs[n].sink /\ r = Innermost.jobs[n].record
    BY <1>4 DEF s, r
  <2>2. n \in DOMAIN deliveries[Depth].jobs /\ n \in ToDo(deliveries[Depth])
        /\ s = deliveries[Depth].jobs[n].sink /\ r = deliveries[Depth].jobs[n].record
    BY <1>4, <1>6, <1>7, <2>1
  <2>3. r \in 1..Len(level) /\ r \notin evicted /\ (Depth # 1 => r \notin quietly)
    BY <1>1, <1>2, <2>2 DEF FramesOK
  <2>4. \A k \in DOMAIN got[s] : got[s][k] # r /\ (Depth = 1 /\ got[s][k] \in quietly => got[s][k] < r)
    BY <1>1, <1>2, <2>2 DEF DueOK
  <2> QED BY <2>3, <2>4
<1>11. LogTypeOK'
  BY <1>1, <1>7, <1>9 DEF LogTypeOK
<1>12. FramesOK'
  BY <1>1, <1>3, MovedFramesOK
<1>13. GotOK'
  <2>1. ASSUME NEW x \in Sinks, NEW i \in DOMAIN got'[x]
        PROVE  /\ got'[x][i] \in 1..Len(level) /\ got'[x][i] \notin evicted
               /\ \A j \in DOMAIN got'[x] : got'[x][i] = got'[x][j] => i = j
    <3>1. CASE x # s
      BY <1>1, <1>9, <3>1 DEF GotOK
    <3>2. CASE x = s
      <4>1. \A k \in DOMAIN got'[s] : k \in DOMAIN got[s] \/ k = Len(got[s]) + 1
        BY <1>8, <1>9
      <4>2. \A k \in DOMAIN got[s] : /\ got[s][k] \in 1..Len(level) /\ got[s][k] \notin evicted
                                     /\ \A j \in DOMAIN got[s] : got[s][k] = got[s][j] => k = j
        BY <1>1, <1>5 DEF GotOK
      <4> QED BY <1>9, <1>10, <3>2, <4>1, <4>2
    <3> QED BY <3>1, <3>2
  <2> QED BY <1>1, <2>1 DEF GotOK
<1>14. Ascending'
  <2>1. ASSUME NEW x \in Sinks, NEW i \in DOMAIN got'[x], NEW j \in DOMAIN got'[x],
               i < j, got'[x][i] \in quietly, got'[x][j] \in quietly
        PROVE  got'[x][i] < got'[x][j]
    <3>1. CASE x # s
      BY <1>1, <1>9, <2>1, <3>1 DEF Ascending
    <3>2. CASE x = s
      <4>1. i \in DOMAIN got[s] /\ (j \in DOMAIN got[s] \/ j = Len(got[s]) + 1)
        BY <1>8, <1>9, <2>1, <3>2
      <4>2. CASE j \in DOMAIN got[s]
        BY <1>1, <1>5, <1>9, <2>1, <3>2, <4>1, <4>2 DEF Ascending
      <4>3. CASE j = Len(got[s]) + 1
        <5>1. Depth = 1
          BY <1>9, <1>10, <2>1, <3>2, <4>3
        <5> QED BY <1>9, <1>10, <2>1, <3>2, <4>1, <4>3, <5>1
      <4> QED BY <4>1, <4>2, <4>3
    <3> QED BY <3>1, <3>2
  <2> QED BY <1>1, <2>1 DEF Ascending
<1>15. DueOK'
  <2>1. ASSUME NEW d \in DOMAIN deliveries', NEW i \in ToDo(deliveries'[d]),
               NEW k \in DOMAIN got'[deliveries'[d].jobs[i].sink]
        PROVE  LET job == deliveries'[d].jobs[i] IN
               /\ got'[job.sink][k] # job.record
               /\ d = 1 /\ got'[job.sink][k] \in quietly => got'[job.sink][k] < job.record
    <3> DEFINE job == deliveries[d].jobs[i]
    <3>1. /\ d \in DOMAIN deliveries /\ i \in ToDo(deliveries[d]) /\ deliveries'[d].jobs[i] = job
          /\ i \in DOMAIN deliveries[d].jobs
      BY <1>6, <1>7, <2>1 DEF ToDo
    <3>2. \A m \in DOMAIN got[job.sink] :
            /\ got[job.sink][m] # job.record
            /\ d = 1 /\ got[job.sink][m] \in quietly => got[job.sink][m] < job.record
      BY <1>1, <3>1 DEF DueOK
    <3>3. job.sink \in Sinks
      <4>1. deliveries[d] \in DeliveryType
        BY <1>1, <3>1 DEF LogTypeOK
      <4>2. deliveries[d].jobs \in Jobs
        BY <4>1 DEF DeliveryType
      <4> QED BY <3>1, <4>2, JobsAre
    <3>4. CASE job.sink # s
      BY <1>9, <2>1, <3>1, <3>2, <3>3, <3>4
    <3>5. CASE job.sink = s
      <4>1. k \in DOMAIN got[s] \/ k = Len(got[s]) + 1
        BY <1>8, <1>9, <2>1, <3>1, <3>5
      <4>2. CASE k \in DOMAIN got[s]
        BY <1>9, <3>1, <3>2, <3>5, <4>2
      <4>3. CASE k = Len(got[s]) + 1
        <5>1. r = deliveries[Depth].jobs[n].record /\ s = deliveries[Depth].jobs[n].sink
              /\ n \in DOMAIN deliveries[Depth].jobs
          BY <1>4, <1>7 DEF s, r
        <5>2. r # job.record /\ (d = 1 /\ r \in quietly => r < job.record)
          <6>1. CASE d = Depth
            <7>1. n < i
              BY <1>6, <1>7, <2>1, <6>1
            <7>2. r < job.record
              BY <1>1, <3>1, <3>5, <5>1, <6>1, <7>1 DEF FramesOK
            <7>3. job.record \in 1..Len(level)
              BY <1>1, <3>1 DEF FramesOK
            <7> QED BY <1>10, <7>2, <7>3
          <6>2. CASE d # Depth
            <7>1. d < Depth /\ d \in Nat
              BY <1>1, <3>1, <6>2 DEF LogTypeOK, Depth
            <7>2. job.record < r
              BY <1>1, <1>2, <3>1, <5>1, <7>1 DEF FramesOK
            <7>3. job.record \in 1..Len(level) /\ d \in 1..Depth
              BY <1>1, <3>1 DEF FramesOK, LogTypeOK, Depth
            <7> QED BY <1>10, <6>2, <7>1, <7>2, <7>3
          <6> QED BY <6>1, <6>2
        <5> QED BY <1>9, <3>1, <3>5, <4>3, <5>2
      <4> QED BY <4>1, <4>2, <4>3
    <3> QED BY <3>4, <3>5
  <2> QED BY <1>1, <2>1 DEF DueOK
<1>16. WantedOK'
  <2>1. ASSUME NEW q \in DOMAIN level, NEW x \in wanted[q]
        PROVE  level[q] >= Interest[x] /\ (HasGot(x, q)' \/ IsDue(x, q)')
    <3>1. level[q] >= Interest[x] /\ (HasGot(x, q) \/ IsDue(x, q)) /\ x \in Sinks
      BY <1>1, <2>1 DEF WantedOK, LogTypeOK
    <3>2. CASE HasGot(x, q)
      <4>1. PICK k \in DOMAIN got[x] : got[x][k] = q
        BY <3>2 DEF HasGot
      <4>2. k \in DOMAIN got'[x] /\ got'[x][k] = q
        <5>1. CASE x = s
          <6>1. k \in DOMAIN got[s] /\ got[s][k] = q
            BY <4>1, <5>1
          <6>2. \A m \in 1..Len(got[s]) : m \in 1..Len(got[s]) + 1
            BY <1>8
          <6> QED BY <1>8, <1>9, <5>1, <6>1, <6>2
        <5>2. CASE x # s
          BY <1>9, <3>1, <4>1, <5>2
        <5> QED BY <5>1, <5>2
      <4> QED BY <3>1, <4>2 DEF HasGot
    <3>3. CASE IsDue(x, q)
      <4>0. PICK d \in DOMAIN deliveries : \E i \in ToDo(deliveries[d]) :
              deliveries[d].jobs[i].sink = x /\ deliveries[d].jobs[i].record = q
        BY <3>3 DEF IsDue
      <4>1. PICK i \in ToDo(deliveries[d]) :
              deliveries[d].jobs[i].sink = x /\ deliveries[d].jobs[i].record = q
        BY <4>0
      <4>2. CASE d = Depth /\ i = n
        <5>1. x = s /\ q = r
          BY <1>4, <1>7, <4>1, <4>2 DEF s, r
        <5>2. Len(got[s]) + 1 \in DOMAIN got'[s]
          BY <1>8, <1>9
        <5> QED BY <1>9, <3>1, <5>1, <5>2 DEF HasGot
      <4>3. CASE ~(d = Depth /\ i = n)
        <5>1. d \in DOMAIN deliveries' /\ i \in ToDo(deliveries'[d])
              /\ deliveries'[d].jobs = deliveries[d].jobs
          BY <1>6, <1>7, <4>1, <4>3
        <5> QED BY <3>1, <4>1, <5>1 DEF IsDue
      <4> QED BY <4>2, <4>3
    <3> QED BY <3>1, <3>2, <3>3
  <2> QED BY <1>1, <2>1 DEF WantedOK
<1>17. SinksOK' /\ BufferOK'
  <2>1. SinksOK'
    BY <1>1 DEF LogInv, SinksOK, Members, Recomputed
  <2>2. replayed
    <3>1. ~replayed => deliveries = <<>>
      BY DEF LogInv, BufferOK
    <3> QED BY <1>1, <3>1 DEF Depth
  <2>3. BufferOK'
    BY <1>1, <2>2 DEF LogInv, BufferOK
  <2> QED BY <2>1, <2>3
<1> QED BY <1>11, <1>12, <1>13, <1>14, <1>15, <1>16, <1>17 DEF LogInv

LEMMA LevelsAre ==
  ASSUME LogConstants, LogTypeOK
  PROVE  /\ DOMAIN level = 1..Len(level) /\ Len(level) \in Nat /\ DOMAIN wanted = DOMAIN level
         /\ \A r \in DOMAIN level : level[r] \in Levels /\ level[r] \in Nat /\ wanted[r] \subseteq Sinks
         /\ \A s \in Sinks : Interest[s] \in Nat
<1>1. DOMAIN level = 1..Len(level) /\ Len(level) \in Nat /\ level \in Seq(Levels)
  BY LenProperties DEF LogTypeOK
<1>2. DOMAIN wanted = 1..Len(level) /\ wanted \in Seq(SUBSET Sinks)
  BY LenProperties DEF LogTypeOK
<1>3. \A r \in 1..Len(level) : level[r] \in Levels /\ wanted[r] \in SUBSET Sinks
  BY <1>1, <1>2, ElementOfSeq
<1>4. Levels \subseteq Nat /\ \A s \in Sinks : Interest[s] \in Nat
  BY DEF LogConstants
<1> QED BY <1>1, <1>2, <1>3, <1>4

\* A step that delivers nothing and moves the innermost frame past jobs that nobody
\* waits for.
LEMMA PassKeeps ==
  ASSUME LogInv, Depth > 0, NEW g \in DeliveryType, Replace(g),
         g.jobs = Innermost.jobs, ToDo(g) \subseteq ToDo(Innermost),
         \A i \in ToDo(Innermost) \ ToDo(g) :
           level[Innermost.jobs[i].record] < Interest[Innermost.jobs[i].sink],
         LogConstants,
         UNCHANGED <<sinks, level, threshold, parked, evicted, replayed, got, registered, wanted, quietly>>
  PROVE  LogInv'
<1>1. /\ LogTypeOK /\ FramesOK /\ GotOK /\ DueOK /\ WantedOK /\ Ascending
      /\ UNCHANGED <<sinks, level, threshold, parked, evicted, replayed, got, registered, wanted, quietly>>
  BY DEF LogInv
<1>2. /\ deliveries' \in Seq(DeliveryType) /\ DOMAIN deliveries' = DOMAIN deliveries
      /\ deliveries'[Depth] = g /\ deliveries[Depth] = Innermost
      /\ \A d \in DOMAIN deliveries :
           deliveries'[d].jobs = deliveries[d].jobs /\ (d # Depth => deliveries'[d] = deliveries[d])
  BY <1>1, Moved DEF Innermost
<1>3. \A d \in DOMAIN deliveries : ToDo(deliveries'[d]) \subseteq ToDo(deliveries[d])
  BY <1>2
<1>4. LogTypeOK'
  BY <1>1, <1>2 DEF LogTypeOK
<1>5. FramesOK'
  BY <1>1, MovedFramesOK
<1>6. GotOK' /\ Ascending'
  BY <1>1 DEF GotOK, Ascending
<1>7. DueOK'
  <2>1. ASSUME NEW d \in DOMAIN deliveries', NEW i \in ToDo(deliveries'[d]),
               NEW k \in DOMAIN got[deliveries'[d].jobs[i].sink]
        PROVE  LET job == deliveries'[d].jobs[i] IN
               /\ got[job.sink][k] # job.record
               /\ d = 1 /\ got[job.sink][k] \in quietly => got[job.sink][k] < job.record
    <3>1. d \in DOMAIN deliveries /\ i \in ToDo(deliveries[d]) /\ deliveries'[d].jobs = deliveries[d].jobs
      BY <1>2, <1>3
    <3> QED BY <1>1, <2>1, <3>1 DEF DueOK
  <2> QED BY <1>1, <2>1 DEF DueOK
<1>8. WantedOK'
  <2>1. ASSUME NEW r \in DOMAIN level, NEW s \in wanted[r]
        PROVE  level[r] >= Interest[s] /\ (HasGot(s, r)' \/ IsDue(s, r)')
    <3>1. level[r] >= Interest[s] /\ (HasGot(s, r) \/ IsDue(s, r))
      BY <1>1 DEF WantedOK
    <3>2. CASE HasGot(s, r)
      BY <1>1, <3>1, <3>2 DEF HasGot
    <3>3. CASE IsDue(s, r)
      <4>1. PICK d \in DOMAIN deliveries : \E i \in ToDo(deliveries[d]) :
              deliveries[d].jobs[i].sink = s /\ deliveries[d].jobs[i].record = r
        BY <3>3 DEF IsDue
      <4>2. PICK i \in ToDo(deliveries[d]) :
              deliveries[d].jobs[i].sink = s /\ deliveries[d].jobs[i].record = r
        BY <4>1
      <4>3. i \in ToDo(deliveries'[d])
        <5>1. level[r] \in Nat /\ Interest[s] \in Nat
          BY <1>1, LevelsAre
        <5> QED BY <1>2, <3>1, <4>2, <5>1
      <4> QED BY <1>2, <3>1, <4>2, <4>3 DEF IsDue
    <3> QED BY <3>1, <3>2, <3>3
  <2> QED BY <1>1, <2>1 DEF WantedOK
<1>9. SinksOK'
  BY <1>1 DEF LogInv, SinksOK, Members
<1>10. BufferOK'
  <2>1. ~replayed => deliveries = <<>>
    BY DEF LogInv, BufferOK
  <2>2. replayed
    BY <2>1 DEF Depth
  <2> QED BY <1>1, <2>2 DEF LogInv, BufferOK
<1> QED BY <1>4, <1>5, <1>6, <1>7, <1>8, <1>9, <1>10 DEF LogInv

\* A job that nobody wants done is passed over, and one that is done is over.
LEMMA SkipKeeps == ASSUME LogConstants, LogInv, Skip \/ GiveEnds PROVE LogInv'
<1> DEFINE n == Innermost.next
<1>1. LogTypeOK /\ Depth > 0
  BY DEF LogInv, Skip, Waits, GiveEnds
<1>2. /\ Innermost \in DeliveryType /\ n \in Nat \ {0} /\ n + 1 \in Nat \ {0}
      /\ DOMAIN Innermost.jobs = 1..Len(Innermost.jobs)
      /\ \A i \in DOMAIN Innermost.jobs :
           Innermost.jobs[i].sink \in Sinks /\ Innermost.jobs[i].record \in Nat
  BY <1>1, InnermostIs
<1>3. CASE Skip
  <2> DEFINE g == [Innermost EXCEPT !.next = @ + 1]
  <2>1. /\ ~Innermost.inside /\ ~Wants /\ Replace(g)
        /\ n <= Len(Innermost.jobs)
        /\ UNCHANGED <<sinks, level, threshold, parked, evicted, replayed, got, registered, wanted, quietly>>
    BY <1>3 DEF Skip, Waits
  <2>2. /\ g \in DeliveryType /\ g.jobs = Innermost.jobs /\ g.next = n + 1 /\ g.inside = FALSE
    BY <1>2, <2>1 DEF DeliveryType
  <2>3. ToDo(g) \subseteq ToDo(Innermost) /\ ToDo(Innermost) \ ToDo(g) \subseteq {n}
    BY <1>2, <2>1, <2>2 DEF ToDo
  <2>4. n \in DOMAIN Innermost.jobs
    BY <1>1, <1>2, <2>1, InnermostIs
  <2>5. level[Innermost.jobs[n].record] < Interest[Innermost.jobs[n].sink]
    <3>1. Innermost.jobs[n].record \in 1..Len(level)
      BY <1>1, <2>4, InnermostIs DEF LogInv, FramesOK, Innermost
    <3>2. level[Innermost.jobs[n].record] \in Nat /\ Interest[Innermost.jobs[n].sink] \in Nat
      BY <1>1, <1>2, <2>4, <3>1, LevelsAre
    <3> QED BY <2>1, <3>2 DEF Wants, Job
  <2> HIDE DEF g, n
  <2> QED BY <1>1, <2>1, <2>2, <2>3, <2>5, PassKeeps
<1>4. CASE GiveEnds
  <2> DEFINE g == [Innermost EXCEPT !.inside = FALSE, !.next = @ + 1]
  <2>1. /\ Innermost.inside /\ Replace(g)
        /\ UNCHANGED <<sinks, level, threshold, parked, evicted, replayed, got, registered, wanted, quietly>>
    BY <1>4 DEF GiveEnds
  <2>2. /\ g \in DeliveryType /\ g.jobs = Innermost.jobs /\ g.next = n + 1 /\ g.inside = FALSE
    BY <1>2 DEF DeliveryType
  <2>3. ToDo(g) = ToDo(Innermost)
    BY <1>2, <2>1, <2>2 DEF ToDo
  <2> HIDE DEF g
  <2> QED BY <1>1, <2>1, <2>2, <2>3, PassKeeps
<1> QED BY <1>3, <1>4

\* A stack of frames of which all is left that anybody waits for.
Under(F, n) ==
    /\ n \in 0..Depth /\ F \in Seq(DeliveryType) /\ DOMAIN F = 1..n
    /\ \A d \in 1..n : F[d] = deliveries[d]

LEMMA UnderIs ==
  ASSUME LogTypeOK, NEW F, NEW n, Under(F, n)
  PROVE  /\ n \in Nat /\ Depth \in Nat /\ DOMAIN deliveries = 1..Depth
         /\ \A d \in DOMAIN F : d \in DOMAIN deliveries /\ F[d] = deliveries[d]
         /\ deliveries = <<>> => F = <<>>
         /\ n = 0 => F = <<>>
<1>1. Depth \in Nat /\ DOMAIN deliveries = 1..Depth
  BY LenProperties DEF LogTypeOK, Depth
<1>2. n \in Nat /\ \A d \in 1..n : d \in 1..Depth
  BY <1>1 DEF Under
<1>3. n = 0 => F = <<>>
  <2> SUFFICES ASSUME n = 0 PROVE F = <<>>
    OBVIOUS
  <2>1. F \in Seq(DeliveryType) /\ 1..Len(F) = {}
    BY LenProperties DEF Under
  <2>2. F # <<>> => Len(F) \in Nat \ {0}
    BY <2>1, EmptySeq
  <2>3. F # <<>> => 1 \in 1..Len(F)
    <3>1. \A k \in Nat \ {0} : 1 \in 1..k
      OBVIOUS
    <3> QED BY <2>2, <3>1
  <2> QED BY <2>1, <2>3
<1>4. deliveries = <<>> => n = 0
  BY <1>1 DEF Under, Depth
<1> QED BY <1>1, <1>2, <1>3, <1>4 DEF Under

\* Frames go, and with them what nobody waits for any longer.
LEMMA TrimKeeps ==
  ASSUME LogConstants, LogInv, NEW n, Under(deliveries', n),
         UNCHANGED <<sinks, level, threshold, parked, evicted, replayed, got, quietly>>,
         registered' \in SUBSET Sinks, wanted' \in Seq(SUBSET Sinks), Len(wanted') = Len(level),
         \A r \in DOMAIN level : \A s \in wanted'[r] :
           /\ s \in wanted[r]
           /\ \A d \in DOMAIN deliveries : d > n => \A i \in ToDo(deliveries[d]) :
                ~(deliveries[d].jobs[i].sink = s /\ deliveries[d].jobs[i].record = r)
  PROVE  LogInv'
<1>1. /\ LogTypeOK /\ SinksOK /\ BufferOK /\ FramesOK /\ GotOK /\ DueOK /\ WantedOK /\ Ascending
      /\ UNCHANGED <<sinks, level, threshold, parked, evicted, replayed, got, quietly>>
  BY DEF LogInv
<1>2. /\ n \in Nat /\ DOMAIN deliveries' = 1..n /\ deliveries' \in Seq(DeliveryType)
      /\ \A d \in DOMAIN deliveries' : d \in DOMAIN deliveries /\ deliveries'[d] = deliveries[d]
      /\ deliveries = <<>> => deliveries' = <<>>
      /\ DOMAIN deliveries \subseteq Nat
  <2>1. /\ n \in Nat /\ Depth \in Nat /\ DOMAIN deliveries = 1..Depth
        /\ \A d \in DOMAIN deliveries' : d \in DOMAIN deliveries /\ deliveries'[d] = deliveries[d]
        /\ deliveries = <<>> => deliveries' = <<>>
    BY <1>1, UnderIs
  <2>2. DOMAIN deliveries' = 1..n /\ deliveries' \in Seq(DeliveryType)
    BY DEF Under
  <2> QED BY <2>1, <2>2
<1>3. LogTypeOK'
  BY <1>1, <1>2 DEF LogTypeOK
<1>4. SinksOK'
  BY <1>1 DEF SinksOK, Members
<1>5. BufferOK'
  BY <1>1, <1>2 DEF BufferOK, Kept
<1>6. FramesOK'
  BY <1>1, <1>2 DEF FramesOK
<1>7. GotOK' /\ Ascending'
  BY <1>1 DEF GotOK, Ascending
<1>8. DueOK'
  <2>1. ASSUME NEW d \in DOMAIN deliveries', NEW i \in ToDo(deliveries'[d]),
               NEW k \in DOMAIN got[deliveries'[d].jobs[i].sink]
        PROVE  LET job == deliveries'[d].jobs[i] IN
               /\ got[job.sink][k] # job.record
               /\ d = 1 /\ got[job.sink][k] \in quietly => got[job.sink][k] < job.record
    <3>1. d \in DOMAIN deliveries /\ deliveries'[d] = deliveries[d]
      BY <1>2
    <3> QED BY <1>1, <2>1, <3>1 DEF DueOK
  <2> QED BY <1>1, <2>1 DEF DueOK
<1>9. WantedOK'
  <2>1. ASSUME NEW r \in DOMAIN level, NEW s \in wanted'[r]
        PROVE  level[r] >= Interest[s] /\ (HasGot(s, r)' \/ IsDue(s, r)')
    <3>1. s \in wanted[r] /\ level[r] >= Interest[s] /\ (HasGot(s, r) \/ IsDue(s, r))
      BY <1>1 DEF WantedOK
    <3>2. CASE HasGot(s, r)
      BY <1>1, <3>1, <3>2 DEF HasGot
    <3>3. CASE IsDue(s, r)
      <4>1. PICK d \in DOMAIN deliveries : \E i \in ToDo(deliveries[d]) :
              deliveries[d].jobs[i].sink = s /\ deliveries[d].jobs[i].record = r
        BY <3>3 DEF IsDue
      <4>2. ~(d > n)
        BY <4>1
      <4>3. d \in 1..n
        <5>1. d \in Nat /\ d # 0
          BY <1>1, <4>1, LenProperties DEF LogTypeOK
        <5> QED BY <1>2, <4>2, <5>1
      <4> QED BY <1>2, <3>1, <4>1, <4>3 DEF IsDue
    <3> QED BY <3>1, <3>2, <3>3
  <2> QED BY <1>1, <2>1 DEF WantedOK
<1> QED BY <1>3, <1>4, <1>5, <1>6, <1>7, <1>8, <1>9 DEF LogInv

\* The stack without its innermost frame.
LEMMA OuterIsBase ==
  ASSUME LogTypeOK, Depth > 0
  PROVE  /\ Under(Outer, Depth - 1) /\ Depth \in Nat
         /\ \A d \in DOMAIN deliveries : d > Depth - 1 => deliveries[d] = Innermost
<1>1. Innermost \in DeliveryType /\ deliveries \in Seq(DeliveryType)
  BY InnermostIs DEF LogTypeOK
<1>2. /\ Depth \in Nat /\ DOMAIN deliveries = 1..Depth
      /\ Outer \in Seq(DeliveryType) /\ DOMAIN Outer = 1..Depth - 1
      /\ \A d \in 1..Depth - 1 : Outer[d] = deliveries[d]
  BY <1>1, Stacked
<1>3. \A d \in 1..Depth : d > Depth - 1 => d = Depth
  BY <1>2
<1>4. Depth - 1 \in 0..Depth
  BY <1>2
<1> QED BY <1>2, <1>3, <1>4 DEF Under, Innermost

\* Whom an error handler that raises cuts off hears of it.
LEMMA RaiseKeeps == ASSUME LogConstants, LogInv, HandlerRaises PROVE LogInv'
<1>1. /\ LogTypeOK /\ Depth > 0 /\ deliveries' = Outer
      /\ wanted' = [r \in DOMAIN wanted |->
            {s \in wanted[r] : \A i \in Innermost.next..Len(Innermost.jobs) :
                                 Innermost.jobs[i] # [sink |-> s, record |-> r]}]
      /\ UNCHANGED <<sinks, level, threshold, parked, evicted, replayed, got, registered, quietly>>
  BY DEF LogInv, HandlerRaises
<1>2. Under(deliveries', Depth - 1)
      /\ \A d \in DOMAIN deliveries : d > Depth - 1 => deliveries[d] = Innermost
  BY <1>1, OuterIsBase
<1>3. /\ DOMAIN level = 1..Len(level) /\ Len(level) \in Nat /\ DOMAIN wanted = DOMAIN level
      /\ \A r \in DOMAIN level : wanted[r] \subseteq Sinks
  BY <1>1, LevelsAre
<1>4. /\ Innermost.jobs \in Jobs /\ Innermost.next \in Nat
      /\ DOMAIN Innermost.jobs = 1..Len(Innermost.jobs) /\ Len(Innermost.jobs) \in Nat
  BY <1>1, InnermostIs DEF DeliveryType
<1>5. wanted' \in Seq(SUBSET Sinks) /\ Len(wanted') = Len(level)
  <2>1. wanted' \in [1..Len(level) -> SUBSET Sinks]
    BY <1>1, <1>3
  <2> QED BY <1>3, <2>1
<1>6. ASSUME NEW r \in DOMAIN level, NEW s \in wanted'[r]
      PROVE  /\ s \in wanted[r]
             /\ \A d \in DOMAIN deliveries : d > Depth - 1 => \A i \in ToDo(deliveries[d]) :
                  ~(deliveries[d].jobs[i].sink = s /\ deliveries[d].jobs[i].record = r)
  <2>1. /\ s \in wanted[r]
        /\ \A i \in Innermost.next..Len(Innermost.jobs) :
             Innermost.jobs[i] # [sink |-> s, record |-> r]
    BY <1>1, <1>3
  <2>2. ASSUME NEW i \in ToDo(Innermost),
               Innermost.jobs[i].sink = s, Innermost.jobs[i].record = r
        PROVE  FALSE
    <3>1. i \in DOMAIN Innermost.jobs /\ i \in Innermost.next..Len(Innermost.jobs)
      BY <1>4 DEF ToDo
    <3>2. Innermost.jobs[i] \in [sink : Sinks, record : Nat]
      BY <1>4, <3>1, ElementOfSeq DEF Jobs
    <3>3. Innermost.jobs[i] = [sink |-> s, record |-> r]
      BY <2>2, <3>2
    <3> QED BY <2>1, <3>1, <3>3
  <2> QED BY <1>2, <2>1, <2>2
<1>7. registered' \in SUBSET Sinks
  BY <1>1 DEF LogTypeOK
<1> QED BY <1>1, <1>2, <1>5, <1>6, <1>7, TrimKeeps

\* The frame of a record that is written for the sinks there are.
LEMMA RecordFrame ==
  ASSUME LogTypeOK, NEW r \in Nat, NEW adds \in SUBSET Sinks
  PROVE  LET f == Frame([i \in DOMAIN sinks |-> [sink |-> sinks[i], record |-> r]], adds, FALSE) IN
         /\ f \in DeliveryType /\ DOMAIN f.jobs = DOMAIN sinks /\ ToDo(f) = DOMAIN sinks
         /\ \A i \in DOMAIN sinks : f.jobs[i].sink = sinks[i] /\ f.jobs[i].record = r
<1> DEFINE jobs == [i \in DOMAIN sinks |-> [sink |-> sinks[i], record |-> r]]
           f == Frame(jobs, adds, FALSE)
<1>1. DOMAIN sinks = 1..Len(sinks) /\ Len(sinks) \in Nat /\ \A i \in 1..Len(sinks) : sinks[i] \in Sinks
  BY LenProperties, ElementOfSeq DEF LogTypeOK
<1>2. jobs \in [1..Len(sinks) -> [sink : Sinks, record : Nat]]
  BY <1>1
<1>3. jobs \in Jobs
  BY <1>1, <1>2 DEF Jobs
<1>4. DOMAIN jobs = DOMAIN sinks /\ \A i \in DOMAIN sinks : jobs[i].sink = sinks[i] /\ jobs[i].record = r
  OBVIOUS
<1> HIDE DEF jobs
<1>5. f \in DeliveryType /\ f.jobs = jobs /\ f.next = 1 /\ f.inside = FALSE
  BY <1>3 DEF Frame, DeliveryType
<1> HIDE DEF f
<1>6. ToDo(f) = DOMAIN sinks
  <2>1. \A i \in DOMAIN sinks : 1 <= i
    BY <1>1
  <2> QED BY <1>4, <1>5, <2>1 DEF ToDo
<1> QED BY <1>4, <1>5, <1>6 DEF f, jobs

\* A record that is built is the last of all.
LEMMA Written ==
  ASSUME LogConstants, LogTypeOK, NEW l \in Levels,
         level' = Append(level, l), wanted' = Append(wanted, Readers(l))
  PROVE  LET r == Len(level) + 1 IN
         /\ level' \in Seq(Levels) /\ DOMAIN level' = 1..r /\ Len(level') = r /\ level'[r] = l
         /\ \A q \in DOMAIN level : level'[q] = level[q]
         /\ \A q \in 1..r : q \in DOMAIN level \/ q = r
         /\ wanted' \in Seq(SUBSET Sinks) /\ Len(wanted') = r /\ wanted'[r] = Readers(l)
         /\ \A q \in DOMAIN level : wanted'[q] = wanted[q]
<1> DEFINE r == Len(level) + 1
<1>1. /\ DOMAIN level = 1..Len(level) /\ Len(level) \in Nat /\ DOMAIN wanted = DOMAIN level
      /\ level \in Seq(Levels) /\ wanted \in Seq(SUBSET Sinks) /\ Len(wanted) = Len(level)
  BY LevelsAre DEF LogTypeOK
<1>2. /\ level' \in Seq(Levels) /\ DOMAIN level' = 1..r /\ Len(level') = r /\ level'[r] = l
      /\ \A q \in DOMAIN level : level'[q] = level[q]
      /\ \A q \in 1..r : q \in DOMAIN level \/ q = r
  <2>1. /\ Append(level, l) \in Seq(Levels) /\ Len(Append(level, l)) = r
        /\ \A q \in 1..Len(level) : Append(level, l)[q] = level[q]
        /\ Append(level, l)[r] = l
    BY <1>1, AppendProperties
  <2>2. DOMAIN Append(level, l) = 1..r
    BY <2>1, LenProperties
  <2> QED BY <1>1, <2>1, <2>2
<1>3. /\ wanted' \in Seq(SUBSET Sinks) /\ Len(wanted') = r /\ wanted'[r] = Readers(l)
      /\ \A q \in DOMAIN level : wanted'[q] = wanted[q]
  <2>1. Readers(l) \in SUBSET Sinks
    <3>1. \A i \in DOMAIN sinks : sinks[i] \in Sinks
      BY LenProperties, ElementOfSeq DEF LogTypeOK
    <3> QED BY <3>1 DEF Readers, Members
  <2>2. /\ Append(wanted, Readers(l)) \in Seq(SUBSET Sinks)
        /\ Len(Append(wanted, Readers(l))) = Len(wanted) + 1
        /\ \A q \in 1..Len(wanted) : Append(wanted, Readers(l))[q] = wanted[q]
        /\ Append(wanted, Readers(l))[Len(wanted) + 1] = Readers(l)
    BY <1>1, <2>1, AppendProperties
  <2> QED BY <1>1, <2>2
<1> QED BY <1>2, <1>3

\* A record with readers goes on the stack (write, _dispatch).
LEMMA DispatchKeeps ==
  ASSUME LogConstants, LogInv, NEW F, NEW n, Under(F, n), NEW l \in Levels, NEW adds \in SUBSET Sinks,
         \A d \in DOMAIN deliveries : d > n => ToDo(deliveries[d]) = {},
         ~(l < threshold), sinks # <<>>, Write(l, F, adds), UNCHANGED <<sinks, threshold, replayed, got>>
  PROVE  LogInv'
<1> DEFINE r == Len(level) + 1
           f == Frame([i \in DOMAIN sinks |-> [sink |-> sinks[i], record |-> r]], adds, FALSE)
<1>1. /\ LogTypeOK /\ SinksOK /\ BufferOK /\ FramesOK /\ GotOK /\ DueOK /\ WantedOK /\ Ascending
      /\ level' = Append(level, l) /\ wanted' = Append(wanted, Readers(l))
      /\ quietly' = IF F = <<>> THEN quietly \cup {r} ELSE quietly
      /\ deliveries' = Append(F, f)
      /\ UNCHANGED <<sinks, threshold, replayed, got, parked, evicted, registered>>
  BY DEF LogInv, Write
<1>2. /\ DOMAIN level = 1..Len(level) /\ Len(level) \in Nat /\ DOMAIN wanted = DOMAIN level
      /\ \A q \in DOMAIN level : level[q] \in Nat /\ wanted[q] \subseteq Sinks
      /\ r \in Nat
  BY <1>1, LevelsAre
<1>3. /\ f \in DeliveryType /\ DOMAIN f.jobs = DOMAIN sinks /\ ToDo(f) = DOMAIN sinks
      /\ \A i \in DOMAIN sinks : f.jobs[i].sink = sinks[i] /\ f.jobs[i].record = r
  BY <1>1, <1>2, RecordFrame
<1> HIDE DEF f
<1>4. /\ n \in Nat /\ Depth \in Nat /\ DOMAIN deliveries = 1..Depth
      /\ \A d \in DOMAIN F : d \in DOMAIN deliveries /\ F[d] = deliveries[d]
      /\ n = 0 => F = <<>>
  BY <1>1, UnderIs
<1>5. F \in Seq(DeliveryType) /\ DOMAIN F = 1..n /\ Len(F) = n
  <2>1. F \in Seq(DeliveryType) /\ DOMAIN F = 1..n
    BY DEF Under
  <2> QED BY <1>4, <2>1
<1>6. /\ deliveries' \in Seq(DeliveryType) /\ DOMAIN deliveries' = 1..n + 1
      /\ \A d \in 1..n : d \in DOMAIN deliveries /\ deliveries'[d] = deliveries[d]
      /\ deliveries'[n + 1] = f
      /\ \A d \in 1..n + 1 : d \in 1..n \/ d = n + 1
  <2>1. /\ Append(F, f) \in Seq(DeliveryType) /\ Len(Append(F, f)) = n + 1
        /\ \A d \in 1..n : Append(F, f)[d] = F[d]
        /\ Append(F, f)[n + 1] = f
    BY <1>3, <1>5, AppendProperties
  <2>2. DOMAIN Append(F, f) = 1..n + 1
    BY <2>1, LenProperties
  <2>3. \A d \in 1..n + 1 : d \in 1..n \/ d = n + 1
    BY <1>4
  <2>4. \A d \in 1..n : d \in DOMAIN deliveries /\ F[d] = deliveries[d]
    BY <1>4, <1>5
  <2> QED BY <1>1, <2>1, <2>2, <2>3, <2>4
<1>7. /\ level' \in Seq(Levels) /\ DOMAIN level' = 1..r /\ Len(level') = r /\ level'[r] = l
      /\ \A q \in DOMAIN level : level'[q] = level[q]
      /\ \A q \in 1..r : q \in DOMAIN level \/ q = r
      /\ wanted' \in Seq(SUBSET Sinks) /\ Len(wanted') = r /\ wanted'[r] = Readers(l)
      /\ \A q \in DOMAIN level : wanted'[q] = wanted[q]
  BY <1>1, Written
<1>9. /\ \A q \in 1..Len(level) : q \in 1..r /\ q # r /\ q < r
      /\ quietly \subseteq quietly' /\ quietly' \subseteq quietly \cup {r}
      /\ n # 0 => quietly' = quietly
  <2>1. n # 0 => F # <<>>
    BY <1>4, <1>5
  <2> QED BY <1>1, <1>2, <2>1
<1> HIDE DEF r
<1>10. LogTypeOK'
  BY <1>1, <1>2, <1>6, <1>7, <1>9 DEF LogTypeOK
<1>11. SinksOK'
  BY <1>1 DEF SinksOK, Members
<1>12. BufferOK'
  <2>1. replayed
    BY <1>1 DEF BufferOK
  <2>2. evicted' \subseteq 1..Len(level') /\ quietly' \subseteq 1..Len(level')
    <3>1. evicted \subseteq 1..Len(level) /\ quietly \subseteq 1..Len(level) /\ r \in 1..r
      BY <1>1, <1>2 DEF BufferOK, r
    <3> QED BY <1>1, <1>7, <1>9, <3>1
  <2>3. parked' = <<>> /\ replayed'
    BY <1>1, <2>1 DEF BufferOK
  <2> QED BY <2>2, <2>3 DEF BufferOK
<1>13. r \notin evicted /\ r \notin quietly /\ r \in 1..r
  <2>1. r \notin 1..Len(level) /\ r \in 1..r
    BY <1>2 DEF r
  <2> QED BY <1>1, <2>1 DEF BufferOK
<1>14. \A d \in 1..n : \A i \in DOMAIN deliveries[d].jobs :
         /\ deliveries[d].jobs[i].record \in 1..Len(level)
         /\ deliveries[d].jobs[i].record \notin evicted
         /\ d # 1 => deliveries[d].jobs[i].record \notin quietly
  BY <1>1, <1>6 DEF FramesOK
<1>15. FramesOK'
  <2>1. ASSUME NEW d \in DOMAIN deliveries', NEW i \in DOMAIN deliveries'[d].jobs
        PROVE  LET q == deliveries'[d].jobs[i].record IN
               q \in 1..r /\ q \notin evicted /\ (d # 1 => q \notin quietly')
    <3>1. CASE d \in 1..n
      BY <1>6, <1>9, <1>14, <3>1
    <3>2. CASE d = n + 1
      <4>1. deliveries'[d].jobs[i].record = r
        BY <1>3, <1>6, <3>2
      <4>2. d # 1 => n # 0
        BY <3>2
      <4> QED BY <1>9, <1>13, <4>1, <4>2
    <3> QED BY <1>6, <3>1, <3>2
  <2>2. ASSUME NEW d \in DOMAIN deliveries', NEW i \in DOMAIN deliveries'[d].jobs,
               NEW j \in DOMAIN deliveries'[d].jobs, i < j,
               deliveries'[d].jobs[i].sink = deliveries'[d].jobs[j].sink
        PROVE  deliveries'[d].jobs[i].record < deliveries'[d].jobs[j].record
    <3>1. CASE d \in 1..n
      BY <1>1, <1>6, <2>2, <3>1 DEF FramesOK
    <3>2. CASE d = n + 1
      <4>1. i = j
        BY <1>1, <1>3, <1>6, <2>2, <3>2 DEF SinksOK
      <4>2. i \in Nat
        <5>1. DOMAIN sinks = 1..Len(sinks)
          BY <1>1, LenProperties DEF LogTypeOK
        <5>2. i \in DOMAIN sinks
          BY <1>3, <1>6, <2>2, <3>2
        <5> QED BY <5>1, <5>2
      <4> QED BY <2>2, <4>1, <4>2
    <3> QED BY <1>6, <3>1, <3>2
  <2>3. ASSUME NEW d \in DOMAIN deliveries', NEW e \in DOMAIN deliveries', d < e,
               NEW i \in DOMAIN deliveries'[d].jobs, NEW j \in DOMAIN deliveries'[e].jobs
        PROVE  deliveries'[d].jobs[i].record < deliveries'[e].jobs[j].record
    <3>1. d \in 1..n
      BY <1>4, <1>6, <2>3
    <3>2. CASE e \in 1..n
      BY <1>1, <1>6, <2>3, <3>1, <3>2 DEF FramesOK
    <3>3. CASE e = n + 1
      <4>1. deliveries'[e].jobs[j].record = r
        BY <1>3, <1>6, <3>3
      <4>2. deliveries'[d].jobs[i].record \in 1..Len(level)
        BY <1>6, <1>14, <3>1
      <4> QED BY <1>9, <4>1, <4>2
    <3> QED BY <1>6, <3>2, <3>3
  <2> QED BY <1>1, <1>7, <2>1, <2>2, <2>3 DEF FramesOK
<1>16. \A s \in Sinks : \A k \in DOMAIN got[s] : got[s][k] \in 1..Len(level) /\ got[s][k] # r /\ got[s][k] < r
  BY <1>1, <1>9 DEF GotOK
<1>17. GotOK' /\ Ascending'
  BY <1>1, <1>7, <1>9, <1>16 DEF GotOK, Ascending
<1>18. DueOK'
  <2>1. ASSUME NEW d \in DOMAIN deliveries', NEW i \in ToDo(deliveries'[d]),
               NEW k \in DOMAIN got[deliveries'[d].jobs[i].sink]
        PROVE  LET job == deliveries'[d].jobs[i] IN
               /\ got[job.sink][k] # job.record
               /\ d = 1 /\ got[job.sink][k] \in quietly' => got[job.sink][k] < job.record
    <3> DEFINE job == deliveries'[d].jobs[i]
    <3>1. job.sink \in Sinks
      <4>1. deliveries'[d].jobs \in Jobs
        <5>1. deliveries'[d] \in DeliveryType
          <6>1. CASE d \in 1..n
            BY <1>1, <1>6, <6>1, ElementOfSeq, LenProperties DEF LogTypeOK
          <6>2. CASE d = n + 1
            BY <1>3, <1>6, <6>2
          <6> QED BY <1>6, <6>1, <6>2
        <5> QED BY <5>1 DEF DeliveryType
      <4>2. i \in DOMAIN deliveries'[d].jobs
        BY <2>1 DEF ToDo
      <4> QED BY <4>1, <4>2, JobsAre
    <3>2. CASE d \in 1..n
      <4>1. deliveries'[d] = deliveries[d] /\ d \in DOMAIN deliveries
        BY <1>6, <3>2
      <4> QED BY <1>1, <1>9, <1>16, <2>1, <3>1, <4>1 DEF DueOK
    <3>3. CASE d = n + 1
      <4>1. job.record = r
        BY <1>3, <1>6, <2>1, <3>3
      <4> QED BY <1>16, <2>1, <3>1, <4>1
    <3> QED BY <1>6, <3>2, <3>3
  <2>2. got' = got
    BY <1>1
  <2> QED BY <2>1, <2>2 DEF DueOK
<1>19. WantedOK'
  <2>1. ASSUME NEW q \in DOMAIN level', NEW s \in wanted'[q]
        PROVE  level'[q] >= Interest[s] /\ (HasGot(s, q)' \/ IsDue(s, q)')
    <3>1. CASE q \in DOMAIN level
      <4>1. s \in wanted[q] /\ level'[q] >= Interest[s] /\ (HasGot(s, q) \/ IsDue(s, q))
        BY <1>1, <1>7, <2>1, <3>1 DEF WantedOK
      <4>2. CASE HasGot(s, q)
        BY <1>1, <4>1, <4>2 DEF HasGot
      <4>3. CASE IsDue(s, q)
        <5>1. PICK d \in DOMAIN deliveries : \E i \in ToDo(deliveries[d]) :
                deliveries[d].jobs[i].sink = s /\ deliveries[d].jobs[i].record = q
          BY <4>3 DEF IsDue
        <5>2. ~(d > n)
          BY <5>1
        <5>3. d \in 1..n
          BY <1>4, <5>2
        <5>4. d \in DOMAIN deliveries' /\ deliveries'[d] = deliveries[d]
          BY <1>4, <1>6, <5>3
        <5> QED BY <4>1, <5>1, <5>4 DEF IsDue
      <4> QED BY <4>1, <4>2, <4>3
    <3>2. CASE q = r
      <4>1. PICK i \in DOMAIN sinks : sinks[i] = s /\ l >= Interest[s]
        BY <1>7, <2>1, <3>2 DEF Readers, Members
      <4>2. n + 1 \in DOMAIN deliveries' /\ deliveries'[n + 1] = f
        BY <1>4, <1>6
      <4> QED BY <1>3, <1>7, <3>2, <4>1, <4>2 DEF IsDue
    <3> QED BY <1>7, <3>1, <3>2
  <2> QED BY <2>1 DEF WantedOK
<1> QED BY <1>10, <1>11, <1>12, <1>15, <1>17, <1>18, <1>19 DEF LogInv

\* A run of numbers, with the next one, and without the first.
LEMMA RunMembers ==
  ASSUME NEW s \in Seq(Nat), NEW b \in Nat, NEW n \in Nat, n = Len(s), Run(s, b)
  PROVE  Members(s) = (b + 1)..(b + n)
<1>1. DOMAIN s = 1..n /\ \A i \in 1..n : s[i] = b + i
  BY LenProperties DEF Run
<1>2. \A x \in (b + 1)..(b + n) : x - b \in 1..n /\ b + (x - b) = x
  OBVIOUS
<1>3. \A i \in 1..n : b + i \in (b + 1)..(b + n)
  OBVIOUS
<1>4. Members(s) \subseteq (b + 1)..(b + n)
  BY <1>1, <1>3 DEF Members
<1>5. ASSUME NEW x \in (b + 1)..(b + n) PROVE x \in Members(s)
  <2>1. x - b \in 1..n /\ s[x - b] = x
    BY <1>1, <1>2
  <2> QED BY <1>1, <2>1 DEF Members
<1> QED BY <1>4, <1>5

LEMMA RunGrows ==
  ASSUME NEW s \in Seq(Nat), NEW b \in Nat, NEW n \in Nat, n = Len(s), Run(s, b),
         NEW r, r = b + n + 1
  PROVE  Append(s, r) \in Seq(Nat) /\ Len(Append(s, r)) = n + 1 /\ Run(Append(s, r), b)
<1>0. r \in Nat
  OBVIOUS
<1>1. /\ Append(s, r) \in Seq(Nat) /\ Len(Append(s, r)) = n + 1
      /\ \A i \in 1..n : Append(s, r)[i] = s[i]
      /\ Append(s, r)[n + 1] = r
  BY <1>0, AppendProperties
<1>2. \A i \in 1..n : s[i] = b + i
  BY DEF Run
<1>3. \A i \in 1..n + 1 : i \in 1..n \/ i = n + 1
  OBVIOUS
<1>4. b + (n + 1) = r
  OBVIOUS
<1>5. \A i \in 1..n + 1 : Append(s, r)[i] = b + i
  BY <1>1, <1>2, <1>3, <1>4
<1> QED BY <1>1, <1>5 DEF Run

LEMMA RunTail ==
  ASSUME NEW s \in Seq(Nat), NEW b \in Nat, NEW n \in Nat, n = Len(s), Run(s, b), n # 0
  PROVE  Tail(s) \in Seq(Nat) /\ Len(Tail(s)) = n - 1 /\ Run(Tail(s), b + 1)
<1>1. s # <<>>
  BY EmptySeq
<1>2. /\ Tail(s) \in Seq(Nat) /\ Len(Tail(s)) = n - 1
      /\ \A i \in 1..Len(Tail(s)) : Tail(s)[i] = s[i + 1]
  BY <1>1, HeadTailProperties
<1>3. \A i \in 1..n - 1 : i + 1 \in 1..n /\ b + (i + 1) = b + 1 + i
  OBVIOUS
<1>4. \A i \in 1..n : s[i] = b + i
  BY DEF Run
<1>5. \A i \in 1..n - 1 : Tail(s)[i] = b + 1 + i
  BY <1>2, <1>3, <1>4
<1> QED BY <1>2, <1>5 DEF Run

\* What the buffer holds once another record is parked (_park).
LEMMA ParkedIs ==
  ASSUME BufferSize \in Nat, parked \in Seq(Nat), NEW L \in Nat, NEW b \in Nat, Kept(b, L),
         parked' = Parked(L + 1)
  PROVE  \E c \in Nat :
           /\ parked' \in Seq(Nat) /\ Kept(c, L + 1)' /\ c <= L + 1
           /\ 1..b \cup (Members(Append(parked, L + 1)) \ Members(Parked(L + 1))) = 1..c
<1> DEFINE n == Len(parked)
           r == L + 1
           A == Append(parked, r)
<1>1. n \in Nat /\ b + n = L /\ Run(parked, b) /\ n <= BufferSize /\ (n < BufferSize => b = 0)
  BY LenProperties DEF Kept
<1>2. r \in Nat /\ r = b + n + 1
  BY <1>1
<1> HIDE DEF n, r
<1>3. A \in Seq(Nat) /\ Len(A) = n + 1 /\ Run(A, b)
  BY <1>1, <1>2, RunGrows DEF n
<1>4. Members(A) = (b + 1)..(b + (n + 1))
  <2> HIDE DEF A
  <2>1. n + 1 \in Nat
    BY <1>1
  <2> QED BY <1>3, <2>1, RunMembers
<1>5. CASE n < BufferSize
  <2>1. parked' = A
    BY <1>1, <1>5 DEF Parked, n, r
  <2>2. Kept(0, r)'
    <3>1. 0 + (n + 1) = r /\ n + 1 <= BufferSize /\ b = 0
      BY <1>1, <1>2, <1>5
    <3> QED BY <1>3, <2>1, <3>1 DEF Kept
  <2>3. 1..b \cup (Members(A) \ Members(Parked(r))) = 1..0
    <3>1. Parked(r) = A
      BY <2>1 DEF r
    <3> QED BY <1>1, <1>5, <3>1
  <2> QED BY <1>2, <1>3, <2>1, <2>2, <2>3 DEF r
<1>6. CASE n = BufferSize
  <2>1. parked' \in Seq(Nat) /\ Len(parked') = n /\ Run(parked', b + 1)
    <3>1. CASE n = 0
      <4>1. parked' = <<>>
        BY <1>6, <3>1 DEF Parked
      <4>2. Len(<<>>) = 0 /\ <<>> \in Seq(Nat) /\ 1..0 = {}
        OBVIOUS
      <4> QED BY <3>1, <4>1, <4>2 DEF Run
    <3>2. CASE n # 0
      <4>1. parked' = Append(Tail(parked), r)
        BY <1>6, <3>2 DEF Parked, n, r
      <4>2. Tail(parked) \in Seq(Nat) /\ Len(Tail(parked)) = n - 1 /\ Run(Tail(parked), b + 1)
        BY <1>1, <3>2, RunTail DEF n
      <4>3. n - 1 \in Nat /\ b + 1 \in Nat /\ r = b + 1 + (n - 1) + 1 /\ n - 1 + 1 = n
        BY <1>1, <1>2, <3>2
      <4> DEFINE m == n - 1
                 k == b + 1
                 t == Tail(parked)
      <4>4. m \in Nat /\ k \in Nat /\ r = k + m + 1 /\ t \in Seq(Nat) /\ m = Len(t) /\ Run(t, k)
        BY <4>2, <4>3
      <4> HIDE DEF m, k, t
      <4>5. Append(t, r) \in Seq(Nat) /\ Len(Append(t, r)) = m + 1 /\ Run(Append(t, r), k)
        BY <4>4, RunGrows
      <4> QED BY <4>1, <4>3, <4>5 DEF m, k, t
    <3> QED BY <3>1, <3>2
  <2>2. Kept(b + 1, r)'
    <3>1. b + 1 + n = r /\ n <= BufferSize /\ ~(n < BufferSize)
      BY <1>1, <1>2, <1>6
    <3> QED BY <2>1, <3>1 DEF Kept
  <2>3. Members(parked') = (b + 1 + 1)..(b + 1 + n)
    <3> DEFINE k == b + 1
    <3>1. k \in Nat
      OBVIOUS
    <3> HIDE DEF k
    <3>2. Run(parked', k)
      BY <2>1 DEF k
    <3>3. Members(parked') = (k + 1)..(k + n)
      BY <1>1, <2>1, <3>1, <3>2, RunMembers
    <3> QED BY <3>3 DEF k
  <2>4. 1..b \cup (Members(A) \ Members(parked')) = 1..b + 1
    <3>1. \A x \in Int : x \in (b + 1)..(b + (n + 1)) /\ x \notin (b + 1 + 1)..(b + 1 + n) <=> x = b + 1
      BY <1>1
    <3>2. (b + 1)..(b + (n + 1)) \ ((b + 1 + 1)..(b + 1 + n)) = {b + 1}
      BY <3>1
    <3>3. 1..b \cup {b + 1} = 1..b + 1
      OBVIOUS
    <3> QED BY <1>4, <2>3, <3>2, <3>3
  <2>5. b + 1 \in Nat /\ b + 1 <= r
    BY <1>1, <1>2
  <2> QED BY <2>1, <2>2, <2>4, <2>5 DEF r
<1>7. n < BufferSize \/ n = BufferSize
  BY <1>1
<1> QED BY <1>5, <1>6, <1>7

\* A record that nobody reads is parked (write).
LEMMA ParkKeeps ==
  ASSUME LogConstants, LogInv, NEW F, NEW n, Under(F, n), NEW l \in Levels, NEW adds \in SUBSET Sinks,
         ~(l < threshold), sinks = <<>>, Write(l, F, adds), UNCHANGED <<sinks, threshold, replayed, got>>
  PROVE  LogInv'
<1>0. PICK L \in Nat : L = Len(level)
  BY LevelsAre DEF LogInv
<1> DEFINE r == L + 1
<1>1. /\ LogTypeOK /\ SinksOK /\ BufferOK /\ GotOK /\ DueOK /\ WantedOK /\ Ascending
      /\ level' = Append(level, l) /\ wanted' = Append(wanted, Readers(l))
      /\ quietly' = IF F = <<>> THEN quietly \cup {r} ELSE quietly
      /\ deliveries' = F /\ parked' = Parked(r)
      /\ evicted' = evicted \cup (Members(Append(parked, r)) \ Members(Parked(r)))
      /\ UNCHANGED <<sinks, threshold, replayed, got, registered>>
  BY <1>0 DEF LogInv, Write
<1>2. ~replayed
  <2>1. replayed => threshold = Off
    BY <1>1 DEF SinksOK
  <2> QED BY <2>1, OffIsAbove
<1>3. /\ deliveries = <<>> /\ \A s \in Sinks : got[s] = <<>>
      /\ quietly \subseteq 1..L
  BY <1>0, <1>1, <1>2 DEF BufferOK
<1>4. deliveries' = <<>>
  BY <1>1, <1>3, UnderIs
<1>5. /\ level' \in Seq(Levels) /\ DOMAIN level' = 1..r /\ Len(level') = r
      /\ \A q \in DOMAIN level : level'[q] = level[q]
      /\ \A q \in 1..r : q \in DOMAIN level \/ q = r
      /\ wanted' \in Seq(SUBSET Sinks) /\ Len(wanted') = r /\ wanted'[r] = Readers(l)
      /\ \A q \in DOMAIN level : wanted'[q] = wanted[q]
  BY <1>0, <1>1, Written
<1>6. parked \in Seq(Nat) /\ BufferSize \in Nat
  BY <1>1 DEF LogTypeOK, LogConstants
<1>7. \E c \in Nat : parked' \in Seq(Nat) /\ Kept(c, r)' /\ c <= r /\ evicted' = 1..c
  <2>1. PICK b \in Nat : Kept(b, L) /\ evicted = 1..b
    BY <1>0, <1>1, <1>2 DEF BufferOK
  <2>2. \E c \in Nat :
           /\ parked' \in Seq(Nat) /\ Kept(c, L + 1)' /\ c <= L + 1
           /\ 1..b \cup (Members(Append(parked, L + 1)) \ Members(Parked(L + 1))) = 1..c
    BY <1>0, <1>1, <1>6, <2>1, ParkedIs
  <2> QED BY <1>1, <2>1, <2>2
<1>9. quietly' \subseteq 1..r /\ evicted' \subseteq 1..r /\ 1..r \subseteq Nat
  <2>1. r \in 1..r /\ 1..L \subseteq 1..r /\ 1..r \subseteq Nat /\ r \in Nat
    BY <1>0
  <2> HIDE DEF r
  <2>2. evicted' \subseteq 1..r
    BY <1>7, <2>1
  <2> QED BY <1>1, <1>3, <2>1, <2>2
<1> HIDE DEF r
<1>11. LogTypeOK'
  <2>1. <<>> \in Seq(DeliveryType)
    OBVIOUS
  <2>2. quietly' \in SUBSET Nat /\ evicted' \in SUBSET Nat
    BY <1>9
  <2> QED BY <1>1, <1>4, <1>5, <1>7, <2>1, <2>2 DEF LogTypeOK
<1>12. SinksOK'
  BY <1>1 DEF SinksOK, Members
<1>13. BufferOK'
  <2>1. PICK c \in Nat : Kept(c, r)' /\ evicted' = 1..c
    BY <1>7
  <2>2. Kept(c, Len(level))'
    BY <1>5, <2>1 DEF Kept
  <2> QED BY <1>1, <1>2, <1>3, <1>4, <1>5, <1>9, <2>1, <2>2 DEF BufferOK
<1>14. FramesOK' /\ DueOK'
  BY <1>4 DEF FramesOK, DueOK
<1>15. GotOK' /\ Ascending'
  BY <1>1, <1>3 DEF GotOK, Ascending
<1>16. WantedOK'
  <2>1. \A s, q : s \in Sinks => ~HasGot(s, q) /\ ~IsDue(s, q)
    BY <1>3 DEF HasGot, IsDue
  <2>2. \A q \in DOMAIN level : wanted[q] = {}
    BY <1>1, <2>1, LevelsAre DEF WantedOK
  <2>3. Readers(l) = {}
    BY DEF Readers, Members
  <2> QED BY <1>5, <2>2, <2>3 DEF WantedOK
<1> QED BY <1>11, <1>12, <1>13, <1>14, <1>15, <1>16 DEF LogInv

\* A record is written, with what is left of the stack below it (write).
LEMMA WriteKeeps ==
  ASSUME LogConstants, LogInv, NEW F, NEW n, Under(F, n), NEW l \in Levels, NEW adds \in SUBSET Sinks,
         \A d \in DOMAIN deliveries : d > n => ToDo(deliveries[d]) = {},
         Write(l, F, adds), UNCHANGED <<sinks, threshold, replayed, got>>
  PROVE  LogInv'
<1>1. CASE l < threshold
  <2>1. /\ deliveries' = F /\ registered' = registered \cup adds
        /\ UNCHANGED <<sinks, level, threshold, parked, evicted, replayed, got, wanted, quietly>>
    BY <1>1 DEF Write
  <2>2. registered' \in SUBSET Sinks /\ wanted \in Seq(SUBSET Sinks) /\ Len(wanted) = Len(level)
    BY <2>1 DEF LogInv, LogTypeOK
  <2>3. Under(deliveries', n) /\ wanted' = wanted
    BY <2>1
  <2> QED BY <2>1, <2>2, <2>3, TrimKeeps
<1>2. CASE ~(l < threshold) /\ sinks = <<>>
  BY <1>2, ParkKeeps
<1>3. CASE ~(l < threshold) /\ sinks # <<>>
  BY <1>3, DispatchKeeps
<1> QED BY <1>1, <1>2, <1>3

LEMMA LogKeeps == ASSUME LogConstants, LogInv, NEW l \in Levels, Log(l) PROVE LogInv'
<1>1. Write(l, deliveries, {}) /\ UNCHANGED <<sinks, threshold, replayed, got>>
  BY DEF Log
<1>2. deliveries \in Seq(DeliveryType)
  BY DEF LogInv, LogTypeOK
<1>3. Depth \in Nat /\ DOMAIN deliveries = 1..Depth
  BY <1>2, LenProperties DEF Depth
<1>4. Depth \in 0..Depth /\ \A d \in 1..Depth : ~(d > Depth)
  BY <1>3
<1>5. Under(deliveries, Depth)
  BY <1>2, <1>3, <1>4 DEF Under
<1> QED BY <1>1, <1>3, <1>4, <1>5, WriteKeeps

\* A delivery is over, and the notice of a replay is written.
LEMMA DeliveredKeeps == ASSUME LogConstants, LogInv, Delivered PROVE LogInv'
<1>1. /\ LogTypeOK /\ Depth > 0 /\ Innermost.next > Len(Innermost.jobs)
      /\ UNCHANGED <<sinks, threshold, replayed, got>>
  BY DEF LogInv, Delivered
<1>2. /\ Under(Outer, Depth - 1)
      /\ \A d \in DOMAIN deliveries : d > Depth - 1 => deliveries[d] = Innermost
  BY <1>1, OuterIsBase
<1>3. /\ Innermost \in DeliveryType /\ Innermost.next \in Nat \ {0}
      /\ DOMAIN Innermost.jobs = 1..Len(Innermost.jobs) /\ Len(Innermost.jobs) \in Nat
  BY <1>1, InnermostIs
<1>4. ToDo(Innermost) = {}
  <2>1. \A i \in 1..Len(Innermost.jobs) : ~(Innermost.next < i) /\ ~(Innermost.next <= i)
    BY <1>1, <1>3
  <2> QED BY <1>3, <2>1 DEF ToDo
<1>5. Innermost.adds \in SUBSET Sinks
  BY <1>3 DEF DeliveryType
<1>6. \A d \in DOMAIN deliveries : d > Depth - 1 => ToDo(deliveries[d]) = {}
  BY <1>2, <1>4
<1>7. CASE Write(Notice, Outer, Innermost.adds)
  BY <1>1, <1>2, <1>5, <1>6, <1>7, WriteKeeps DEF LogConstants
<1>8. CASE /\ deliveries' = Outer /\ registered' = registered \cup Innermost.adds
           /\ UNCHANGED <<level, parked, evicted, wanted, quietly>>
  <2>1. registered' \in SUBSET Sinks /\ wanted \in Seq(SUBSET Sinks) /\ Len(wanted) = Len(level)
    BY <1>1, <1>5, <1>8 DEF LogTypeOK
  <2>2. Under(deliveries', Depth - 1) /\ wanted' = wanted
    BY <1>2, <1>8
  <2> QED BY <1>1, <1>6, <1>8, <2>1, <2>2, TrimKeeps
<1> QED BY <1>7, <1>8 DEF Delivered

\* The threshold that lets through what any of the sinks wants.
LEMMA RecomputedIs ==
  ASSUME LogConstants, NEW held \in Seq(Sinks)
  PROVE  /\ Recomputed(held) \in Nat /\ \A s \in Members(held) : Interest[s] >= Recomputed(held)
         /\ held = <<>> => Recomputed(held) = IF replayed THEN Off ELSE Lowest(Levels)
<1>1. Levels \in SUBSET Nat /\ Levels # {} /\ Interest \in [Sinks -> Nat]
  BY DEF LogConstants
<1>2. CASE held = <<>>
  <2>1. Members(held) = {}
    BY <1>2 DEF Members
  <2>2. Off \in Nat /\ Lowest(Levels) \in Nat
    BY <1>1, OffIsAbove, LowestIs
  <2> QED BY <1>2, <2>1, <2>2 DEF Recomputed
<1>3. CASE held # <<>>
  <2> DEFINE S == {Interest[s] : s \in Members(held)}
  <2>1. DOMAIN held = 1..Len(held) /\ Len(held) \in Nat \ {0} /\ \A i \in 1..Len(held) : held[i] \in Sinks
    <3>1. DOMAIN held = 1..Len(held) /\ Len(held) \in Nat /\ Len(held) # 0
      BY <1>3, LenProperties, EmptySeq
    <3>2. \A i \in 1..Len(held) : held[i] \in Sinks
      BY ElementOfSeq
    <3> QED BY <3>1, <3>2
  <2>2. Members(held) \subseteq Sinks /\ Members(held) # {}
    <3>1. \A k \in Nat \ {0} : 1 \in 1..k
      OBVIOUS
    <3> QED BY <2>1, <3>1 DEF Members
  <2>3. S \in SUBSET Nat /\ S # {}
    BY <1>1, <2>2
  <2>4. Lowest(S) \in Nat /\ \A k \in S : Lowest(S) <= k
    <3> HIDE DEF S
    <3> QED BY <2>3, LowestIs
  <2>5. Recomputed(held) = Lowest(S)
    BY <1>3 DEF Recomputed
  <2>6. ASSUME NEW s \in Members(held) PROVE Interest[s] >= Lowest(S)
    <3>1. Interest[s] \in S /\ Interest[s] \in Nat
      BY <1>1, <2>2
    <3> HIDE DEF S
    <3> QED BY <2>4, <3>1
  <2> QED BY <1>3, <2>4, <2>5, <2>6
<1> QED BY <1>2, <1>3

\* A step that changes who reads, and no delivery.
LEMMA ReadersChange ==
  ASSUME LogConstants, LogInv, sinks' \in Seq(Sinks), registered' \in SUBSET Sinks,
         \A i, j \in DOMAIN sinks' : sinks'[i] = sinks'[j] => i = j,
         threshold' = Recomputed(sinks'), replayed \/ sinks' = <<>>,
         UNCHANGED <<level, parked, evicted, replayed, deliveries, got, wanted, quietly>>
  PROVE  LogInv'
<1>1. /\ Recomputed(sinks') \in Nat /\ \A s \in Members(sinks') : Interest[s] >= Recomputed(sinks')
      /\ sinks' = <<>> => Recomputed(sinks') = IF replayed THEN Off ELSE Lowest(Levels)
  BY RecomputedIs
<1>2. LogTypeOK'
  BY <1>1 DEF LogInv, LogTypeOK
<1>3. SinksOK'
  BY <1>1 DEF SinksOK, Members
<1>4. BufferOK'
  BY DEF LogInv, BufferOK, Kept
<1>5. FramesOK' /\ GotOK' /\ DueOK' /\ Ascending'
  BY DEF LogInv, FramesOK, GotOK, DueOK, Ascending
<1>6. WantedOK'
  BY DEF LogInv, WantedOK, HasGot, IsDue
<1> QED BY <1>2, <1>3, <1>4, <1>5, <1>6 DEF LogInv

LEMMA SinksAre ==
  ASSUME LogInv
  PROVE  /\ sinks \in Seq(Sinks) /\ DOMAIN sinks = 1..Len(sinks) /\ Len(sinks) \in Nat
         /\ \A i \in 1..Len(sinks) : sinks[i] \in Sinks
         /\ \A i, j \in 1..Len(sinks) : sinks[i] = sinks[j] => i = j
<1>1. sinks \in Seq(Sinks) /\ DOMAIN sinks = 1..Len(sinks) /\ Len(sinks) \in Nat
  BY LenProperties DEF LogInv, LogTypeOK
<1>2. \A i \in 1..Len(sinks) : sinks[i] \in Sinks
  BY <1>1, ElementOfSeq
<1> QED BY <1>1, <1>2 DEF LogInv, SinksOK

LEMMA RemoveKeeps == ASSUME LogConstants, LogInv, NEW s \in Sinks, RemoveExporter(s) PROVE LogInv'
<1> DEFINE n == Len(sinks)
           k == CHOOSE k \in DOMAIN sinks : sinks[k] = s
           w == [i \in 1..n - 1 |-> IF i < k THEN sinks[i] ELSE sinks[i + 1]]
<1>1. /\ sinks' = Without(s) /\ threshold' = Recomputed(sinks') /\ registered' \in SUBSET Sinks
      /\ UNCHANGED <<level, parked, evicted, replayed, deliveries, got, wanted, quietly>>
  BY DEF RemoveExporter, LogInv, LogTypeOK
<1>2. /\ sinks \in Seq(Sinks) /\ DOMAIN sinks = 1..n /\ n \in Nat
      /\ \A i \in 1..n : sinks[i] \in Sinks
      /\ \A i, j \in 1..n : sinks[i] = sinks[j] => i = j
  BY SinksAre
<1>3. CASE s \notin Members(sinks)
  <2>1. sinks' = sinks
    BY <1>1, <1>3 DEF Without
  <2>2. replayed \/ sinks' = <<>>
    BY <2>1 DEF LogInv, BufferOK
  <2> QED BY <1>1, <1>2, <2>1, <2>2, ReadersChange
<1>4. CASE s \in Members(sinks)
  <2>1. k \in 1..n /\ sinks' = w
    <3>1. \E i \in DOMAIN sinks : sinks[i] = s
      BY <1>4 DEF Members
    <3>2. k \in DOMAIN sinks
      BY <3>1
    <3> QED BY <1>1, <1>2, <1>4, <3>2 DEF Without
  <2> HIDE DEF k
  <2>2. n - 1 \in Nat /\ \A i \in 1..n - 1 : i \in 1..n /\ i + 1 \in 1..n
    BY <1>2, <2>1
  <2>3. w \in [1..n - 1 -> Sinks]
    BY <1>2, <2>2
  <2>4. w \in Seq(Sinks)
    BY <2>2, <2>3
  <2>5. ASSUME NEW i \in 1..n - 1, NEW j \in 1..n - 1, w[i] = w[j] PROVE i = j
    <3> DEFINE at(x) == IF x < k THEN x ELSE x + 1
    <3>1. w[i] = sinks[at(i)] /\ w[j] = sinks[at(j)]
      OBVIOUS
    <3>2. at(i) \in 1..n /\ at(j) \in 1..n
      BY <2>2
    <3>3. at(i) = at(j)
      <4> HIDE DEF at, w
      <4> QED BY <1>2, <2>5, <3>1, <3>2
    <3> HIDE DEF w
    <3> QED BY <1>2, <2>1, <3>3
  <2>6. DOMAIN w = 1..n - 1
    OBVIOUS
  <2> HIDE DEF w
  <2>7. \A i, j \in DOMAIN sinks' : sinks'[i] = sinks'[j] => i = j
    BY <2>1, <2>5, <2>6
  <2>8. replayed
    <3>1. sinks # <<>>
      BY <1>4 DEF Members
    <3> QED BY <3>1 DEF LogInv, BufferOK
  <2> QED BY <1>1, <2>1, <2>4, <2>7, <2>8, ReadersChange
<1> QED BY <1>3, <1>4

LEMMA Appended ==
  ASSUME LogInv, NEW s \in Sinks, s \notin Members(sinks)
  PROVE  LET held == Append(sinks, s) IN
         /\ held \in Seq(Sinks) /\ held # <<>> /\ s \in Members(held)
         /\ \A i, j \in DOMAIN held : held[i] = held[j] => i = j
<1> DEFINE n == Len(sinks)
           held == Append(sinks, s)
<1>1. /\ sinks \in Seq(Sinks) /\ DOMAIN sinks = 1..n /\ n \in Nat
      /\ \A i, j \in 1..n : sinks[i] = sinks[j] => i = j
  BY SinksAre
<1>2. /\ held \in Seq(Sinks) /\ held # <<>> /\ Len(held) = n + 1
      /\ \A i \in 1..n : held[i] = sinks[i]
      /\ held[n + 1] = s
  BY <1>1, AppendProperties
<1> HIDE DEF held
<1>3. DOMAIN held = 1..n + 1
  BY <1>2, LenProperties
<1>4. /\ \A i \in 1..n + 1 : i \in 1..n \/ i = n + 1
      /\ n + 1 \in 1..n + 1
  BY <1>1
<1> HIDE DEF n
<1>5. \A i \in 1..n : sinks[i] # s
  BY <1>1 DEF Members
<1>6. \A i, j \in DOMAIN held : held[i] = held[j] => i = j
  BY <1>1, <1>2, <1>3, <1>4, <1>5
<1>7. s \in Members(held)
  BY <1>2, <1>3, <1>4 DEF Members
<1> QED BY <1>2, <1>6, <1>7 DEF held

\* The frame of the first registration: all that is parked, for its sink.
LEMMA BootFrame ==
  ASSUME LogTypeOK, NEW s \in Sinks, NEW b \in Nat, Kept(b, Len(level))
  PROVE  LET f == Frame(Boot(s), {s}, TRUE) IN
         /\ f \in DeliveryType /\ DOMAIN f.jobs = 1..Len(parked) /\ Len(parked) \in Nat
         /\ b + Len(parked) = Len(level)
         /\ \A i \in DOMAIN f.jobs : f.jobs[i].sink = s /\ f.jobs[i].record = b + i
<1> DEFINE f == Frame(Boot(s), {s}, TRUE)
           n == Len(parked)
<1>1. DOMAIN parked = 1..n /\ n \in Nat /\ \A i \in 1..n : parked[i] \in Nat
  BY LenProperties, ElementOfSeq DEF LogTypeOK
<1>2. Boot(s) \in [1..n -> [sink : Sinks, record : Nat]]
      /\ \A i \in 1..n : Boot(s)[i].sink = s /\ Boot(s)[i].record = parked[i]
  BY <1>1 DEF Boot
<1>3. Boot(s) \in Jobs /\ DOMAIN Boot(s) = 1..n
  <2> DEFINE K == [sink : Sinks, record : Nat]
  <2>1. Boot(s) \in [1..n -> K] /\ n \in Nat
    BY <1>1, <1>2
  <2> HIDE DEF K, n
  <2>2. Boot(s) \in UNION {[1..m -> K] : m \in Nat}
    BY <2>1
  <2>3. Boot(s) \in Seq(K)
    BY <2>2, SeqDef, Zenon
  <2> QED BY <2>1, <2>3 DEF Jobs, K
<1>4. f \in DeliveryType /\ f.jobs = Boot(s)
  BY <1>3 DEF Frame, DeliveryType
<1>5. b + n = Len(level) /\ \A i \in 1..n : parked[i] = b + i
  BY DEF Kept, Run
<1> QED BY <1>1, <1>2, <1>3, <1>4, <1>5

\* An exporter is added: the first is to be told what is parked, any other begins
\* with the next record (add_exporter, _replay).
LEMMA AddKeeps == ASSUME LogConstants, LogInv, NEW s \in Sinks, AddExporter(s) PROVE LogInv'
<1> DEFINE held == Append(sinks, s)
<1>1. /\ s \notin Members(sinks) /\ sinks' = held /\ threshold' = Recomputed(held) /\ replayed' = TRUE
      /\ UNCHANGED <<level, evicted, got, wanted, quietly>>
  BY DEF AddExporter
<1>2. /\ held \in Seq(Sinks) /\ held # <<>> /\ \A i, j \in DOMAIN held : held[i] = held[j] => i = j
  BY <1>1, Appended
<1> HIDE DEF held
<1>3. CASE replayed
  <2>1. registered' = registered \cup {s} /\ UNCHANGED <<parked, deliveries>>
    BY <1>3 DEF AddExporter
  <2>2. registered' \in SUBSET Sinks /\ replayed' = replayed
    BY <1>1, <1>3, <2>1 DEF LogInv, LogTypeOK
  <2> QED BY <1>1, <1>2, <1>3, <2>1, <2>2, ReadersChange
<1>4. CASE ~replayed
  <2> DEFINE f == Frame(Boot(s), {s}, TRUE)
  <2>1. /\ parked' = <<>> /\ deliveries' = Append(deliveries, f) /\ registered' = registered
    BY <1>4 DEF AddExporter
  <2>2. /\ LogTypeOK /\ BufferOK /\ WantedOK /\ deliveries = <<>> /\ \A x \in Sinks : got[x] = <<>>
    BY <1>4 DEF LogInv, BufferOK
  <2>3. PICK b \in Nat : Kept(b, Len(level)) /\ evicted = 1..b
    BY <1>4, <2>2 DEF BufferOK
  <2>4. /\ f \in DeliveryType /\ DOMAIN f.jobs = 1..Len(parked) /\ Len(parked) \in Nat
        /\ b + Len(parked) = Len(level)
        /\ \A i \in DOMAIN f.jobs : f.jobs[i].sink = s /\ f.jobs[i].record = b + i
    BY <2>2, <2>3, BootFrame
  <2> HIDE DEF f
  <2>5. deliveries' = <<f>> /\ DOMAIN deliveries' = {1} /\ deliveries'[1] = f
        /\ deliveries' \in Seq(DeliveryType)
    <3>1. Append(<<>>, f) = <<f>> /\ DOMAIN <<f>> = {1} /\ <<f>>[1] = f /\ <<f>> \in Seq(DeliveryType)
      BY <2>4
    <3> QED BY <2>1, <2>2, <3>1
  <2>6. \A i, j \in 1..Len(parked) :
          /\ b + i \in 1..b + Len(parked) /\ b + i \notin 1..b /\ (i < j => b + i < b + j)
    BY <2>4
  <2>7. /\ Recomputed(held) \in Nat /\ \A x \in Members(held) : Interest[x] >= Recomputed(held)
    BY <1>2, RecomputedIs
  <2>8. LogTypeOK'
    <3>1. <<>> \in Seq(Nat)
      OBVIOUS
    <3> QED BY <1>1, <1>2, <2>1, <2>2, <2>5, <2>7, <3>1 DEF LogTypeOK
  <2>9. SinksOK'
    BY <1>1, <1>2, <2>7 DEF SinksOK, Members
  <2>10. BufferOK'
    BY <1>1, <2>1, <2>2 DEF BufferOK
  <2>11. FramesOK'
    <3>1. ASSUME NEW d \in DOMAIN deliveries', NEW i \in DOMAIN deliveries'[d].jobs
          PROVE  /\ deliveries'[d].jobs[i].record \in 1..Len(level)
                 /\ deliveries'[d].jobs[i].record \notin evicted /\ d = 1
      BY <2>3, <2>4, <2>5, <2>6
    <3>2. ASSUME NEW d \in DOMAIN deliveries', NEW i \in DOMAIN deliveries'[d].jobs,
                 NEW j \in DOMAIN deliveries'[d].jobs, i < j
          PROVE  deliveries'[d].jobs[i].record < deliveries'[d].jobs[j].record
      BY <2>4, <2>5, <2>6, <3>2
    <3>3. \A d, e \in DOMAIN deliveries' : ~(d < e)
      BY <2>5
    <3>4. level' = level /\ evicted' = evicted /\ quietly' = quietly
      BY <1>1
    <3> QED BY <3>1, <3>2, <3>3, <3>4 DEF FramesOK
  <2>12. GotOK' /\ Ascending'
    BY <1>1 DEF LogInv, GotOK, Ascending
  <2>13. DueOK'
    <3>1. ASSUME NEW d \in DOMAIN deliveries', NEW i \in ToDo(deliveries'[d])
          PROVE  got'[deliveries'[d].jobs[i].sink] = <<>>
      <4>1. i \in DOMAIN f.jobs /\ deliveries'[d] = f
        BY <2>5 DEF ToDo
      <4> QED BY <1>1, <2>2, <2>4, <4>1
    <3>2. DOMAIN <<>> = {}
      OBVIOUS
    <3> QED BY <3>1, <3>2 DEF DueOK
  <2>14. WantedOK'
    <3>1. \A x, q : x \in Sinks => ~HasGot(x, q) /\ ~IsDue(x, q)
      BY <2>2 DEF HasGot, IsDue
    <3>2. \A q \in DOMAIN level : wanted[q] = {}
      BY <2>2, <3>1, LevelsAre DEF WantedOK
    <3> QED BY <1>1, <3>2 DEF WantedOK
  <2> QED BY <2>8, <2>9, <2>10, <2>11, <2>12, <2>13, <2>14 DEF LogInv
<1> QED BY <1>3, <1>4

LEMMA LogStarts == ASSUME LogConstants, LogInit PROVE LogInv
<1>1. Lowest(Levels) \in Nat /\ Levels # {}
  BY LowestIs DEF LogConstants
<1>2. /\ <<>> \in Seq(Sinks) /\ <<>> \in Seq(Levels) /\ <<>> \in Seq(Nat) /\ <<>> \in Seq(DeliveryType)
      /\ <<>> \in Seq(SUBSET Sinks) /\ Len(<<>>) = 0 /\ DOMAIN <<>> = {} /\ 1..0 = {}
  OBVIOUS
<1>3. LogTypeOK
  BY <1>1, <1>2 DEF LogInit, LogTypeOK
<1>4. SinksOK
  BY DEF LogInit, SinksOK, Members
<1>5. BufferOK
  <2>1. Kept(0, Len(level))
    <3>1. BufferSize \in Nat /\ 0 + 0 = 0 /\ 0 <= BufferSize
      BY DEF LogConstants
    <3>2. level = <<>> /\ parked = <<>>
      BY DEF LogInit
    <3> QED BY <1>2, <3>1, <3>2 DEF Kept, Run
  <2> QED BY <1>2, <2>1 DEF LogInit, BufferOK
<1>6. FramesOK /\ GotOK /\ DueOK /\ WantedOK /\ Ascending
  BY <1>2 DEF LogInit, FramesOK, GotOK, DueOK, WantedOK, Ascending
<1> QED BY <1>3, <1>4, <1>5, <1>6 DEF LogInv

LEMMA LogKept == ASSUME LogConstants, LogInv, [LogNext]_logVars PROVE LogInv'
<1>1. CASE UNCHANGED logVars
  BY <1>1 DEF logVars, LogInv, LogTypeOK, SinksOK, BufferOK, Kept, FramesOK, GotOK, DueOK, WantedOK,
              HasGot, IsDue, Ascending, Members
<1>2. ASSUME NEW l \in Levels, Log(l) PROVE LogInv'
  BY <1>2, LogKeeps
<1>3. ASSUME NEW s \in Sinks, AddExporter(s) PROVE LogInv'
  BY <1>3, AddKeeps
<1>4. ASSUME NEW s \in Sinks, RemoveExporter(s) PROVE LogInv'
  BY <1>4, RemoveKeeps
<1> QED BY <1>1, <1>2, <1>3, <1>4, GiveKeeps, SkipKeeps, RaiseKeeps, DeliveredKeeps DEF LogNext

\* What the buffer, the deliveries and the exporters hold fits together in every state
\* of the channel (logging.py).
THEOREM LogInvHolds == ASSUME LogConstants PROVE LogSpec => []LogInv
<1>1. LogInit => LogInv
  BY LogStarts
<1>2. LogInv /\ [LogNext]_logVars => LogInv'
  BY LogKept
<1> QED BY <1>1, <1>2, PTL DEF LogSpec

\* Nobody who was there for a record misses it, gets it twice, or gets what was not
\* kept for it.
LEMMA OnceIs == ASSUME LogConstants, LogInv PROVE EachRecordOnce
<1>1. LogTypeOK /\ SinksOK /\ BufferOK /\ GotOK /\ WantedOK /\ FramesOK
  BY DEF LogInv
<1>2. ASSUME NEW r \in DOMAIN level, NEW s \in Sinks
      PROVE  /\ Given(s, r) <= 1
             /\ s \in wanted[r] => Given(s, r) = 1 \/ Owed(s, r)
             /\ Given(s, r) = 1 /\ s \notin wanted[r] => r \notin Members(parked) \cup evicted
  <2> DEFINE at == {i \in DOMAIN got[s] : got[s][i] = r}
  <2>1. HasGot(s, r) => \E i \in DOMAIN got[s] : at = {i}
    <3>1. \A i, j \in DOMAIN got[s] : got[s][i] = got[s][j] => i = j
      BY <1>1 DEF GotOK
    <3> QED BY <3>1 DEF HasGot
  <2>2. ~HasGot(s, r) => at = {}
    BY DEF HasGot
  <2>3. Given(s, r) = Cardinality(at)
    BY DEF Given
  <2> HIDE DEF at
  <2>4. Given(s, r) = IF HasGot(s, r) THEN 1 ELSE 0
    BY <2>1, <2>2, <2>3, FS_EmptySet, FS_Singleton
  <2>5. ASSUME IsDue(s, r) PROVE Owed(s, r)
    <3>1. PICK d \in DOMAIN deliveries : \E i \in ToDo(deliveries[d]) :
            deliveries[d].jobs[i].sink = s /\ deliveries[d].jobs[i].record = r
      BY <2>5 DEF IsDue
    <3> DEFINE f == deliveries[d]
    <3>2. PICK i \in ToDo(f) : f.jobs[i].sink = s /\ f.jobs[i].record = r
      BY <3>1
    <3>3. f \in DeliveryType /\ f \in Members(deliveries)
      BY <1>1, LenProperties, ElementOfSeq DEF LogTypeOK, Members
    <3> HIDE DEF f
    <3>4. f.jobs \in Jobs /\ f.next \in Nat
      BY <3>3 DEF DeliveryType
    <3>5. i \in 1..Len(f.jobs) /\ Len(f.jobs) \in Nat /\ (f.next < i \/ f.next <= i)
      BY <3>2, <3>4, JobsAre DEF ToDo
    <3>6. i \in f.next..Len(f.jobs)
      BY <3>4, <3>5
    <3>7. f.jobs[i] = [sink |-> s, record |-> r]
      <4>1. f.jobs[i] \in [sink : Sinks, record : Nat]
        BY <3>4, <3>5, ElementOfSeq DEF Jobs
      <4> QED BY <3>2, <4>1
    <3> QED BY <3>3, <3>6, <3>7 DEF Owed
  <2>6. ASSUME HasGot(s, r) PROVE r \notin Members(parked) \cup evicted
    <3>1. r \notin evicted
      BY <1>1, <2>6 DEF GotOK, HasGot
    <3>2. DOMAIN <<>> = {}
      OBVIOUS
    <3>3. replayed
      BY <1>1, <2>6, <3>2 DEF BufferOK, HasGot
    <3> QED BY <1>1, <3>1, <3>2, <3>3 DEF BufferOK, Members
  <2> QED BY <1>1, <2>4, <2>5, <2>6 DEF WantedOK
<1> QED BY <1>1, <1>2 DEF SinksOK, EachRecordOnce

LEMMA NewestIs == ASSUME LogConstants, LogInv PROVE ParkedAreNewest
<1>1. LogTypeOK /\ BufferOK
  BY DEF LogInv
<1>2. ASSUME NEW r \in DOMAIN level, ~replayed
      PROVE  r \in Members(parked) <=> r + BufferSize > Len(level)
  <2>1. PICK b \in Nat : Kept(b, Len(level))
    BY <1>1, <1>2 DEF BufferOK
  <2> DEFINE n == Len(parked)
  <2>2. /\ b + n = Len(level) /\ Run(parked, b) /\ n <= BufferSize
        /\ n < BufferSize => b = 0
    BY <2>1 DEF Kept
  <2>3. n \in Nat /\ BufferSize \in Nat /\ parked \in Seq(Nat)
    BY <1>1, LenProperties DEF LogTypeOK, LogConstants
  <2>4. Members(parked) = (b + 1)..(b + n)
    BY <2>2, <2>3, RunMembers
  <2>5. r \in 1..b + n
    BY <1>1, <2>2, LevelsAre
  <2> HIDE DEF n
  <2>6. r \in (b + 1)..(b + n) <=> r + BufferSize > b + n
    BY <2>2, <2>3, <2>5
  <2> QED BY <2>2, <2>4, <2>6
<1> QED BY <1>1, <1>2 DEF BufferOK, ParkedAreNewest

\* Nobody registered misses a record or gets one twice, what was written before
\* anybody read is kept as far as the buffer goes, and order holds, whatever an exporter
\* or an error handler does while it is called (write, add_exporter, _dispatch).
THEOREM ReplayedHolds == ASSUME LogConstants PROVE LogSpec => []Replayed
<1>1. LogInv => Replayed
  BY OnceIs, NewestIs DEF Replayed, LogInv
<1> QED BY <1>1, LogInvHolds, PTL
=============================================================================
