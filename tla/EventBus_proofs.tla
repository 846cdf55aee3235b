--------------------------- MODULE EventBus_proofs ---------------------------
(***************************************************************************)
(* Proofs about EventBus, for every number of registrations, every set of  *)
(* contexts, filters, handlers and dispatches.                             *)
(***************************************************************************)
EXTENDS EventBus, SequenceTheorems, FiniteSetTheorems, WellFoundedInduction, TLAPS

\* The types of what a dispatch keeps, and of the channel.
DispatchType ==
  [phase : {"idle", "admitting", "open", "returned", "raised", "cancelled"},
   mode : AllModes \cup {None},
   todo : Seq(Entries),
   verdict : [Filters -> {"yes", "no", None}],
   list : Seq(Entries),
   called : Seq(Entries \cup {None}),
   running : SUBSET Entries,
   failed : SUBSET Entries,
   spoke : SUBSET Entries,
   answer : Answers \cup {None},
   asked : [Entries -> Nat],
   audience : Seq(Handlers),
   told : Seq(Handlers),
   present : SUBSET Entries,
   installed : SUBSET Handlers]

ChannelType ==
  /\ prepended \in Seq(Entries) /\ normal \in Seq(Entries)
  /\ ctx \in Seq(Contexts \cup {None}) /\ Len(ctx) <= MaxEntries
  /\ gone \in SUBSET DOMAIN ctx
  /\ handlers \in Seq(Handlers)

\* The two groups of the channel: the latest first, the earliest first, and
\* together what is live.
Grouped ==
  /\ \A i, j \in DOMAIN prepended : i < j => prepended[i] > prepended[j]
  /\ \A i, j \in DOMAIN normal : i < j => normal[i] < normal[j]
  /\ ToSet(prepended) \cap ToSet(normal) = {}
  /\ ToSet(prepended) \cup ToSet(normal) = Live

\* The parts of the invariant of a dispatch speak of its record alone, but for
\* the contexts of the entries.

\* The handlers are told in turn, and outside of emit the dispatchers begin when
\* all of them have been told.
Heard(r) ==
  /\ r.installed = ToSet(r.audience)
  /\ Len(r.told) <= Len(r.audience)
  /\ \A i \in 1..Len(r.told) : r.told[i] = r.audience[i]
  /\ r.phase = "open" /\ r.mode # "emit" => Len(r.told) = Len(r.audience)

\* Nobody has called next.
Unasked == [e \in Entries |-> 0]

\* What is called is the beginning of the list, and behind the whole of it the
\* default of a waterfall.
Begins(r) ==
  /\ r.phase = "idle" => r = Undone
  /\ r.mode = None => r.phase = "idle"
  /\ \A i, j \in DOMAIN r.list : r.list[i] = r.list[j] => i = j
  /\ \/ Len(r.called) <= Len(r.list)
     \/ r.mode = "waterfall" /\ Len(r.called) = Len(r.list) + 1
  /\ \A i \in 1..Len(r.called) :
       r.called[i] = IF i <= Len(r.list) THEN r.list[i] ELSE None
  /\ r.running \subseteq ToSet(r.called)
  /\ r.called = <<>> => r.failed = {} /\ r.asked = Unasked
  /\ r.phase \in {"idle", "admitting"} => r.called = <<>>

\* In a waterfall those have called next whose successor has been called.
Linked(r) ==
  r.mode = "waterfall" =>
    \A k \in DOMAIN r.list : r.asked[r.list[k]] > 0 <=> k < Len(r.called)

\* In turn one listener runs at a time, the last one called, and the one that
\* speaks ends the dispatch.
InTurnRuns(r) ==
  /\ r.mode \in InTurn /\ r.running # {} =>
       r.called # <<>> /\ r.running = {r.called[Len(r.called)]}
  /\ r.spoke # {} =>
       /\ r.mode \in {"serial", "bail"} /\ r.phase = "returned" /\ r.answer # None
       /\ r.called # <<>> /\ r.spoke = {r.called[Len(r.called)]}

\* A broadcast that returns has called the whole list, and parallel has waited.
Gathered(r) ==
  /\ r.phase = "returned" /\ r.mode \in {"emit", "parallel"} =>
       Len(r.called) = Len(r.list)
  /\ r.mode = "parallel" /\ r.called # <<>> =>
       /\ Len(r.called) = Len(r.list)
       /\ r.phase = "open" => r.running # {}
       /\ r.phase \in {"returned", "raised"} =>
            r.running = {} /\ (r.phase = "raised" <=> r.failed # {})

\* What was there at the beginning waits for its verdict, is on the list, or was
\* denied; what is on the list was not denied.
Sifted(r) ==
  /\ r.present \subseteq DOMAIN ctx
  /\ ToSet(r.list) \subseteq r.present /\ ToSet(r.todo) \subseteq r.present
  /\ \A i, j \in DOMAIN r.todo : r.todo[i] = r.todo[j] => i = j
  /\ ToSet(r.list) \cap ToSet(r.todo) = {}
  /\ r.phase \in {"open", "returned"} \/ r.called # <<>> => r.todo = <<>>
  /\ \A e \in ToSet(r.list) :
       \/ Question(e) = None
       \/ r.verdict[Question(e)] = "yes"
       \/ r.phase # "admitting" /\ r.verdict[Question(e)] # "no"
  /\ r.mode # None /\ (r.phase # "raised" \/ r.list # <<>>) =>
       \A e \in r.present :
         \/ e \in ToSet(r.list) \cup ToSet(r.todo)
         \/ Question(e) # None /\ r.verdict[Question(e)] = "no"

Sound(r) ==
  Heard(r) /\ Begins(r) /\ Linked(r) /\ InTurnRuns(r) /\ Gathered(r) /\ Sifted(r)

BusTypes == ChannelType /\ disp \in [Dispatches -> DispatchType]

BusInv == BusTypes /\ Grouped /\ \A d \in Dispatches : Sound(disp[d])

-----------------------------------------------------------------------------
\* Facts about the model's operators

\* A set of naturals that is not empty has a least element, and Min finds it.
LEMMA MinOfNaturals ==
  ASSUME NEW S, S \subseteq Nat, S # {}
  PROVE  Min(S) \in S
PROOF
<1>1. PICK x \in S : \A y \in S : <<y, x>> \notin OpToRel(<, Nat)
  <2>. DEFINE less == OpToRel(<, Nat)
  <2>1. IsWellFoundedOn(less, Nat)
    BY NatLessThanWellFounded
  <2>. HIDE DEF less
  <2>2. \E x \in S : \A y \in S : ~ (<<y, x>> \in less)
    BY <2>1, WFMin
  <2> QED BY <2>2 DEF less
<1>2. ASSUME NEW y \in S
      PROVE  x <= y
  <2>1. <<y, x>> \in Nat \X Nat /\ <<y, x>>[1] = y /\ <<y, x>>[2] = x
    OBVIOUS
  <2>2. ~ (y < x)
    BY <1>1, <2>1 DEF OpToRel
  <2> QED BY <2>2
<1> QED BY <1>2 DEF Min

\* The filter to ask about an entry is a filter (filter_of).
LEMMA QuestionType ==
  ASSUME ChannelType, NEW e \in DOMAIN ctx
  PROVE  Question(e) \in Filters \cup {None}
PROOF
<1>1. CASE ctx[e] = None
  BY <1>1 DEF Question
<1>2. CASE ctx[e] # None
  <2>1. ctx[e] \in Contexts
    BY <1>2 DEF ChannelType
  <2>. DEFINE way == Lineage[ctx[e]]
              declaring == {i \in DOMAIN way : OwnFilter[way[i]] # None}
  <2>2. way \in Seq(DOMAIN OwnFilter)
    BY <2>1, BusAssumption
  <2>3. declaring \subseteq Nat /\ declaring \subseteq DOMAIN way
    BY <2>2
  <2>4. declaring # {} => OwnFilter[way[Min(declaring)]] \in Filters \cup {None}
    <3>. HIDE DEF declaring
    <3>1. declaring # {} => Min(declaring) \in DOMAIN way
      BY <2>3, MinOfNaturals
    <3>. HIDE DEF way
    <3>2. \A i \in DOMAIN way : OwnFilter[way[i]] \in Filters \cup {None}
      BY <2>2, BusAssumption
    <3> QED BY <3>1, <3>2
  <2> QED BY <1>2, <2>4 DEF Question, FilterOf
<1> QED BY <1>1, <1>2

\* A sequence where nothing stands twice.
Distinct(s) == \A i, j \in DOMAIN s : s[i] = s[j] => i = j

\* What an append adds.
LEMMA AppendFacts ==
  ASSUME NEW S, NEW s \in Seq(S), NEW e \in S
  PROVE  /\ Append(s, e) \in Seq(S) /\ Len(Append(s, e)) = Len(s) + 1
         /\ \A i \in 1..Len(s) : Append(s, e)[i] = s[i]
         /\ Append(s, e)[Len(s) + 1] = e
         /\ ToSet(Append(s, e)) = ToSet(s) \cup {e}
         /\ Distinct(s) /\ e \notin ToSet(s) => Distinct(Append(s, e))
PROOF
<1>. DEFINE t == Append(s, e)
            n == Len(s)
<1>1. /\ t \in Seq(S) /\ Len(t) = n + 1 /\ n \in Nat
      /\ \A i \in 1..n : t[i] = s[i]
      /\ t[n + 1] = e /\ DOMAIN t = 1..n + 1 /\ DOMAIN s = 1..n
  OBVIOUS
<1>. HIDE DEF t, n
<1>2. ToSet(t) = ToSet(s) \cup {e}
  <2>1. \A i \in DOMAIN t : t[i] \in ToSet(s) \cup {e}
    BY <1>1 DEF ToSet
  <2>2. \A i \in DOMAIN s : i \in DOMAIN t /\ t[i] = s[i]
    BY <1>1
  <2>3. n + 1 \in DOMAIN t
    BY <1>1
  <2> QED BY <1>1, <2>1, <2>2, <2>3 DEF ToSet
<1>3. ASSUME Distinct(s), e \notin ToSet(s), NEW i \in DOMAIN t, NEW j \in DOMAIN t,
             t[i] = t[j]
      PROVE  i = j
  <2>1. \A k \in DOMAIN s : s[k] # e
    BY <1>3 DEF ToSet
  <2>2. /\ i = n + 1 \/ (i \in DOMAIN s /\ t[i] = s[i])
        /\ j = n + 1 \/ (j \in DOMAIN s /\ t[j] = s[j])
    BY <1>1
  <2> QED BY <1>1, <1>3, <2>1, <2>2 DEF Distinct
<1> QED BY <1>1, <1>2, <1>3 DEF t, n, Distinct

\* What Tail leaves.
LEMMA TailFacts ==
  ASSUME NEW S, NEW s \in Seq(S), s # <<>>
  PROVE  /\ Tail(s) \in Seq(S) /\ Head(s) \in S /\ Len(Tail(s)) = Len(s) - 1
         /\ ToSet(s) = {Head(s)} \cup ToSet(Tail(s))
         /\ Distinct(s) => Distinct(Tail(s)) /\ Head(s) \notin ToSet(Tail(s))
PROOF
<1>. DEFINE t == Tail(s)
            n == Len(s)
            e == Head(s)
<1>1. /\ t \in Seq(S) /\ e \in S /\ n \in Nat \ {0} /\ e = s[1]
      /\ Len(t) = n - 1 /\ \A i \in 1..Len(t) : t[i] = s[i + 1]
  BY HeadTailProperties, EmptySeq
<1>2. DOMAIN s = 1..n /\ DOMAIN t = 1..n - 1
  BY <1>1
<1>. HIDE DEF t, n, e
<1>3. /\ \A i \in DOMAIN t : i + 1 \in DOMAIN s /\ i + 1 # 1 /\ t[i] = s[i + 1]
      /\ \A i \in DOMAIN s : i = 1 \/ i - 1 \in DOMAIN t
      /\ 1 \in DOMAIN s /\ \A i \in DOMAIN t : i \in Int
  BY <1>1, <1>2
<1>4. \A i \in DOMAIN s : i = 1 \/ (i - 1 \in DOMAIN t /\ s[i] = t[i - 1])
  <2>1. ASSUME NEW i \in DOMAIN s, i # 1
        PROVE  i - 1 \in DOMAIN t /\ s[i] = t[i - 1]
    <3>1. i - 1 \in DOMAIN t /\ (i - 1) + 1 = i
      BY <1>2, <1>3, <2>1
    <3>2. t[i - 1] = s[(i - 1) + 1]
      BY <1>3, <3>1
    <3> QED BY <3>1, <3>2
  <2> QED BY <2>1
<1>5. ToSet(s) = {e} \cup ToSet(t)
  <2>1. ToSet(s) \subseteq {e} \cup ToSet(t)
    BY <1>1, <1>4 DEF ToSet
  <2>2. {e} \cup ToSet(t) \subseteq ToSet(s)
    BY <1>1, <1>3 DEF ToSet
  <2> QED BY <2>1, <2>2
<1>6. ASSUME Distinct(s)
      PROVE  Distinct(t) /\ e \notin ToSet(t)
  <2>1. e \notin ToSet(t)
    BY <1>1, <1>3, <1>6 DEF ToSet, Distinct
  <2>2. Distinct(t)
    BY <1>3, <1>6 DEF Distinct
  <2> QED BY <2>1, <2>2
<1> QED BY <1>1, <1>5, <1>6 DEF t, n, e

\* The place of an element in a sequence is one of its places.
LEMMA PositionOf ==
  ASSUME NEW s, NEW e \in ToSet(s)
  PROVE  Position(s, e) \in DOMAIN s /\ s[Position(s, e)] = e
PROOF BY DEF Position, ToSet

\* Removing an element shifts what stands behind it (_remove, stop).
LEMMA DropAt ==
  ASSUME NEW S, NEW s \in Seq(S), NEW e
  PROVE  /\ Drop(s, e) \in Seq(S)
         /\ e \notin ToSet(s) => Drop(s, e) = s
         /\ e \in ToSet(s) =>
              /\ Len(Drop(s, e)) = Len(s) - 1
              /\ \A i \in 1..Len(s) - 1 :
                   Drop(s, e)[i] = IF i < Position(s, e) THEN s[i] ELSE s[i + 1]
PROOF
<1>1. CASE e \notin ToSet(s)
  BY <1>1 DEF Drop
<1>2. CASE e \in ToSet(s)
  <2>. DEFINE p == Position(s, e)
              front == SubSeq(s, 1, p - 1)
              back == SubSeq(s, p + 1, Len(s))
  <2>1. p \in 1..Len(s)
    BY <1>2, PositionOf
  <2>. HIDE DEF p
  <2>2. front \in Seq(S) /\ Len(front) = p - 1 /\ \A i \in 1..p - 1 : front[i] = s[i]
    BY <2>1, SubSeqProperties
  <2>3. /\ back \in Seq(S) /\ Len(back) = Len(s) - p
        /\ \A i \in 1..Len(s) - p : back[i] = s[p + i]
    BY <2>1, SubSeqProperties
  <2>4. Drop(s, e) = front \o back
    BY <1>2 DEF Drop, RemoveAt, p
  <2>. HIDE DEF front, back
  <2>5. /\ front \o back \in Seq(S) /\ Len(front \o back) = Len(s) - 1
        /\ \A i \in 1..Len(s) - 1 :
             (front \o back)[i] = IF i < p THEN s[i] ELSE s[i + 1]
    <3>1. /\ front \o back \in Seq(S) /\ Len(front \o back) = Len(s) - 1
          /\ \A i \in 1..Len(s) - 1 : (front \o back)[i] =
               IF i <= Len(front) THEN front[i] ELSE back[i - Len(front)]
      <4>1. front \in Seq(S) /\ back \in Seq(S)
        BY <2>2, <2>3
      <4>2. /\ front \o back \in Seq(S)
            /\ Len(front \o back) = Len(front) + Len(back)
            /\ \A i \in 1..Len(front) + Len(back) : (front \o back)[i] =
                 IF i <= Len(front) THEN front[i] ELSE back[i - Len(front)]
        BY <4>1, ConcatProperties
      <4>3. Len(front) + Len(back) = Len(s) - 1
        BY <2>1, <2>2, <2>3
      <4> QED BY <4>2, <4>3
    <3>2. ASSUME NEW i \in 1..Len(s) - 1
          PROVE  (front \o back)[i] = IF i < p THEN s[i] ELSE s[i + 1]
      <4>1. CASE i < p
        BY <2>1, <2>2, <3>1, <4>1
      <4>2. CASE ~(i < p)
        <5>1. i - Len(front) \in 1..Len(s) - p /\ p + (i - Len(front)) = i + 1
          BY <2>1, <2>2, <4>2
        <5> QED BY <2>1, <2>2, <2>3, <3>1, <4>2, <5>1
      <4> QED BY <4>1, <4>2
    <3> QED BY <3>1, <3>2
  <2> QED BY <1>2, <2>4, <2>5 DEF p
<1> QED BY <1>1, <1>2

\* In a sequence where nothing stands twice, removing an element removes it.
LEMMA DropRemoves ==
  ASSUME NEW S, NEW s \in Seq(S), NEW e,
         \A i, j \in DOMAIN s : s[i] = s[j] => i = j
  PROVE  ToSet(Drop(s, e)) = ToSet(s) \ {e}
PROOF
<1>1. CASE e \notin ToSet(s)
  BY <1>1, DropAt
<1>2. CASE e \in ToSet(s)
  <2>. DEFINE p == Position(s, e)
              t == Drop(s, e)
  <2>1. p \in 1..Len(s) /\ s[p] = e
    BY <1>2, PositionOf
  <2>2. /\ DOMAIN t = 1..Len(s) - 1
        /\ \A i \in 1..Len(s) - 1 : t[i] = IF i < p THEN s[i] ELSE s[i + 1]
    BY <1>2, DropAt
  <2>. HIDE DEF p, t
  <2>3. \A i \in DOMAIN t : t[i] \in ToSet(s) \ {e}
    BY <2>1, <2>2 DEF ToSet
  <2>4. ASSUME NEW i \in DOMAIN s, s[i] # e
        PROVE  s[i] \in ToSet(t)
    <3>1. CASE i < p
      <4>1. i \in 1..Len(s) - 1 /\ t[i] = s[i]
        BY <2>1, <2>2, <3>1
      <4> QED BY <2>2, <4>1 DEF ToSet
    <3>2. CASE i > p
      <4>1. i - 1 \in 1..Len(s) - 1 /\ ~(i - 1 < p) /\ t[i - 1] = s[i]
        BY <2>1, <2>2, <3>2
      <4> QED BY <2>2, <4>1 DEF ToSet
    <3> QED BY <2>1, <2>4, <3>1, <3>2
  <2>5. ToSet(t) = ToSet(s) \ {e}
    BY <2>3, <2>4 DEF ToSet
  <2> QED BY <2>5 DEF t
<1> QED BY <1>1, <1>2

-----------------------------------------------------------------------------
\* The invariant holds at the start and across the actions of the channel

LEMMA BusInvInit == Init => BusInv
PROOF
<1>. SUFFICES ASSUME Init PROVE BusInv
  OBVIOUS
<1>1. BusTypes
  BY BusAssumption DEF Init, BusTypes, ChannelType, Undone, DispatchType
<1>2. Grouped
  BY DEF Init, Grouped, Live, ToSet
<1>3. ASSUME NEW d \in Dispatches
      PROVE  Sound(disp[d])
  <2>1. disp[d] = Undone
    BY DEF Init
  <2>2. Sound(Undone)
    BY BusAssumption DEF Sound, Heard, Begins, Linked, InTurnRuns, Gathered, Sifted,
       Undone, Unasked, ToSet, AllModes
  <2> QED BY <2>1, <2>2
<1> QED BY <1>1, <1>2, <1>3 DEF BusInv

\* What was said of an entry stays true as long as its context does.
LEMMA SoundKept ==
  ASSUME ChannelType, disp' = disp,
         NEW d \in Dispatches, Sound(disp[d]),
         \A e \in DOMAIN ctx : e \in DOMAIN ctx' /\ ctx'[e] = ctx[e]
  PROVE  Sound(disp[d])'
PROOF
<1>. DEFINE r == disp[d]
<1>1. /\ Heard(r)' /\ Begins(r)' /\ Linked(r)' /\ InTurnRuns(r)' /\ Gathered(r)'
  <2>1. r' = r
    OBVIOUS
  <2>2. Heard(r)'
    BY <2>1 DEF Sound, Heard
  <2>3. Begins(r)'
    BY <2>1 DEF Sound, Begins
  <2>4. Linked(r)'
    BY <2>1 DEF Sound, Linked
  <2>5. InTurnRuns(r)'
    BY <2>1 DEF Sound, InTurnRuns
  <2>6. Gathered(r)'
    BY <2>1 DEF Sound, Gathered
  <2> QED BY <2>2, <2>3, <2>4, <2>5, <2>6
<1>2. \A e \in DOMAIN ctx : Question(e)' = Question(e)
  BY DEF Question
<1>3. Sifted(r)'
  <2>1. Sifted(r)
    BY DEF Sound
  <2>2. /\ ToSet(r.list) \subseteq DOMAIN ctx
        /\ r.present \subseteq DOMAIN ctx
    BY <2>1 DEF Sifted
  <2>3. r' = r
    OBVIOUS
  <2> QED BY <1>2, <2>1, <2>2, <2>3 DEF Sifted
<1> QED BY <1>1, <1>3 DEF Sound

\* A registration comes behind, or before, everything registered earlier.
LEMMA EnlistKeeps ==
  ASSUME BusInv, NEW c \in Contexts \cup {None}, NEW first \in BOOLEAN, Enlist(c, first)
  PROVE  BusInv'
PROOF
<1>. DEFINE e == Len(ctx) + 1
<1>1. /\ e \in Entries /\ ctx' = Append(ctx, c)
      /\ prepended' = IF first THEN <<e>> \o prepended ELSE prepended
      /\ normal' = IF first THEN normal ELSE Append(normal, e)
      /\ UNCHANGED <<gone, handlers, disp>>
  BY DEF Enlist
<1>2. /\ prepended \in Seq(Entries) /\ normal \in Seq(Entries)
      /\ ctx \in Seq(Contexts \cup {None}) /\ DOMAIN ctx = 1..Len(ctx)
      /\ gone \subseteq DOMAIN ctx /\ MaxEntries \in Nat
      /\ Len(ctx) \in Nat
  BY BusAssumption DEF BusInv, BusTypes, ChannelType
<1>3. /\ ctx' \in Seq(Contexts \cup {None}) /\ Len(ctx') = e /\ DOMAIN ctx' = 1..e
      /\ \A i \in DOMAIN ctx : i \in DOMAIN ctx' /\ ctx'[i] = ctx[i]
      /\ e \notin DOMAIN ctx
  BY <1>1, <1>2
<1>4. /\ prepended' \in Seq(Entries) /\ normal' \in Seq(Entries)
  BY <1>1, <1>2
<1>5. BusTypes'
  BY <1>1, <1>2, <1>3, <1>4 DEF BusInv, BusTypes, ChannelType, Entries
<1>6. Live' = Live \cup {e}
  BY <1>1, <1>2, <1>3 DEF Live
<1>7. \A x \in ToSet(prepended) \cup ToSet(normal) : x \in Nat /\ x < e
  BY <1>2 DEF BusInv, Grouped, Live
<1>8. Grouped'
  <2>1. CASE first
    <3>1. /\ Len(prepended') = Len(prepended) + 1 /\ prepended'[1] = e
          /\ \A i \in 1..Len(prepended) : prepended'[i + 1] = prepended[i]
          /\ \A i \in 2..Len(prepended) + 1 :
               prepended'[i] = prepended[i - 1] /\ i - 1 \in 1..Len(prepended)
          /\ DOMAIN prepended' = 1..Len(prepended) + 1
          /\ DOMAIN prepended = 1..Len(prepended)
          /\ normal' = normal
      BY <1>1, <1>2, <2>1
    <3>2. ToSet(prepended') = ToSet(prepended) \cup {e}
      <4>1. ASSUME NEW i \in DOMAIN prepended'
            PROVE  prepended'[i] \in ToSet(prepended) \cup {e}
        <5>1. Len(prepended) \in Nat
          BY <1>2
        <5>2. CASE i = 1
          BY <3>1, <5>2
        <5>3. CASE i # 1
          <6>1. i \in 2..Len(prepended) + 1
            BY <3>1, <5>1, <5>3
          <6>2. prepended'[i] = prepended[i - 1] /\ i - 1 \in DOMAIN prepended
            BY <3>1, <6>1
          <6> QED BY <6>2 DEF ToSet
        <5> QED BY <5>2, <5>3
      <4>2. \A i \in DOMAIN prepended : prepended[i] \in ToSet(prepended')
        <5>1. ASSUME NEW i \in DOMAIN prepended
              PROVE  i + 1 \in DOMAIN prepended' /\ prepended'[i + 1] = prepended[i]
          <6>1. i \in 1..Len(prepended) /\ Len(prepended) \in Nat
            BY <1>2, <3>1
          <6>2. i + 1 \in 1..Len(prepended) + 1
            BY <6>1
          <6> QED BY <3>1, <6>1, <6>2
        <5> QED BY <5>1 DEF ToSet
      <4>3. e \in ToSet(prepended')
        <5>1. 1 \in DOMAIN prepended'
          BY <1>2, <3>1
        <5> QED BY <3>1, <5>1 DEF ToSet
      <4> QED BY <4>1, <4>2, <4>3 DEF ToSet
    <3>3. ASSUME NEW i \in DOMAIN prepended', NEW j \in DOMAIN prepended', i < j
          PROVE  prepended'[i] > prepended'[j]
      <4>1. j \in 2..Len(prepended) + 1 /\ prepended'[j] = prepended[j - 1]
            /\ j - 1 \in DOMAIN prepended
        BY <1>2, <3>1, <3>3
      <4>2. CASE i = 1
        <5>1. prepended[j - 1] \in ToSet(prepended)
          BY <4>1 DEF ToSet
        <5> QED BY <1>2, <1>7, <3>1, <4>1, <4>2, <5>1
      <4>3. CASE i # 1
        <5>1. prepended'[i] = prepended[i - 1] /\ i - 1 \in DOMAIN prepended
              /\ i - 1 < j - 1
          BY <1>2, <3>1, <3>3, <4>3
        <5> QED BY <4>1, <5>1 DEF BusInv, Grouped
      <4> QED BY <4>2, <4>3
    <3>4. e \notin ToSet(normal)
      BY <1>2, <1>7
    <3>5. /\ \A i, j \in DOMAIN normal : i < j => normal[i] < normal[j]
          /\ ToSet(prepended) \cap ToSet(normal) = {}
          /\ ToSet(prepended) \cup ToSet(normal) = Live
      BY DEF BusInv, Grouped
    <3> QED BY <1>6, <3>1, <3>2, <3>3, <3>4, <3>5 DEF Grouped
  <2>2. CASE ~first
    <3>1. /\ Len(normal') = Len(normal) + 1 /\ normal'[Len(normal) + 1] = e
          /\ \A i \in 1..Len(normal) : normal'[i] = normal[i]
          /\ DOMAIN normal' = 1..Len(normal) + 1 /\ DOMAIN normal = 1..Len(normal)
          /\ prepended' = prepended
      BY <1>1, <1>2, <2>2
    <3>2. ToSet(normal') = ToSet(normal) \cup {e}
      BY <1>2, <3>1 DEF ToSet
    <3>3. ASSUME NEW i \in DOMAIN normal', NEW j \in DOMAIN normal', i < j
          PROVE  normal'[i] < normal'[j]
      <4>1. i \in DOMAIN normal /\ normal'[i] = normal[i]
        BY <1>2, <3>1, <3>3
      <4>2. CASE j = Len(normal) + 1
        <5>1. normal[i] \in ToSet(normal)
          BY <4>1 DEF ToSet
        <5> QED BY <1>7, <3>1, <4>1, <4>2, <5>1
      <4>3. CASE j # Len(normal) + 1
        <5>1. j \in DOMAIN normal /\ normal'[j] = normal[j]
          BY <1>2, <3>1, <4>3
        <5> QED BY <3>3, <4>1, <5>1 DEF BusInv, Grouped
      <4> QED BY <4>2, <4>3
    <3>4. e \notin ToSet(prepended)
      BY <1>2, <1>7
    <3>5. /\ \A i, j \in DOMAIN prepended : i < j => prepended[i] > prepended[j]
          /\ ToSet(prepended) \cap ToSet(normal) = {}
          /\ ToSet(prepended) \cup ToSet(normal) = Live
      BY DEF BusInv, Grouped
    <3> QED BY <1>6, <3>1, <3>2, <3>3, <3>4, <3>5 DEF Grouped
  <2> QED BY <2>1, <2>2
<1>9. \A d \in Dispatches : Sound(disp[d])'
  BY <1>1, <1>3, SoundKept DEF BusInv, BusTypes
<1> QED BY <1>5, <1>8, <1>9 DEF BusInv

\* Removing from a sequence keeps the order of what stays.
LEMMA DropOrder ==
  ASSUME NEW S, NEW s \in Seq(S), NEW e,
         NEW i \in DOMAIN Drop(s, e), NEW j \in DOMAIN Drop(s, e), i < j
  PROVE  \E k, l \in DOMAIN s : k < l /\ Drop(s, e)[i] = s[k] /\ Drop(s, e)[j] = s[l]
PROOF
<1>1. CASE e \notin ToSet(s)
  BY <1>1, DropAt
<1>2. CASE e \in ToSet(s)
  <2>. DEFINE p == Position(s, e)
              t == Drop(s, e)
  <2>1. /\ t \in Seq(S) /\ Len(t) = Len(s) - 1
        /\ \A n \in 1..Len(s) - 1 : t[n] = IF n < p THEN s[n] ELSE s[n + 1]
    BY <1>2, DropAt
  <2>2. i \in 1..Len(s) - 1 /\ j \in 1..Len(s) - 1
    BY <2>1
  <2>3. p \in 1..Len(s)
    BY <1>2, PositionOf
  <2>. DEFINE at(n) == IF n < p THEN n ELSE n + 1
  <2>4. at(i) \in DOMAIN s /\ at(j) \in DOMAIN s /\ at(i) < at(j)
    BY <2>2, <2>3
  <2>5. t[i] = s[at(i)] /\ t[j] = s[at(j)]
    BY <2>1, <2>2
  <2> QED BY <2>4, <2>5
<1> QED BY <1>1, <1>2

\* A disposal takes the entry out of its group and leaves the rest in order.
LEMMA WithdrawKeeps ==
  ASSUME BusInv, NEW e \in Entries, Withdraw(e)
  PROVE  BusInv'
PROOF
<1>1. /\ e \in Live /\ prepended' = Drop(prepended, e) /\ normal' = Drop(normal, e)
      /\ gone' = gone \cup {e} /\ UNCHANGED <<ctx, handlers, disp>>
  BY DEF Withdraw
<1>2. /\ prepended \in Seq(Entries) /\ normal \in Seq(Entries)
      /\ gone \subseteq DOMAIN ctx
  BY DEF BusInv, BusTypes, ChannelType
<1>3. prepended' \in Seq(Entries) /\ normal' \in Seq(Entries)
  BY <1>1, <1>2, DropAt
<1>4. BusTypes'
  BY <1>1, <1>3 DEF BusInv, BusTypes, ChannelType, Live
<1>5. Live' = Live \ {e}
  BY <1>1 DEF Live
<1>6. /\ \A i, j \in DOMAIN prepended : prepended[i] = prepended[j] => i = j
      /\ \A i, j \in DOMAIN normal : normal[i] = normal[j] => i = j
  <2>. MaxEntries \in Nat
    BY BusAssumption
  <2>1. \A i \in DOMAIN prepended : i \in Int /\ prepended[i] \in Int
    BY <1>2 DEF Entries
  <2>2. \A i \in DOMAIN normal : i \in Int /\ normal[i] \in Int
    BY <1>2 DEF Entries
  <2>3. /\ \A i, j \in DOMAIN prepended : i < j => prepended[i] > prepended[j]
        /\ \A i, j \in DOMAIN normal : i < j => normal[i] < normal[j]
    BY DEF BusInv, Grouped
  <2>4. ASSUME NEW i \in DOMAIN prepended, NEW j \in DOMAIN prepended,
               prepended[i] = prepended[j]
        PROVE  i = j
    BY <2>1, <2>3, <2>4
  <2>5. ASSUME NEW i \in DOMAIN normal, NEW j \in DOMAIN normal, normal[i] = normal[j]
        PROVE  i = j
    BY <2>2, <2>3, <2>5
  <2> QED BY <2>4, <2>5
<1>7. /\ ToSet(prepended') = ToSet(prepended) \ {e}
      /\ ToSet(normal') = ToSet(normal) \ {e}
  BY <1>1, <1>2, <1>6, DropRemoves
<1>8. ASSUME NEW i \in DOMAIN prepended', NEW j \in DOMAIN prepended', i < j
      PROVE  prepended'[i] > prepended'[j]
  <2>1. PICK k, l \in DOMAIN prepended :
          k < l /\ prepended'[i] = prepended[k] /\ prepended'[j] = prepended[l]
    BY <1>1, <1>2, <1>8, DropOrder
  <2> QED BY <2>1 DEF BusInv, Grouped
<1>9. ASSUME NEW i \in DOMAIN normal', NEW j \in DOMAIN normal', i < j
      PROVE  normal'[i] < normal'[j]
  <2>1. PICK k, l \in DOMAIN normal :
          k < l /\ normal'[i] = normal[k] /\ normal'[j] = normal[l]
    BY <1>1, <1>2, <1>9, DropOrder
  <2> QED BY <2>1 DEF BusInv, Grouped
<1>10. Grouped'
  <2>1. /\ ToSet(prepended) \cap ToSet(normal) = {}
        /\ ToSet(prepended) \cup ToSet(normal) = Live
    BY DEF BusInv, Grouped
  <2> QED BY <1>5, <1>7, <1>8, <1>9, <2>1 DEF Grouped
<1>11. \A d \in Dispatches : Sound(disp[d])'
  BY <1>1, SoundKept DEF BusInv, BusTypes
<1> QED BY <1>4, <1>10, <1>11 DEF BusInv

\* The handlers are nobody's business until a failure is reported.
LEMMA HandlersKeep ==
  ASSUME BusInv, NEW h \in Handlers, OnError(h) \/ StopHandler(h)
  PROVE  BusInv'
PROOF
<1>1. /\ UNCHANGED <<prepended, normal, ctx, gone, disp>>
      /\ handlers' = Append(handlers, h) \/ handlers' = Drop(handlers, h)
  BY DEF OnError, StopHandler, channel
<1>2. handlers \in Seq(Handlers)
  BY DEF BusInv, BusTypes, ChannelType
<1>3. handlers' \in Seq(Handlers)
  BY <1>1, <1>2, DropAt
<1>4. BusTypes' /\ Grouped'
  BY <1>1, <1>3 DEF BusInv, BusTypes, ChannelType, Grouped, Live
<1>5. \A d \in Dispatches : Sound(disp[d])'
  BY <1>1, SoundKept DEF BusInv, BusTypes
<1> QED BY <1>4, <1>5 DEF BusInv

-----------------------------------------------------------------------------
\* The invariant across the steps of a dispatch

\* What holds of a record holds of the dispatch whose record it becomes.
LEMMA SoundOf ==
  ASSUME NEW c \in Dispatches, NEW q, q = disp'[c], ctx' = ctx, Sound(q)
  PROVE  Sound(disp[c])'
PROOF
<1>1. \A e : Question(e)' = Question(e)
  BY DEF Question
<1>2. Heard(q) /\ Begins(q) /\ Linked(q) /\ InTurnRuns(q) /\ Gathered(q) /\ Sifted(q)
  BY DEF Sound
<1>3. Sifted(q)'
  BY <1>1, <1>2 DEF Sifted
<1>4. Heard(disp[c])'
  BY <1>2 DEF Heard
<1>5. Begins(disp[c])'
  BY <1>2 DEF Begins
<1>6. Linked(disp[c])'
  BY <1>2 DEF Linked
<1>7. InTurnRuns(disp[c])'
  BY <1>2 DEF InTurnRuns
<1>8. Gathered(disp[c])'
  BY <1>2 DEF Gathered
<1>9. Sifted(disp[c])'
  BY <1>3 DEF Sifted
<1> QED BY <1>4, <1>5, <1>6, <1>7, <1>8, <1>9 DEF Sound

\* A step of one dispatch is a step of its record.
LEMMA StepOfOne ==
  ASSUME BusInv, NEW d \in Dispatches, NEW r \in DispatchType, Sound(r),
         disp' = [disp EXCEPT ![d] = r], UNCHANGED <<channel, handlers>>
  PROVE  BusInv'
PROOF
<1>1. UNCHANGED <<prepended, normal, ctx, gone, handlers>>
  BY DEF channel
<1>2. disp' \in [Dispatches -> DispatchType]
  BY DEF BusInv, BusTypes
<1>3. BusTypes' /\ Grouped'
  BY <1>1, <1>2 DEF BusInv, BusTypes, ChannelType, Grouped, Live
<1>4. ASSUME NEW c \in Dispatches
      PROVE  Sound(disp[c])'
  <2>1. PICK q : q = disp'[c]
    OBVIOUS
  <2>2. q = r \/ q = disp[c]
    BY <2>1 DEF BusInv, BusTypes
  <2>3. Sound(q)
    BY <2>2 DEF BusInv
  <2> QED BY <1>1, <2>1, <2>3, SoundOf
<1> QED BY <1>3, <1>4 DEF BusInv

\* The parts of the invariant, of one dispatch.
LEMMA SoundParts ==
  ASSUME BusInv, NEW d \in Dispatches
  PROVE  /\ disp[d] \in DispatchType
         /\ Heard(disp[d]) /\ Begins(disp[d]) /\ Linked(disp[d])
         /\ InTurnRuns(disp[d]) /\ Gathered(disp[d]) /\ Sifted(disp[d])
PROOF BY DEF BusInv, BusTypes, Sound

\* The snapshot holds what is live, everything once: those that asked to be
\* first, the latest of them first, and then the others as they came
\* (_Channel.snapshot).
LEMMA SnapshotHolds ==
  ASSUME BusInv
  PROVE  /\ Snapshot \in Seq(Entries) /\ Live \subseteq Entries
         /\ Live \subseteq DOMAIN ctx /\ ToSet(Snapshot) = Live
         /\ \A i, j \in DOMAIN Snapshot : i < j =>
              \/ Snapshot[i] \in ToSet(prepended) /\ Snapshot[j] \in ToSet(normal)
              \/ Snapshot[i] \in ToSet(prepended) /\ Snapshot[j] < Snapshot[i]
              \/ Snapshot[j] \in ToSet(normal) /\ Snapshot[i] < Snapshot[j]
         /\ \A i, j \in DOMAIN Snapshot : Snapshot[i] = Snapshot[j] => i = j
PROOF
<1>. DEFINE s == Snapshot
            n == Len(prepended)
            m == Len(normal)
<1>1. /\ prepended \in Seq(Entries) /\ normal \in Seq(Entries)
      /\ n \in Nat /\ m \in Nat /\ DOMAIN prepended = 1..n /\ DOMAIN normal = 1..m
  BY DEF BusInv, BusTypes, ChannelType
<1>2. /\ s \in Seq(Entries) /\ Len(s) = n + m
      /\ \A i \in 1..n + m : s[i] = IF i <= n THEN prepended[i] ELSE normal[i - n]
  BY <1>1, ConcatProperties DEF Snapshot
<1>3. DOMAIN s = 1..n + m
  BY <1>1, <1>2
<1>. HIDE DEF s
<1>4. \A i \in DOMAIN s :
        \/ i <= n /\ i \in DOMAIN prepended /\ s[i] = prepended[i]
        \/ i > n /\ i - n \in DOMAIN normal /\ s[i] = normal[i - n]
  BY <1>1, <1>2, <1>3
<1>5. Live \subseteq Entries /\ Live \subseteq DOMAIN ctx
  BY BusAssumption DEF BusInv, BusTypes, ChannelType, Live, Entries
<1>6. ToSet(s) = ToSet(prepended) \cup ToSet(normal)
  <2>1. \A i \in DOMAIN s : s[i] \in ToSet(prepended) \cup ToSet(normal)
    BY <1>4 DEF ToSet
  <2>2. \A i \in DOMAIN prepended : i \in DOMAIN s /\ s[i] = prepended[i]
    BY <1>1, <1>2, <1>3
  <2>3. \A i \in DOMAIN normal : i + n \in DOMAIN s /\ s[i + n] = normal[i]
    BY <1>1, <1>2, <1>3
  <2>4. ToSet(prepended) \subseteq ToSet(s)
    BY <2>2 DEF ToSet
  <2>5. ToSet(normal) \subseteq ToSet(s)
    BY <2>3 DEF ToSet
  <2> QED BY <2>1, <2>4, <2>5 DEF ToSet
<1>7. ToSet(s) = Live
  BY <1>6 DEF BusInv, Grouped
<1>8. ASSUME NEW i \in DOMAIN s, NEW j \in DOMAIN s, i < j
      PROVE  \/ s[i] \in ToSet(prepended) /\ s[j] \in ToSet(normal)
             \/ s[i] \in ToSet(prepended) /\ s[j] < s[i]
             \/ s[j] \in ToSet(normal) /\ s[i] < s[j]
  <2>1. CASE j <= n
    <3>1. /\ i \in DOMAIN prepended /\ s[i] = prepended[i]
          /\ j \in DOMAIN prepended /\ s[j] = prepended[j]
      BY <1>1, <1>3, <1>4, <1>8, <2>1
    <3>2. prepended[i] > prepended[j]
      BY <1>8, <3>1 DEF BusInv, Grouped
    <3>3. s[i] \in Int /\ s[j] \in Int
      <4>1. s[i] \in Entries /\ s[j] \in Entries
        BY <1>2, <1>3
      <4> QED BY <4>1 DEF Entries
    <3> QED BY <3>1, <3>2, <3>3 DEF ToSet
  <2>2. CASE i <= n /\ j > n
    <3>1. s[i] \in ToSet(prepended)
      BY <1>1, <1>3, <1>4, <2>2 DEF ToSet
    <3>2. s[j] \in ToSet(normal)
      BY <1>1, <1>3, <1>4, <2>2 DEF ToSet
    <3> QED BY <3>1, <3>2
  <2>3. CASE i > n
    <3>1. /\ i - n \in DOMAIN normal /\ s[i] = normal[i - n]
          /\ j - n \in DOMAIN normal /\ s[j] = normal[j - n]
          /\ i - n < j - n
      BY <1>1, <1>3, <1>4, <1>8, <2>3
    <3>2. normal[i - n] < normal[j - n]
      BY <3>1 DEF BusInv, Grouped
    <3> QED BY <3>1, <3>2 DEF ToSet
  <2> QED BY <1>1, <1>3, <1>8, <2>1, <2>2, <2>3
<1>9. ASSUME NEW i \in DOMAIN s, NEW j \in DOMAIN s, s[i] = s[j]
      PROVE  i = j
  <2>1. s[i] \in Int /\ s[j] \in Int
    <3>1. s[i] \in Entries /\ s[j] \in Entries
      BY <1>2, <1>3
    <3> QED BY <3>1 DEF Entries
  <2>2. ToSet(prepended) \cap ToSet(normal) = {}
    BY DEF BusInv, Grouped
  <2>3. ~(i < j) /\ ~(j < i)
    BY <1>8, <1>9, <2>1, <2>2
  <2> QED BY <1>1, <1>3, <2>3
<1> QED BY <1>2, <1>5, <1>7, <1>8, <1>9 DEF s

\* A dispatch that has called nobody yet.
LEMMA NobodyCalled ==
  ASSUME NEW q \in DispatchType, q.phase # "idle", q.mode # None,
         \A i, j \in DOMAIN q.list : q.list[i] = q.list[j] => i = j,
         q.called = <<>>, q.asked = Unasked, q.running = {}, q.failed = {}, q.spoke = {},
         q.phase # "returned"
  PROVE  Begins(q) /\ Linked(q) /\ InTurnRuns(q) /\ Gathered(q)
PROOF
<1>1. Begins(q)
  <2>1. Len(q.list) \in Nat /\ Len(q.called) = 0 /\ 1..Len(q.called) = {}
    BY DEF DispatchType
  <2> QED BY <2>1 DEF Begins
<1>2. Linked(q)
  <2>1. \A k \in DOMAIN q.list : q.list[k] \in Entries /\ k \in Nat /\ k > 0
    BY DEF DispatchType
  <2> QED BY <2>1 DEF Linked, Unasked
<1>3. InTurnRuns(q) /\ Gathered(q)
  BY DEF InTurnRuns, Gathered
<1> QED BY <1>1, <1>2, <1>3

\* What a dispatch begins with: nothing has been called, and everything that is
\* live is on the list, or waits for its verdict.
LEMMA DispatchSound ==
  ASSUME BusInv, NEW d \in Dispatches, NEW mode \in Modes,
         Dispatch(d, mode) \/ BoundDispatch(d, mode) \/ WrongMode(d, mode)
  PROVE  BusInv'
PROOF
<1>. DEFINE b == Begun(d, mode)
<1>1. mode \in AllModes /\ mode # None
  BY BusAssumption
<1>2. disp[d] = Undone
  <2>1. disp[d].phase = "idle"
    BY DEF Dispatch, BoundDispatch, WrongMode, Startable
  <2> QED BY <2>1, SoundParts DEF Begins
<1>3. /\ b \in DispatchType /\ b.phase = "idle" /\ b.mode = mode
      /\ b.todo = <<>> /\ b.list = <<>> /\ b.called = <<>>
      /\ b.verdict = [p \in Filters |-> None] /\ b.asked = Unasked
      /\ b.running = {} /\ b.failed = {} /\ b.spoke = {} /\ b.answer = None
      /\ b.audience = <<>> /\ b.told = <<>> /\ b.installed = {} /\ b.present = Live
  <2>1. disp[d] \in DispatchType /\ Live \in SUBSET Entries
    BY SoundParts, SnapshotHolds
  <2>. DEFINE u == disp[d]
  <2>2. b = [u EXCEPT !.mode = mode, !.present = Live]
    BY DEF Begun
  <2>3. b \in DispatchType
    BY <1>1, <2>1, <2>2 DEF DispatchType
  <2>4. /\ b.mode = mode /\ b.present = Live /\ b.phase = u.phase
        /\ b.todo = u.todo /\ b.list = u.list /\ b.called = u.called
        /\ b.verdict = u.verdict /\ b.asked = u.asked
        /\ b.running = u.running /\ b.failed = u.failed /\ b.spoke = u.spoke
        /\ b.answer = u.answer /\ b.audience = u.audience /\ b.told = u.told
        /\ b.installed = u.installed
    BY <2>1, <2>2 DEF DispatchType
  <2>5. /\ u.phase = "idle" /\ u.todo = <<>> /\ u.list = <<>> /\ u.called = <<>>
        /\ u.verdict = [p \in Filters |-> None] /\ u.asked = Unasked
        /\ u.running = {} /\ u.failed = {} /\ u.spoke = {} /\ u.answer = None
        /\ u.audience = <<>> /\ u.told = <<>> /\ u.installed = {}
    BY <1>2 DEF Undone, Unasked
  <2>. HIDE DEF b, u
  <2> QED BY <2>3, <2>4, <2>5
<1>. HIDE DEF b
<1>4. ASSUME NEW q \in DispatchType, q.mode = mode,
             q.phase \in {"open", "admitting", "raised"},
             q.phase = "open" => q.list = Snapshot /\ q.todo = <<>>,
             q.phase = "raised" => q.list = <<>> /\ q.todo = <<>>,
             q.phase = "admitting" => q.list = <<>> /\ q.todo = Snapshot,
             q.called = <<>>, q.verdict = [p \in Filters |-> None], q.asked = Unasked,
             q.running = {}, q.failed = {}, q.spoke = {},
             q.audience = <<>>, q.told = <<>>, q.installed = {}, q.present = Live
      PROVE  Sound(q)
  <2>1. Heard(q)
    BY <1>4 DEF Heard, ToSet
  <2>2. Begins(q) /\ Linked(q) /\ InTurnRuns(q) /\ Gathered(q)
    <3>1. \A i, j \in DOMAIN Snapshot : Snapshot[i] = Snapshot[j] => i = j
      BY SnapshotHolds
    <3>2. \A i, j \in DOMAIN q.list : q.list[i] = q.list[j] => i = j
      BY <1>4, <3>1
    <3> QED BY <1>1, <1>4, <3>2, NobodyCalled
  <2>6. Sifted(q)
    <3>1. \A e \in Live : Question(e) \in Filters \cup {None}
      BY QuestionType, SnapshotHolds DEF BusInv, BusTypes
    <3>2. ToSet(q.list) \subseteq Live /\ ToSet(q.todo) \subseteq Live
      BY <1>4, SnapshotHolds DEF ToSet
    <3>3. \A e \in ToSet(q.list) :
            \/ Question(e) = None
            \/ q.phase # "admitting" /\ q.verdict[Question(e)] # "no"
      BY <1>4, <3>1, <3>2, BusAssumption DEF ToSet
    <3>4. q.phase # "raised" => Live \subseteq ToSet(q.list) \cup ToSet(q.todo)
      BY <1>4, SnapshotHolds
    <3>5. ToSet(q.list) \cap ToSet(q.todo) = {}
      BY <1>4 DEF ToSet
    <3>6. \A i, j \in DOMAIN q.todo : q.todo[i] = q.todo[j] => i = j
      BY <1>4, SnapshotHolds
    <3> QED BY <1>4, <3>2, <3>3, <3>4, <3>5, <3>6, SnapshotHolds DEF Sifted
  <2> QED BY <2>1, <2>2, <2>6 DEF Sound
<1>5. CASE Dispatch(d, mode)
  <2>. DEFINE q == [b EXCEPT !.phase = "open", !.list = Snapshot]
  <2>1. q \in DispatchType
    BY <1>3, SnapshotHolds DEF DispatchType
  <2>2. Sound(q)
    BY <1>3, <1>4, <2>1 DEF DispatchType
  <2> QED BY <1>5, <2>1, <2>2, StepOfOne DEF Dispatch, b
<1>6. CASE BoundDispatch(d, mode)
  <2>. DEFINE q == [b EXCEPT !.phase = "admitting", !.todo = Snapshot]
  <2>1. q \in DispatchType
    BY <1>3, SnapshotHolds DEF DispatchType
  <2>2. Sound(q)
    BY <1>3, <1>4, <2>1 DEF DispatchType
  <2> QED BY <1>6, <2>1, <2>2, StepOfOne DEF BoundDispatch, b
<1>7. CASE WrongMode(d, mode)
  <2>. DEFINE q == [b EXCEPT !.phase = "raised"]
  <2>1. q \in DispatchType
    BY <1>3 DEF DispatchType
  <2>2. Sound(q)
    BY <1>3, <1>4, <2>1 DEF DispatchType
  <2> QED BY <1>7, <2>1, <2>2, StepOfOne DEF WrongMode, b
<1> QED BY <1>5, <1>6, <1>7

\* A verdict takes the first entry from those that wait; the filters that have
\* answered keep their answers (_admitted).
LEMMA DecisionSound ==
  ASSUME BusInv, NEW d \in Dispatches, NEW v \in {"yes", "no"}, NEW q \in DispatchType,
         disp[d].phase = "admitting", disp[d].todo # <<>>,
         q.phase = "admitting", q.mode = disp[d].mode, q.present = disp[d].present,
         q.todo = Tail(disp[d].todo),
         q.list = IF v = "yes" THEN Append(disp[d].list, Head(disp[d].todo))
                  ELSE disp[d].list,
         Question(Head(disp[d].todo)) = None => v = "yes",
         Question(Head(disp[d].todo)) # None => q.verdict[Question(Head(disp[d].todo))] = v,
         \A p \in Filters : disp[d].verdict[p] # None => q.verdict[p] = disp[d].verdict[p],
         q.called = disp[d].called, q.asked = disp[d].asked, q.running = disp[d].running,
         q.failed = disp[d].failed, q.spoke = disp[d].spoke,
         Heard(q)
  PROVE  Sound(q)
PROOF
<1>. DEFINE r == disp[d]
            e == Head(r.todo)
<1>1. /\ r \in DispatchType /\ Begins(r) /\ InTurnRuns(r) /\ Sifted(r)
  BY SoundParts
<1>2. /\ q.phase = "admitting" /\ r.phase = "admitting" /\ r.mode # None
      /\ q.mode = r.mode /\ r.called = <<>> /\ r.running = {} /\ r.failed = {}
      /\ r.spoke = {} /\ r.asked = Unasked
  <2>1. r.mode # None /\ r.called = <<>>
    BY <1>1 DEF Begins
  <2>2. r.running = {} /\ r.failed = {} /\ r.asked = Unasked
    BY <1>1, <2>1 DEF Begins, ToSet
  <2>3. r.spoke = {}
    BY <1>1 DEF InTurnRuns
  <2> QED BY <2>1, <2>2, <2>3
<1>3. /\ r.todo \in Seq(Entries) /\ r.todo # <<>> /\ r.list \in Seq(Entries)
  BY <1>1 DEF DispatchType
<1>4. /\ Distinct(r.todo) /\ Distinct(r.list)
      /\ ToSet(r.list) \cap ToSet(r.todo) = {}
      /\ ToSet(r.list) \subseteq r.present /\ ToSet(r.todo) \subseteq r.present
      /\ r.present \subseteq DOMAIN ctx
      /\ \A x \in ToSet(r.list) : Question(x) = None \/ r.verdict[Question(x)] = "yes"
      /\ \A x \in r.present :
           \/ x \in ToSet(r.list) \cup ToSet(r.todo)
           \/ Question(x) # None /\ r.verdict[Question(x)] = "no"
  BY <1>1, <1>2 DEF Begins, Sifted, Distinct
<1>5. /\ q.phase = "admitting" /\ q.mode = r.mode /\ q.present = r.present
      /\ (Question(e) = None => v = "yes")
      /\ (Question(e) # None => q.verdict[Question(e)] = v)
      /\ (v = "yes" => q.list = Append(r.list, e)) /\ (v = "no" => q.list = r.list)
      /\ \A p \in Filters : r.verdict[p] # None => q.verdict[p] = r.verdict[p]
      /\ q.todo = Tail(r.todo)
  OBVIOUS
<1>10. e = Head(r.todo)
  OBVIOUS
<1>. HIDE DEF r, e
<1>6. /\ ToSet(r.todo) = {e} \cup ToSet(q.todo) /\ e \notin ToSet(q.todo)
      /\ Distinct(q.todo) /\ e \in Entries
  BY <1>3, <1>4, <1>5, <1>10, TailFacts
<1>7. /\ ToSet(q.list) = ToSet(r.list) \cup (IF v = "yes" THEN {e} ELSE {})
      /\ Distinct(q.list)
  <2>1. CASE v = "no"
    BY <1>4, <1>5, <2>1
  <2>2. CASE v = "yes"
    <3>1. e \notin ToSet(r.list)
      BY <1>4, <1>6
    <3>2. /\ ToSet(Append(r.list, e)) = ToSet(r.list) \cup {e}
          /\ Distinct(Append(r.list, e))
      BY <1>3, <1>4, <1>6, <3>1, AppendFacts
    <3> QED BY <1>5, <2>2, <3>2
  <2> QED BY <2>1, <2>2
<1>8. Begins(q) /\ Linked(q) /\ InTurnRuns(q) /\ Gathered(q)
  <2>1. q.called = <<>> /\ q.asked = Unasked /\ q.running = {} /\ q.failed = {}
        /\ q.spoke = {}
    BY <1>2 DEF r
  <2>2. \A i, j \in DOMAIN q.list : q.list[i] = q.list[j] => i = j
    BY <1>7 DEF Distinct
  <2> QED BY <1>2, <2>1, <2>2, NobodyCalled
<1>9. Sifted(q)
  <2>1. \A x \in r.present : Question(x) \in Filters \cup {None}
    BY <1>4, QuestionType DEF BusInv, BusTypes
  <2>2. ASSUME NEW x \in ToSet(q.list)
        PROVE  Question(x) = None \/ q.verdict[Question(x)] = "yes"
    <3>1. CASE x \in ToSet(r.list)
      BY <1>4, <1>5, <2>1, <3>1, BusAssumption
    <3>2. CASE x = e /\ v = "yes"
      BY <1>5, <3>2
    <3> QED BY <1>7, <2>2, <3>1, <3>2
  <2>3. ASSUME NEW x \in r.present
        PROVE  \/ x \in ToSet(q.list) \cup ToSet(q.todo)
               \/ Question(x) # None /\ q.verdict[Question(x)] = "no"
    <3>1. CASE x = e
      BY <1>5, <1>7, <3>1
    <3>2. CASE x # e /\ x \in ToSet(r.list) \cup ToSet(r.todo)
      BY <1>6, <1>7, <3>2
    <3>3. CASE Question(x) # None /\ r.verdict[Question(x)] = "no"
      BY <1>5, <2>1, <3>3, BusAssumption
    <3> QED BY <1>4, <3>1, <3>2, <3>3
  <2>4. /\ ToSet(q.list) \subseteq q.present /\ ToSet(q.todo) \subseteq q.present
        /\ ToSet(q.list) \cap ToSet(q.todo) = {}
    BY <1>4, <1>5, <1>6, <1>7
  <2>5. q.called = <<>>
    BY <1>2 DEF r
  <2> QED BY <1>4, <1>5, <1>6, <2>2, <2>3, <2>4, <2>5 DEF Sifted, Distinct
<1> QED BY <1>8, <1>9 DEF Sound

\* A report of a failure starts with all the handlers there are (_report).
LEMMA FailingHeard ==
  ASSUME BusTypes, NEW r \in DispatchType, r.phase = "open" => r.mode = "emit"
  PROVE  Failing(r) \in DispatchType /\ Heard(Failing(r))
PROOF
<1>. DEFINE q == Failing(r)
<1>1. /\ q = [r EXCEPT !.audience = handlers, !.told = <<>>, !.installed = ToSet(handlers)]
      /\ handlers \in Seq(Handlers) /\ ToSet(handlers) \in SUBSET Handlers
  BY DEF Failing, BusTypes, ChannelType, ToSet
<1>2. /\ q.audience = handlers /\ q.told = <<>>
      /\ q.installed = ToSet(handlers) /\ q.phase = r.phase /\ q.mode = r.mode
  BY <1>1 DEF DispatchType
<1>5. q \in DispatchType
  <2>. DEFINE none == <<>>
              r1 == [r EXCEPT !.audience = handlers]
              r2 == [r1 EXCEPT !.told = none]
  <2>4. none \in Seq(Handlers)
    BY EmptySeq
  <2>1. r1 \in DispatchType
    BY <1>1 DEF DispatchType
  <2>2. r2 \in DispatchType
    <3>. HIDE DEF r1, none
    <3> QED BY <2>1, <2>4 DEF DispatchType
  <2>3. q = [r2 EXCEPT !.installed = ToSet(handlers)]
    BY <1>1
  <2>. HIDE DEF r2
  <2> QED BY <1>1, <2>2, <2>3 DEF DispatchType
<1>. HIDE DEF q
<1>3. Len(handlers) \in Nat /\ Len(q.told) = 0
  BY <1>1, <1>2
<1>4. Heard(q)
  BY <1>2, <1>3 DEF Heard
<1> QED BY <1>4, <1>5 DEF q

\* One turn of the loop of the admission.
LEMMA AdmitKeeps ==
  ASSUME BusInv, NEW d \in Dispatches, Admit(d)
  PROVE  BusInv'
PROOF
<1>. DEFINE r == disp[d]
            e == Head(r.todo)
            p == Question(e)
<1>1. /\ r \in DispatchType /\ Heard(r) /\ Sifted(r)
      /\ r.phase = "admitting" /\ r.todo # <<>>
  BY SoundParts DEF Admit
<1>2. p \in Filters \cup {None}
  <2>1. r.todo \in Seq(Entries)
    BY <1>1 DEF DispatchType
  <2>2. e \in ToSet(r.todo)
    BY <1>1, <2>1 DEF ToSet
  <2>3. e \in DOMAIN ctx
    BY <1>1, <2>2 DEF Sifted
  <2> QED BY <2>3, QuestionType DEF BusInv, BusTypes
<1>3. ASSUME NEW v \in {"yes", "no"}, NEW w \in [Filters -> {"yes", "no", None}]
      PROVE  LET q == [Decided(r, e, v) EXCEPT !.verdict = w]
             IN /\ q \in DispatchType /\ q.phase = "admitting" /\ q.mode = r.mode
                /\ q.present = r.present /\ q.todo = Tail(r.todo)
                /\ q.list = (IF v = "yes" THEN Append(r.list, e) ELSE r.list)
                /\ q.verdict = w /\ q.called = r.called /\ q.asked = r.asked
                /\ q.running = r.running /\ q.failed = r.failed /\ q.spoke = r.spoke
                /\ q.told = r.told /\ q.audience = r.audience /\ q.installed = r.installed
  <2>1. /\ Tail(r.todo) \in Seq(Entries) /\ e \in Entries /\ r.list \in Seq(Entries)
        /\ Append(r.list, e) \in Seq(Entries)
    BY <1>1, HeadTailProperties DEF DispatchType
  <2>. HIDE DEF e
  <2> QED BY <1>1, <2>1 DEF DispatchType, Decided
<1>4. ASSUME NEW v \in {"yes", "no"}, NEW w \in [Filters -> {"yes", "no", None}],
             p = None => v = "yes", p # None => w[p] = v,
             \A f \in Filters : r.verdict[f] # None => w[f] = r.verdict[f]
      PROVE  LET q == [Decided(r, e, v) EXCEPT !.verdict = w]
             IN q \in DispatchType /\ Sound(q) /\ q.phase = "admitting" /\ Sound(Failing(q))
  <2>. DEFINE q == [Decided(r, e, v) EXCEPT !.verdict = w]
              f == Failing(q)
  <2>1. /\ q \in DispatchType /\ q.phase = "admitting" /\ q.mode = r.mode
        /\ q.present = r.present /\ q.todo = Tail(r.todo)
        /\ q.list = (IF v = "yes" THEN Append(r.list, e) ELSE r.list)
        /\ q.verdict = w /\ q.called = r.called /\ q.asked = r.asked
        /\ q.running = r.running /\ q.failed = r.failed /\ q.spoke = r.spoke
        /\ q.told = r.told /\ q.audience = r.audience /\ q.installed = r.installed
    BY <1>3
  <2>. HIDE DEF q
  <2>2. Heard(q)
    BY <1>1, <2>1 DEF Heard
  <2>3. Sound(q)
    BY <1>1, <1>4, <2>1, <2>2, DecisionSound
  <2>4. f \in DispatchType /\ Heard(f)
    BY <2>1, FailingHeard DEF BusInv
  <2>5. /\ f.phase = q.phase /\ f.mode = q.mode /\ f.present = q.present
        /\ f.todo = q.todo /\ f.list = q.list /\ f.verdict = q.verdict
        /\ f.called = q.called /\ f.asked = q.asked /\ f.running = q.running
        /\ f.failed = q.failed /\ f.spoke = q.spoke
    BY <2>1 DEF Failing, DispatchType
  <2>. HIDE DEF f
  <2>7. /\ f \in DispatchType /\ f.phase = "admitting" /\ f.mode = r.mode
        /\ f.present = r.present /\ f.todo = Tail(r.todo)
        /\ f.list = (IF v = "yes" THEN Append(r.list, e) ELSE r.list)
        /\ f.verdict = w /\ f.called = r.called /\ f.asked = r.asked
        /\ f.running = r.running /\ f.failed = r.failed /\ f.spoke = r.spoke
    BY <2>1, <2>4, <2>5
  <2>8. Heard(f)
    BY <2>4
  <2>6. Sound(f)
    BY <1>1, <1>4, <2>7, <2>8, DecisionSound
  <2> QED BY <2>1, <2>3, <2>6 DEF q, f
<1>5. /\ r.verdict \in [Filters -> {"yes", "no", None}]
      /\ UNCHANGED <<channel, handlers>>
  BY <1>1 DEF DispatchType, Admit
<1>6. ASSUME NEW v \in {"yes", "no"}
      PROVE  Decided(r, e, v) = [Decided(r, e, v) EXCEPT !.verdict = r.verdict]
  BY <1>1 DEF Decided, DispatchType
<1>7. CASE p = None /\ disp' = [disp EXCEPT ![d] = Decided(r, e, "yes")]
  <2>1. Decided(r, e, "yes") \in DispatchType /\ Sound(Decided(r, e, "yes"))
    BY <1>4, <1>5, <1>6, <1>7
  <2> QED BY <1>5, <1>7, <2>1, StepOfOne
<1>8. CASE /\ p # None /\ r.verdict[p] # None
           /\ disp' = [disp EXCEPT ![d] = Decided(r, e, r.verdict[p])]
  <2>. DEFINE v == r.verdict[p]
  <2>1. v \in {"yes", "no"}
    BY <1>2, <1>5, <1>8
  <2>2. Decided(r, e, v) \in DispatchType /\ Sound(Decided(r, e, v))
    BY <1>4, <1>5, <1>6, <1>8, <2>1
  <2> QED BY <1>5, <1>8, <2>2, StepOfOne
<1>9. ASSUME p # None, r.verdict[p] = None, NEW says \in {"yes", "no", "raises"},
             LET verdict == IF says = "raises" THEN "no" ELSE says
                 asked == [Decided(r, e, verdict) EXCEPT !.verdict[p] = verdict]
             IN disp' = [disp EXCEPT ![d] =
                           IF says = "raises" THEN Failing(asked) ELSE asked]
      PROVE  BusInv'
  <2>. DEFINE v == IF says = "raises" THEN "no" ELSE says
              w == [r.verdict EXCEPT ![p] = v]
              q == [Decided(r, e, v) EXCEPT !.verdict = w]
  <2>1. v \in {"yes", "no"}
    OBVIOUS
  <2>2. w \in [Filters -> {"yes", "no", None}] /\ w[p] = v
    BY <1>2, <1>5, <1>9, <2>1
  <2>3. \A f \in Filters : r.verdict[f] # None => w[f] = r.verdict[f]
    BY <1>5, <1>9
  <2>4. [Decided(r, e, v) EXCEPT !.verdict[p] = v] = q
    <3>1. Decided(r, e, v).verdict = r.verdict
      BY <1>1 DEF Decided, DispatchType
    <3> QED BY <3>1
  <2>5. q \in DispatchType /\ Sound(q) /\ q.phase = "admitting" /\ Sound(Failing(q))
    BY <1>4, <1>9, <2>1, <2>2, <2>3
  <2>6. disp' = [disp EXCEPT ![d] = IF says = "raises" THEN Failing(q) ELSE q]
    BY <1>9, <2>4
  <2>. HIDE DEF q
  <2>7. Failing(q) \in DispatchType
    BY <2>5, FailingHeard DEF BusInv
  <2>8. CASE says = "raises"
    BY <1>5, <2>5, <2>6, <2>7, <2>8, StepOfOne
  <2>9. CASE says # "raises"
    BY <1>5, <2>5, <2>6, <2>9, StepOfOne
  <2> QED BY <2>8, <2>9
<1> QED BY <1>7, <1>8, <1>9 DEF Admit, KnownVerdict

\* While it is being decided who is admitted nobody has been called.
LEMMA AdmittingQuiet ==
  ASSUME NEW r \in DispatchType, Begins(r), InTurnRuns(r), r.phase = "admitting"
  PROVE  /\ r.mode # None /\ r.called = <<>> /\ r.running = {} /\ r.failed = {}
         /\ r.spoke = {} /\ r.asked = Unasked /\ Distinct(r.list)
PROOF
<1>1. r.mode # None /\ r.called = <<>> /\ Distinct(r.list)
  BY DEF Begins, Distinct
<1>2. r.running = {} /\ r.failed = {} /\ r.asked = Unasked
  BY <1>1 DEF Begins, ToSet
<1>3. r.spoke = {}
  BY DEF InTurnRuns
<1> QED BY <1>1, <1>2, <1>3

\* What was decided about the listeners stays.
LEMMA SiftedStays ==
  ASSUME NEW r \in DispatchType, NEW q \in DispatchType, Sifted(r),
         q.present = r.present, q.list = r.list, q.todo = r.todo, q.verdict = r.verdict,
         q.mode = r.mode,
         q.phase \in {"open", "returned"} \/ q.called # <<>> => q.todo = <<>>,
         q.phase = "admitting" => r.phase = "admitting",
         q.phase = "raised" \/ r.phase # "raised" \/ r.list # <<>>
  PROVE  Sifted(q)
PROOF
<1>1. ASSUME NEW e \in ToSet(q.list)
      PROVE  \/ Question(e) = None
             \/ q.verdict[Question(e)] = "yes"
             \/ q.phase # "admitting" /\ q.verdict[Question(e)] # "no"
  BY DEF Sifted
<1>2. q.mode # None /\ (q.phase # "raised" \/ q.list # <<>>) =>
       \A e \in q.present :
         \/ e \in ToSet(q.list) \cup ToSet(q.todo)
         \/ Question(e) # None /\ q.verdict[Question(e)] = "no"
  BY DEF Sifted
<1> QED BY <1>1, <1>2 DEF Sifted

\* The loop is through, and every failure has been reported.
LEMMA AdmittedKeeps ==
  ASSUME BusInv, NEW d \in Dispatches, Admitted(d)
  PROVE  BusInv'
PROOF
<1>. DEFINE r == disp[d]
            q == [r EXCEPT !.phase = "open"]
<1>1. /\ r \in DispatchType /\ Heard(r) /\ Begins(r) /\ InTurnRuns(r) /\ Sifted(r)
      /\ r.phase = "admitting" /\ r.todo = <<>> /\ ~(Len(r.told) < Len(r.audience))
      /\ disp' = [disp EXCEPT ![d] = q] /\ UNCHANGED <<channel, handlers>>
  BY SoundParts DEF Admitted, Reporting, Audience
<1>2. /\ q \in DispatchType /\ q.phase = "open" /\ q.mode = r.mode
      /\ q.present = r.present /\ q.todo = r.todo /\ q.list = r.list
      /\ q.verdict = r.verdict /\ q.called = r.called /\ q.asked = r.asked
      /\ q.running = r.running /\ q.failed = r.failed /\ q.spoke = r.spoke
      /\ q.told = r.told /\ q.audience = r.audience /\ q.installed = r.installed
  BY <1>1 DEF DispatchType
<1>3. Len(r.told) \in Nat /\ Len(r.audience) \in Nat
  BY <1>1 DEF DispatchType
<1>. HIDE DEF q, r
<1>4. Heard(q)
  BY <1>1, <1>2, <1>3 DEF Heard
<1>5. Begins(q) /\ Linked(q) /\ InTurnRuns(q) /\ Gathered(q)
  <2>1. /\ r.mode # None /\ r.called = <<>> /\ r.running = {} /\ r.failed = {}
        /\ r.spoke = {} /\ r.asked = Unasked /\ Distinct(r.list)
    BY <1>1, AdmittingQuiet
  <2>2. \A i, j \in DOMAIN q.list : q.list[i] = q.list[j] => i = j
    BY <1>2, <2>1 DEF Distinct
  <2> QED BY <1>2, <2>1, <2>2, NobodyCalled
<1>6. Sifted(q)
  BY <1>1, <1>2, SiftedStays
<1>7. Sound(q)
  BY <1>4, <1>5, <1>6 DEF Sound
<1> QED BY <1>1, <1>2, <1>7, StepOfOne DEF r

\* The next handler is told, and one that raises ends the dispatch.
LEMMA ReportKeeps ==
  ASSUME BusInv, NEW d \in Dispatches, Report(d)
  PROVE  BusInv'
PROOF
<1>. DEFINE r == disp[d]
            n == Len(r.told)
            next == Append(r.told, r.audience[n + 1])
<1>1. /\ r \in DispatchType /\ Heard(r) /\ Begins(r) /\ Linked(r) /\ InTurnRuns(r)
      /\ Gathered(r) /\ Sifted(r)
      /\ r.phase \in {"admitting", "open"} /\ n < Len(r.audience)
  BY SoundParts DEF Report, Reporting, Audience
<1>2. /\ r.told \in Seq(Handlers) /\ r.audience \in Seq(Handlers)
      /\ n \in Nat /\ Len(r.audience) \in Nat
  BY <1>1 DEF DispatchType
<1>3. /\ next \in Seq(Handlers) /\ Len(next) = n + 1
      /\ \A i \in 1..n : next[i] = r.told[i]
      /\ next[n + 1] = r.audience[n + 1]
  BY <1>1, <1>2
<1>4. PICK raises \in BOOLEAN :
        disp' = [disp EXCEPT ![d].told = Append(@, Audience(d)[Len(@) + 1]),
                             ![d].phase = IF raises THEN "raised" ELSE @]
  BY DEF Report
<1>. DEFINE phase == IF raises THEN "raised" ELSE r.phase
            q == [r EXCEPT !.told = next, !.phase = phase]
<1>5. disp' = [disp EXCEPT ![d] = q] /\ UNCHANGED <<channel, handlers>>
  <2>1. r \in DispatchType /\ disp \in [Dispatches -> DispatchType]
    BY <1>1 DEF BusInv, BusTypes
  <2>2. disp' = [disp EXCEPT ![d] = [[disp[d] EXCEPT
                   !.told = Append(disp[d].told, Audience(d)[Len(disp[d].told) + 1])]
                   EXCEPT !.phase = IF raises THEN "raised" ELSE disp[d].phase]]
    BY <1>4, <2>1 DEF DispatchType
  <2> QED BY <2>2 DEF Report, Audience
<1>6. /\ q \in DispatchType /\ q.phase = phase /\ q.mode = r.mode
      /\ q.present = r.present /\ q.todo = r.todo /\ q.list = r.list
      /\ q.verdict = r.verdict /\ q.called = r.called /\ q.asked = r.asked
      /\ q.running = r.running /\ q.failed = r.failed /\ q.spoke = r.spoke
      /\ q.answer = r.answer
      /\ q.told = next /\ q.audience = r.audience /\ q.installed = r.installed
  <2>. HIDE DEF next
  <2>1. phase \in {"idle", "admitting", "open", "returned", "raised", "cancelled"}
    BY <1>1
  <2>. HIDE DEF phase, r
  <2> QED BY <1>1, <1>3, <2>1 DEF DispatchType
<1>7. phase \in {"raised", r.phase} /\ phase # "idle" /\ phase # "returned"
  BY <1>1
<1>8. r.phase = "open" => r.mode = "emit"
  BY <1>1, <1>2 DEF Heard
<1>9. r.spoke = {}
  BY <1>1 DEF InTurnRuns
<1>. HIDE DEF q, r, next, phase, n
<1>10. Heard(q)
  <2>1. \A i \in 1..Len(q.told) : q.told[i] = q.audience[i]
    BY <1>1, <1>2, <1>3, <1>6 DEF Heard, n
  <2>2. Len(q.told) <= Len(q.audience)
    BY <1>1, <1>2, <1>3, <1>6
  <2>3. q.phase = "open" => q.mode = "emit"
    BY <1>6, <1>7, <1>8
  <2> QED BY <1>1, <1>6, <2>1, <2>2, <2>3 DEF Heard
<1>11. Begins(q)
  BY <1>1, <1>6, <1>7 DEF Begins
<1>12. Linked(q)
  BY <1>1, <1>6 DEF Linked
<1>13. InTurnRuns(q)
  BY <1>1, <1>6, <1>9 DEF InTurnRuns
<1>14. Gathered(q)
  BY <1>1, <1>6, <1>7, <1>8 DEF Gathered, Begins
<1>15. Sifted(q)
  BY <1>1, <1>6, <1>7, SiftedStays DEF Sifted
<1>16. Sound(q)
  BY <1>10, <1>11, <1>12, <1>13, <1>14, <1>15 DEF Sound
<1> QED BY <1>5, <1>6, <1>16, StepOfOne

LEMMA HeardStays ==
  ASSUME NEW r \in DispatchType, NEW q \in DispatchType, Heard(r),
         q.told = r.told, q.audience = r.audience, q.installed = r.installed,
         q.mode = r.mode, q.phase = "open" => r.phase = "open"
  PROVE  Heard(q)
PROOF BY DEF Heard

\* Whoever runs has been called, and is on the list.
LEMMA RunnerCalled ==
  ASSUME NEW r \in DispatchType, Begins(r), NEW e \in r.running
  PROVE  /\ r.called # <<>> /\ r.list # <<>> /\ e \in Entries
         /\ r.phase \notin {"idle", "admitting"}
         /\ e \in ToSet(r.called)
PROOF
<1>1. e \in Entries /\ e \in ToSet(r.called) /\ e # None
  BY BusAssumption DEF Begins, DispatchType
<1>2. PICK i \in DOMAIN r.called : r.called[i] = e
  BY <1>1 DEF ToSet
<1>3. /\ DOMAIN r.called = 1..Len(r.called) /\ Len(r.called) \in Nat
      /\ Len(r.list) \in Nat
  BY DEF DispatchType
<1>4. i <= Len(r.list) /\ i \in 1..Len(r.called)
  BY <1>1, <1>2, <1>3 DEF Begins
<1>5. r.called # <<>> /\ r.list # <<>>
  BY <1>3, <1>4
<1> QED BY <1>1, <1>5 DEF Begins

\* The loop of emit, serial and bail: the next listener, or the end.
LEMMA CallKeeps ==
  ASSUME BusInv, NEW d \in Dispatches, Call(d)
  PROVE  BusInv'
PROOF
<1>. DEFINE r == disp[d]
            n == Len(r.called) + 1
<1>1. /\ r \in DispatchType /\ Heard(r) /\ Begins(r) /\ Linked(r) /\ InTurnRuns(r)
      /\ Gathered(r) /\ Sifted(r)
      /\ r.phase = "open" /\ r.mode \in InTurn /\ r.running = {}
      /\ UNCHANGED <<channel, handlers>>
  BY SoundParts DEF Call, Open
<1>2. /\ r.called \in Seq(Entries \cup {None}) /\ r.list \in Seq(Entries)
      /\ Len(r.called) \in Nat /\ Len(r.list) \in Nat /\ n \in Nat
      /\ Len(r.called) <= Len(r.list)
      /\ r.spoke = {} /\ r.mode # "waterfall" /\ r.mode # "parallel" /\ r.mode # None
      /\ r.todo = <<>>
  <2>1. /\ r.called \in Seq(Entries \cup {None}) /\ r.list \in Seq(Entries)
    BY <1>1 DEF DispatchType
  <2>2. r.mode # "waterfall" /\ r.mode # "parallel"
    BY <1>1 DEF InTurn
  <2>3. r.mode # None /\ Len(r.called) <= Len(r.list)
    BY <1>1, <2>2 DEF Begins
  <2>4. r.spoke = {} /\ r.todo = <<>>
    BY <1>1 DEF InTurnRuns, Sifted
  <2> QED BY <2>1, <2>2, <2>3, <2>4
<1>3. CASE n <= Len(r.list) /\
           disp' = [disp EXCEPT ![d].called = Append(@, r.list[n]),
                                ![d].running = {r.list[n]}]
  <2>. DEFINE x == r.list[n]
              next == Append(r.called, x)
              q == [r EXCEPT !.called = next, !.running = {x}]
  <2>1. x \in Entries /\ x \in Entries \cup {None}
    BY <1>2, <1>3
  <2>2. /\ next \in Seq(Entries \cup {None}) /\ Len(next) = n
        /\ \A i \in 1..Len(r.called) : next[i] = r.called[i]
        /\ next[n] = x /\ x \in ToSet(next)
    BY <1>2, <2>1, AppendFacts
  <2>3. disp' = [disp EXCEPT ![d] = q]
    BY <1>1, <1>3 DEF BusInv, BusTypes, DispatchType
  <2>. HIDE DEF next
  <2>4. /\ q \in DispatchType /\ q.phase = r.phase /\ q.mode = r.mode
        /\ q.present = r.present /\ q.todo = r.todo /\ q.list = r.list
        /\ q.verdict = r.verdict /\ q.called = next /\ q.asked = r.asked
        /\ q.running = {x} /\ q.failed = r.failed /\ q.spoke = r.spoke
        /\ q.told = r.told /\ q.audience = r.audience /\ q.installed = r.installed
    BY <1>1, <2>1, <2>2 DEF DispatchType
  <2>. HIDE DEF q
  <2>5. Heard(q)
    BY <1>1, <2>4, HeardStays
  <2>6. Begins(q)
    <3>1. \A i \in 1..Len(q.called) :
            q.called[i] = IF i <= Len(q.list) THEN q.list[i] ELSE None
      <4>1. ASSUME NEW i \in 1..n PROVE next[i] = r.list[i] /\ i <= Len(r.list)
        <5>1. CASE i = n
          BY <1>2, <1>3, <2>2, <5>1
        <5>2. CASE i # n
          <6>1. i \in 1..Len(r.called) /\ i <= Len(r.list)
            BY <1>2, <5>2
          <6> QED BY <1>1, <2>2, <6>1 DEF Begins
        <5> QED BY <5>1, <5>2
      <4> QED BY <2>2, <2>4, <4>1
    <3>2. q.called # <<>> /\ q.running \subseteq ToSet(q.called)
      BY <1>2, <2>2, <2>4
    <3>3. Len(q.called) <= Len(q.list)
      BY <1>3, <2>2, <2>4
    <3> QED BY <1>1, <1>2, <2>4, <3>1, <3>2, <3>3 DEF Begins
  <2>7. Linked(q) /\ Gathered(q)
    BY <1>1, <1>2, <2>4 DEF Linked, Gathered
  <2>8. InTurnRuns(q)
    <3>1. q.called # <<>> /\ q.running = {q.called[Len(q.called)]}
      BY <1>2, <2>2, <2>4
    <3> QED BY <1>2, <2>4, <3>1 DEF InTurnRuns
  <2>9. Sifted(q)
    BY <1>1, <1>2, <2>4, SiftedStays
  <2>10. Sound(q)
    BY <2>5, <2>6, <2>7, <2>8, <2>9 DEF Sound
  <2> QED BY <1>1, <2>3, <2>4, <2>10, StepOfOne
<1>4. CASE ~(n <= Len(r.list)) /\ disp' = [disp EXCEPT ![d].phase = "returned"]
  <2>. DEFINE q == [r EXCEPT !.phase = "returned"]
  <2>1. disp' = [disp EXCEPT ![d] = q]
    BY <1>1, <1>4 DEF BusInv, BusTypes, DispatchType
  <2>2. /\ q \in DispatchType /\ q.phase = "returned" /\ q.mode = r.mode
        /\ q.present = r.present /\ q.todo = r.todo /\ q.list = r.list
        /\ q.verdict = r.verdict /\ q.called = r.called /\ q.asked = r.asked
        /\ q.running = r.running /\ q.failed = r.failed /\ q.spoke = r.spoke
        /\ q.told = r.told /\ q.audience = r.audience /\ q.installed = r.installed
    BY <1>1 DEF DispatchType
  <2>. HIDE DEF q
  <2>3. Len(q.called) = Len(q.list)
    BY <1>2, <1>4, <2>2
  <2>4. Heard(q)
    BY <1>1, <2>2, HeardStays
  <2>5. Begins(q)
    BY <1>1, <1>2, <2>2 DEF Begins
  <2>6. Linked(q) /\ Gathered(q) /\ InTurnRuns(q)
    BY <1>1, <1>2, <2>2, <2>3 DEF Linked, Gathered, InTurnRuns
  <2>7. Sifted(q)
    BY <1>1, <1>2, <2>2, SiftedStays
  <2>8. Sound(q)
    BY <2>4, <2>5, <2>6, <2>7 DEF Sound
  <2> QED BY <1>1, <2>1, <2>2, <2>8, StepOfOne
<1> QED BY <1>3, <1>4 DEF Call, Round

\* A listener that ran in turn ends.
LEMMA TurnEnds ==
  ASSUME BusInv, NEW d \in Dispatches, NEW e \in disp[d].running, NEW q \in DispatchType,
         disp[d].phase = "open", disp[d].mode \in InTurn,
         q.phase \in {"open", "raised", "cancelled"}
           \/ (q.phase = "returned" /\ q.mode # "emit"),
         q.mode = disp[d].mode,
         q.present = disp[d].present, q.todo = disp[d].todo, q.list = disp[d].list,
         q.verdict = disp[d].verdict, q.called = disp[d].called, q.asked = disp[d].asked,
         q.running = {}, Heard(q),
         q.spoke = {} \/ (/\ q.spoke = {e} /\ q.mode # "emit"
                          /\ q.phase = "returned" /\ q.answer # None)
  PROVE  Sound(q)
PROOF
<1>. DEFINE r == disp[d]
<1>1. /\ r \in DispatchType /\ Begins(r) /\ Linked(r) /\ InTurnRuns(r)
      /\ Gathered(r) /\ Sifted(r)
  BY SoundParts
<1>2. /\ r.called # <<>> /\ r.list # <<>> /\ r.todo = <<>> /\ r.mode # None
      /\ r.running = {r.called[Len(r.called)]} /\ r.mode # "parallel"
      /\ r.mode # "waterfall"
  BY <1>1, RunnerCalled DEF InTurnRuns, Sifted, Begins, InTurn
<1>3. Begins(q)
  BY <1>1, <1>2 DEF Begins
<1>4. Linked(q) /\ Gathered(q)
  BY <1>2 DEF Linked, Gathered
<1>5. InTurnRuns(q)
  <2>1. e = q.called[Len(q.called)] /\ q.called # <<>>
    BY <1>2
  <2>2. q.mode \in {"serial", "bail"} \/ q.mode = "emit"
    BY DEF InTurn
  <2> QED BY <2>1, <2>2 DEF InTurnRuns
<1>6. Sifted(q)
  BY <1>1, <1>2, SiftedStays
<1> QED BY <1>3, <1>4, <1>5, <1>6 DEF Sound

\* A listener of emit returns, raises into the error channel, or is cancelled.
LEMMA EmitReturnKeeps ==
  ASSUME BusInv, NEW d \in Dispatches, NEW e \in Entries, EmitReturn(d, e)
  PROVE  BusInv'
PROOF
<1>. DEFINE r == disp[d]
            z == [r EXCEPT !.running = {}]
            f == [z EXCEPT !.failed = @ \cup {e}]
            c == [z EXCEPT !.phase = "cancelled"]
<1>1. /\ r \in DispatchType /\ Heard(r) /\ r.phase = "open" /\ r.mode = "emit"
      /\ e \in r.running /\ r.mode \in InTurn /\ r.spoke = {}
      /\ UNCHANGED <<channel, handlers>>
      /\ \/ disp' = [disp EXCEPT ![d] = z]
         \/ disp' = [disp EXCEPT ![d] = Failing(f)]
         \/ disp' = [disp EXCEPT ![d] = c]
  BY SoundParts DEF EmitReturn, Open, InTurn, InTurnRuns
<1>2. /\ z \in DispatchType /\ z.phase = "open" /\ z.mode = r.mode
      /\ z.present = r.present /\ z.todo = r.todo /\ z.list = r.list
      /\ z.verdict = r.verdict /\ z.called = r.called /\ z.asked = r.asked
      /\ z.running = {} /\ z.failed = r.failed /\ z.spoke = {}
      /\ z.told = r.told /\ z.audience = r.audience /\ z.installed = r.installed
  BY <1>1 DEF DispatchType
<1>. HIDE DEF z
<1>3. CASE disp' = [disp EXCEPT ![d] = z]
  <2>1. Heard(z)
    BY <1>1, <1>2, HeardStays
  <2>2. Sound(z)
    BY <1>1, <1>2, <2>1, TurnEnds
  <2> QED BY <1>1, <1>2, <1>3, <2>2, StepOfOne
<1>4. CASE disp' = [disp EXCEPT ![d] = c]
  <2>1. /\ c \in DispatchType /\ c.phase = "cancelled" /\ c.mode = r.mode
        /\ c.present = r.present /\ c.todo = r.todo /\ c.list = r.list
        /\ c.verdict = r.verdict /\ c.called = r.called /\ c.asked = r.asked
        /\ c.running = {} /\ c.spoke = {}
        /\ c.told = r.told /\ c.audience = r.audience /\ c.installed = r.installed
    BY <1>2 DEF DispatchType
  <2>. HIDE DEF c
  <2>2. Heard(c)
    BY <1>1, <2>1, HeardStays
  <2>3. Sound(c)
    BY <1>1, <2>1, <2>2, TurnEnds
  <2> QED BY <1>1, <1>4, <2>1, <2>3, StepOfOne
<1>5. CASE disp' = [disp EXCEPT ![d] = Failing(f)]
  <2>1. f \in DispatchType /\ f.phase = "open" /\ f.mode = r.mode
        /\ f.present = r.present /\ f.todo = r.todo /\ f.list = r.list
        /\ f.verdict = r.verdict /\ f.called = r.called /\ f.asked = r.asked
        /\ f.running = {} /\ f.spoke = {}
    BY <1>1, <1>2 DEF DispatchType
  <2>. HIDE DEF f
  <2>. DEFINE g == Failing(f)
  <2>2. g \in DispatchType /\ Heard(g)
    BY <1>1, <2>1, FailingHeard DEF BusInv
  <2>3. /\ g.phase = "open" /\ g.mode = r.mode
        /\ g.present = r.present /\ g.todo = r.todo /\ g.list = r.list
        /\ g.verdict = r.verdict /\ g.called = r.called /\ g.asked = r.asked
        /\ g.running = {} /\ g.spoke = {}
    BY <2>1 DEF Failing, DispatchType
  <2>. HIDE DEF g
  <2>4. Sound(g)
    BY <1>1, <2>2, <2>3, TurnEnds
  <2> QED BY <1>1, <1>5, <2>2, <2>4, StepOfOne DEF g
<1> QED BY <1>1, <1>3, <1>4, <1>5

\* A listener that is asked abstains, answers - a false answer is one - or raises.
LEMMA AskReturnKeeps ==
  ASSUME BusInv, NEW d \in Dispatches, NEW e \in Entries, AskReturn(d, e)
  PROVE  BusInv'
PROOF
<1>. DEFINE r == disp[d]
            z == [r EXCEPT !.running = {}]
<1>1. /\ r \in DispatchType /\ Heard(r) /\ r.phase = "open" /\ r.mode \in {"serial", "bail"}
      /\ e \in r.running /\ r.mode \in InTurn /\ r.spoke = {} /\ r.mode # "emit"
      /\ UNCHANGED <<channel, handlers>>
  BY SoundParts DEF AskReturn, Open, InTurn, InTurnRuns
<1>2. /\ z \in DispatchType /\ z.phase = "open" /\ z.mode = r.mode
      /\ z.present = r.present /\ z.todo = r.todo /\ z.list = r.list
      /\ z.verdict = r.verdict /\ z.called = r.called /\ z.asked = r.asked
      /\ z.running = {} /\ z.failed = r.failed /\ z.spoke = {}
      /\ z.told = r.told /\ z.audience = r.audience /\ z.installed = r.installed
  BY <1>1 DEF DispatchType
<1>. HIDE DEF z
<1>3. CASE disp' = [disp EXCEPT ![d] = [z EXCEPT !.phase = "raised",
                                                 !.failed = @ \cup {e}]]
  <2>. DEFINE f == [z EXCEPT !.phase = "raised", !.failed = @ \cup {e}]
  <2>1. /\ f \in DispatchType /\ f.phase = "raised" /\ f.mode = r.mode
        /\ f.present = r.present /\ f.todo = r.todo /\ f.list = r.list
        /\ f.verdict = r.verdict /\ f.called = r.called /\ f.asked = r.asked
        /\ f.running = {} /\ f.spoke = {}
        /\ f.told = r.told /\ f.audience = r.audience /\ f.installed = r.installed
    BY <1>2 DEF DispatchType
  <2>. HIDE DEF f
  <2>2. Heard(f)
    BY <1>1, <2>1, HeardStays
  <2>3. Sound(f)
    BY <1>1, <2>1, <2>2, TurnEnds
  <2> QED BY <1>1, <1>3, <2>1, <2>3, StepOfOne DEF f
<1>4. ASSUME NEW a \in Answers \cup {None},
             LET heard == [z EXCEPT !.spoke = IF a = None THEN @ ELSE @ \cup {e}]
             IN disp' = [disp EXCEPT ![d] =
                           IF IsAnswer(a)
                           THEN [heard EXCEPT !.phase = "returned", !.answer = a]
                           ELSE heard]
      PROVE  BusInv'
  <2>1. CASE a = None
    <3>1. [z EXCEPT !.spoke = z.spoke] = z
      BY <1>2 DEF DispatchType
    <3>2. disp' = [disp EXCEPT ![d] = z]
      BY <1>4, <2>1, <3>1 DEF IsAnswer
    <3>3. Heard(z)
      BY <1>1, <1>2, HeardStays
    <3>4. Sound(z)
      BY <1>1, <1>2, <3>3, TurnEnds
    <3> QED BY <1>1, <1>2, <3>2, <3>4, StepOfOne
  <2>2. CASE a # None
    <3>. DEFINE h == [z EXCEPT !.spoke = @ \cup {e}]
                f == [h EXCEPT !.phase = "returned", !.answer = a]
    <3>1. disp' = [disp EXCEPT ![d] = f]
      BY <1>4, <2>2 DEF IsAnswer
    <3>2. /\ f \in DispatchType /\ f.phase = "returned" /\ f.mode = r.mode
          /\ f.present = r.present /\ f.todo = r.todo /\ f.list = r.list
          /\ f.verdict = r.verdict /\ f.called = r.called /\ f.asked = r.asked
          /\ f.running = {} /\ f.spoke = {e} /\ f.answer = a
          /\ f.told = r.told /\ f.audience = r.audience /\ f.installed = r.installed
      BY <1>2 DEF DispatchType
    <3>. HIDE DEF f
    <3>3. Heard(f)
      BY <1>1, <3>2, HeardStays
    <3>4. Sound(f)
      BY <1>1, <2>2, <3>2, <3>3, TurnEnds
    <3> QED BY <1>1, <3>1, <3>2, <3>4, StepOfOne
  <2> QED BY <2>1, <2>2
<1>5. \/ \E a \in Answers \cup {None} :
           LET heard == [z EXCEPT !.spoke = IF a = None THEN @ ELSE @ \cup {e}]
           IN disp' = [disp EXCEPT ![d] =
                         IF IsAnswer(a)
                         THEN [heard EXCEPT !.phase = "returned", !.answer = a]
                         ELSE heard]
      \/ disp' = [disp EXCEPT ![d] = [z EXCEPT !.phase = "raised",
                                               !.failed = @ \cup {e}]]
  BY Zenon DEF AskReturn, z
<1> QED BY <1>3, <1>4, <1>5, Zenon

\* parallel calls the whole list at once.
LEMMA ParallelStartKeeps ==
  ASSUME BusInv, NEW d \in Dispatches, ParallelStart(d)
  PROVE  BusInv'
PROOF
<1>. DEFINE r == disp[d]
            phase == IF r.list = <<>> THEN "returned" ELSE "open"
            q == [r EXCEPT !.called = r.list, !.running = ToSet(r.list), !.phase = phase]
<1>1. /\ r \in DispatchType /\ Heard(r) /\ Begins(r) /\ InTurnRuns(r) /\ Sifted(r)
      /\ r.phase = "open" /\ r.mode = "parallel" /\ r.called = <<>>
      /\ UNCHANGED <<channel, handlers>>
  BY SoundParts DEF ParallelStart, Open
<1>2. disp' = [disp EXCEPT ![d] = q]
  BY <1>1 DEF ParallelStart, BusInv, BusTypes, DispatchType
<1>3. /\ r.list \in Seq(Entries) /\ r.list \in Seq(Entries \cup {None})
      /\ ToSet(r.list) \in SUBSET Entries /\ Len(r.list) \in Nat
      /\ phase \in {"returned", "open"}
  BY <1>1 DEF DispatchType, ToSet
<1>4. /\ q \in DispatchType /\ q.phase = phase /\ q.mode = "parallel"
      /\ q.present = r.present /\ q.todo = r.todo /\ q.list = r.list
      /\ q.verdict = r.verdict /\ q.called = r.list /\ q.asked = r.asked
      /\ q.running = ToSet(r.list) /\ q.failed = r.failed /\ q.spoke = r.spoke
      /\ q.told = r.told /\ q.audience = r.audience /\ q.installed = r.installed
  <2>. HIDE DEF phase
  <2> QED BY <1>1, <1>3 DEF DispatchType
<1>5. r.failed = {} /\ r.asked = Unasked /\ r.spoke = {} /\ r.todo = <<>>
  BY <1>1 DEF Begins, InTurnRuns, Sifted
<1>6. r.list # <<>> => ToSet(r.list) # {}
  <2>1. r.list # <<>> => 1 \in DOMAIN r.list
    BY <1>3, EmptySeq
  <2> QED BY <2>1 DEF ToSet
<1>7. phase = "returned" => r.list = <<>>
  OBVIOUS
<1>. HIDE DEF phase, q
<1>8. Heard(q)
  BY <1>1, <1>3, <1>4, HeardStays
<1>9. Begins(q)
  BY <1>1, <1>3, <1>4, <1>5 DEF Begins
<1>10. Linked(q) /\ InTurnRuns(q)
  BY <1>4, <1>5 DEF Linked, InTurnRuns, InTurn
<1>11. Gathered(q)
  BY <1>3, <1>4, <1>6, <1>7 DEF Gathered
<1>12. Sifted(q)
  BY <1>1, <1>3, <1>4, <1>5, SiftedStays
<1>13. Sound(q)
  BY <1>8, <1>9, <1>10, <1>11, <1>12 DEF Sound
<1> QED BY <1>1, <1>2, <1>4, <1>13, StepOfOne

\* It ends when the last of them has, or is cancelled.
LEMMA ParallelEndsKeep ==
  ASSUME BusInv, NEW d \in Dispatches,
         ParallelCancel(d) \/ \E e \in Entries : ParallelReturn(d, e)
  PROVE  BusInv'
PROOF
<1>. DEFINE r == disp[d]
<1>1. /\ r \in DispatchType /\ Heard(r) /\ Begins(r) /\ Gathered(r) /\ Sifted(r)
      /\ InTurnRuns(r) /\ UNCHANGED <<channel, handlers>>
      /\ r.mode = "parallel" /\ r.running # {}
  BY SoundParts DEF ParallelCancel, ParallelReturn, Open
<1>2. /\ r.called # <<>> /\ r.list # <<>> /\ r.todo = <<>>
      /\ r.phase \in {"open", "cancelled"} /\ Len(r.called) = Len(r.list)
  <2>1. PICK e : e \in r.running
    BY <1>1
  <2>2. r.called # <<>> /\ r.list # <<>> /\ r.phase \notin {"idle", "admitting"}
    BY <1>1, <2>1, RunnerCalled
  <2>3. r.phase \notin {"returned", "raised"} /\ Len(r.called) = Len(r.list)
    BY <1>1, <2>2 DEF Gathered
  <2>4. r.phase \in {"open", "cancelled"}
    BY <1>1, <2>2, <2>3 DEF DispatchType
  <2> QED BY <1>1, <2>2, <2>3, <2>4 DEF Sifted
<1>3. ASSUME NEW q \in DispatchType, q.phase \in {"open", "cancelled", "returned", "raised"},
             q.mode = r.mode, q.present = r.present, q.todo = r.todo, q.list = r.list,
             q.verdict = r.verdict, q.called = r.called, q.asked = r.asked,
             q.running \subseteq r.running, q.spoke = r.spoke,
             q.told = r.told, q.audience = r.audience, q.installed = r.installed,
             q.phase = "open" => r.phase = "open" /\ q.running # {},
             q.phase \in {"returned", "raised"} =>
               q.running = {} /\ (q.phase = "raised" <=> q.failed # {})
      PROVE  Sound(q)
  <2>1. Heard(q)
    BY <1>1, <1>3, HeardStays
  <2>2. Begins(q)
    BY <1>1, <1>2, <1>3 DEF Begins
  <2>3. Linked(q) /\ InTurnRuns(q)
    BY <1>1, <1>3 DEF Linked, InTurnRuns, InTurn
  <2>4. Gathered(q)
    BY <1>1, <1>2, <1>3 DEF Gathered
  <2>5. Sifted(q)
    BY <1>1, <1>2, <1>3, SiftedStays
  <2> QED BY <2>1, <2>2, <2>3, <2>4, <2>5 DEF Sound
<1>4. CASE ParallelCancel(d)
  <2>. DEFINE q == [r EXCEPT !.phase = "cancelled"]
  <2>1. /\ q \in DispatchType /\ q.phase = "cancelled" /\ q.mode = r.mode
        /\ q.present = r.present /\ q.todo = r.todo /\ q.list = r.list
        /\ q.verdict = r.verdict /\ q.called = r.called /\ q.asked = r.asked
        /\ q.running = r.running /\ q.failed = r.failed /\ q.spoke = r.spoke
        /\ q.told = r.told /\ q.audience = r.audience /\ q.installed = r.installed
    BY <1>1 DEF DispatchType
  <2>2. disp' = [disp EXCEPT ![d] = q]
    BY <1>1, <1>4 DEF ParallelCancel, BusInv, BusTypes, DispatchType
  <2>. HIDE DEF q
  <2>3. Sound(q)
    BY <1>1, <1>2, <1>3, <2>1
  <2> QED BY <1>1, <2>1, <2>2, <2>3, StepOfOne
<1>5. ASSUME NEW e \in Entries, ParallelReturn(d, e)
      PROVE  BusInv'
  <2>1. PICK fails \in BOOLEAN :
          LET z == [disp[d] EXCEPT !.running = @ \ {e},
                                   !.failed = IF fails THEN @ \cup {e} ELSE @]
          IN disp' = [disp EXCEPT ![d] =
                       IF z.phase = "open" /\ GatherEnds(z)
                       THEN [z EXCEPT !.phase =
                               IF z.failed = {} THEN "returned" ELSE "raised"]
                       ELSE z]
    BY <1>5 DEF ParallelReturn
  <2>. DEFINE left == r.running \ {e}
              failed == IF fails THEN r.failed \cup {e} ELSE r.failed
              z == [r EXCEPT !.running = left, !.failed = failed]
              phase == IF failed = {} THEN "returned" ELSE "raised"
              q == [z EXCEPT !.phase = phase]
  <2>2. left \in SUBSET Entries /\ failed \in SUBSET Entries
    BY <1>1 DEF DispatchType
  <2>3. /\ z \in DispatchType /\ z.phase = r.phase /\ z.mode = r.mode
        /\ z.present = r.present /\ z.todo = r.todo /\ z.list = r.list
        /\ z.verdict = r.verdict /\ z.called = r.called /\ z.asked = r.asked
        /\ z.running = left /\ z.failed = failed /\ z.spoke = r.spoke
        /\ z.told = r.told /\ z.audience = r.audience /\ z.installed = r.installed
    <3>. HIDE DEF left, failed
    <3> QED BY <1>1, <2>2 DEF DispatchType
  <2>4. disp' = [disp EXCEPT ![d] = IF r.phase = "open" /\ left = {} THEN q ELSE z]
    BY <2>1, <2>3 DEF GatherEnds
  <2>5. left \subseteq r.running
    OBVIOUS
  <2>. HIDE DEF z, left, failed
  <2>6. CASE r.phase = "open" /\ left = {}
    <3>1. phase \in {"returned", "raised"} /\ (phase = "raised" <=> failed # {})
      OBVIOUS
    <3>. HIDE DEF phase
    <3>2. /\ q \in DispatchType /\ q.phase = phase /\ q.mode = r.mode
          /\ q.present = r.present /\ q.todo = r.todo /\ q.list = r.list
          /\ q.verdict = r.verdict /\ q.called = r.called /\ q.asked = r.asked
          /\ q.running = left /\ q.failed = failed /\ q.spoke = r.spoke
          /\ q.told = r.told /\ q.audience = r.audience /\ q.installed = r.installed
      BY <2>3, <3>1 DEF DispatchType
    <3>. HIDE DEF q
    <3>3. Sound(q)
      BY <1>3, <2>5, <2>6, <3>1, <3>2
    <3> QED BY <1>1, <2>4, <2>6, <3>2, <3>3, StepOfOne
  <2>7. CASE ~(r.phase = "open" /\ left = {})
    <3>1. Sound(z)
      BY <1>2, <1>3, <2>3, <2>5, <2>7
    <3> QED BY <1>1, <2>3, <2>4, <2>7, <3>1, StepOfOne
  <2> QED BY <2>6, <2>7
<1> QED BY <1>4, <1>5

\* A waterfall enters its links in turn, the one behind the last is the default
\* (_link).
LEMMA EnteredSound ==
  ASSUME NEW o \in DispatchType, Heard(o), Begins(o), InTurnRuns(o), Sifted(o),
         NEW r \in DispatchType, r.mode = "waterfall", o.mode = "waterfall",
         r.phase = o.phase, r.todo = o.todo, r.verdict = o.verdict, r.list = o.list,
         r.called = o.called, r.running = o.running, r.failed = o.failed,
         r.spoke = o.spoke, r.audience = o.audience, r.told = o.told,
         r.present = o.present, r.installed = o.installed,
         NEW k \in Nat \ {0}, Len(o.called) = k - 1, k <= Len(o.list) + 1,
         k = 1 => o.phase = "open",
         \A i \in DOMAIN o.list : r.asked[o.list[i]] > 0 <=> i < k
  PROVE  Entered(r, k) \in DispatchType /\ Sound(Entered(r, k))
PROOF
<1>1. /\ o.list \in Seq(Entries) /\ Len(o.list) \in Nat
      /\ o.called \in Seq(Entries \cup {None}) /\ Len(o.called) \in Nat
  BY DEF DispatchType
<1>2. /\ o.todo = <<>> /\ o.spoke = {}
      /\ o.phase \notin {"idle", "admitting"}
      /\ o.phase # "raised" \/ o.list # <<>>
  <2>1. CASE k = 1
    BY <2>1 DEF Sifted, InTurnRuns
  <2>2. CASE k # 1
    <3>1. o.called # <<>> /\ o.list # <<>>
      BY <1>1, <2>2
    <3> QED BY <3>1 DEF Sifted, InTurnRuns, Begins
  <2> QED BY <2>1, <2>2
<1>3. ASSUME NEW x \in Entries \cup {None}, NEW q \in DispatchType,
             x = IF k > Len(o.list) THEN None ELSE o.list[k],
             q.called = Append(o.called, x), q.mode = "waterfall",
             q.phase = o.phase \/ (k = 1 /\ q.phase = "returned"),
             q.todo = o.todo, q.verdict = o.verdict, q.list = o.list,
             q.running \subseteq o.running \cup ({x} \ {None}), q.failed = o.failed,
             q.spoke = o.spoke, q.audience = o.audience, q.told = o.told,
             q.present = o.present, q.installed = o.installed, q.asked = r.asked
      PROVE  Sound(q)
  <2>1. /\ Len(q.called) = k /\ q.called[k] = x
        /\ \A i \in 1..k - 1 : q.called[i] = o.called[i]
        /\ ToSet(q.called) = ToSet(o.called) \cup {x}
    <3>1. /\ Len(Append(o.called, x)) = Len(o.called) + 1
          /\ \A i \in 1..Len(o.called) : Append(o.called, x)[i] = o.called[i]
          /\ Append(o.called, x)[Len(o.called) + 1] = x
          /\ ToSet(Append(o.called, x)) = ToSet(o.called) \cup {x}
      BY <1>1, AppendFacts
    <3>2. Len(o.called) + 1 = k
      BY <1>1
    <3> QED BY <1>3, <3>1, <3>2
  <2>2. q.called # <<>> /\ q.phase \notin {"idle", "admitting"}
    <3>1. q.called # <<>>
      BY <1>1, <1>3, EmptySeq
    <3> QED BY <1>2, <1>3, <3>1
  <2>3. Heard(q)
    <3>1. q.phase = "open" => o.phase = "open"
      BY <1>3
    <3> QED BY <1>3, <3>1, HeardStays
  <2>4. Begins(q)
    <3>1. ASSUME NEW i \in 1..Len(q.called)
          PROVE  q.called[i] = IF i <= Len(q.list) THEN q.list[i] ELSE None
      <4>1. CASE i = k
        BY <1>1, <1>3, <2>1, <4>1
      <4>2. CASE i # k
        <5>1. i \in 1..k - 1 /\ i \in 1..Len(o.called)
          BY <1>1, <2>1, <4>2
        <5> QED BY <1>3, <2>1, <5>1 DEF Begins
      <4> QED BY <4>1, <4>2
    <3>2. \/ Len(q.called) <= Len(q.list)
          \/ q.mode = "waterfall" /\ Len(q.called) = Len(q.list) + 1
      BY <1>1, <1>3, <2>1
    <3>3. q.running \subseteq ToSet(q.called)
      BY <1>3, <2>1 DEF Begins
    <3> QED BY <1>3, <2>2, <3>1, <3>2, <3>3 DEF Begins
  <2>5. Linked(q)
    BY <1>3, <2>1 DEF Linked
  <2>6. InTurnRuns(q) /\ Gathered(q)
    BY <1>2, <1>3 DEF InTurnRuns, Gathered, InTurn
  <2>7. Sifted(q)
    <3>1. q.phase = "raised" \/ o.phase # "raised" \/ o.list # <<>>
      BY <1>2
    <3>2. q.todo = <<>> /\ q.phase # "admitting" /\ o.mode = q.mode
      BY <1>2, <1>3, <2>2
    <3> QED BY <1>3, <3>1, <3>2, SiftedStays
  <2> QED BY <2>3, <2>4, <2>5, <2>6, <2>7 DEF Sound
<1>. DEFINE q == Entered(r, k)
<1>4. CASE k > Len(o.list)
  <2>. DEFINE next == Append(r.called, None)
              phase == IF k = 1 THEN "returned" ELSE r.phase
  <2>1. q = [r EXCEPT !.called = next, !.phase = phase]
    BY <1>4 DEF Entered, DispatchType
  <2>2. /\ next \in Seq(Entries \cup {None})
        /\ phase \in {"idle", "admitting", "open", "returned", "raised", "cancelled"}
    BY <1>1 DEF DispatchType
  <2>3. phase = o.phase \/ (k = 1 /\ phase = "returned")
    OBVIOUS
  <2>4. next = Append(o.called, None)
    OBVIOUS
  <2>. HIDE DEF next, phase, q
  <2>5. /\ q \in DispatchType /\ q.phase = phase /\ q.mode = r.mode
        /\ q.present = r.present /\ q.todo = r.todo /\ q.list = r.list
        /\ q.verdict = r.verdict /\ q.called = next /\ q.asked = r.asked
        /\ q.running = r.running /\ q.failed = r.failed /\ q.spoke = r.spoke
        /\ q.told = r.told /\ q.audience = r.audience /\ q.installed = r.installed
    BY <2>1, <2>2 DEF DispatchType
  <2>6. Sound(q)
    BY <1>3, <1>4, <2>3, <2>4, <2>5
  <2> QED BY <2>5, <2>6 DEF q
<1>5. CASE ~(k > Len(o.list))
  <2>. DEFINE x == o.list[k]
              next == Append(r.called, x)
              more == r.running \cup {x}
  <2>1. q = [r EXCEPT !.called = next, !.running = more]
    BY <1>5 DEF Entered, DispatchType
  <2>2. x \in Entries /\ x # None
    <3>1. k \in 1..Len(o.list)
      BY <1>1, <1>5
    <3>2. x \in Entries
      BY <1>1, <3>1
    <3> QED BY <3>2, BusAssumption
  <2>. HIDE DEF x
  <2>3. next \in Seq(Entries \cup {None}) /\ more \in SUBSET Entries
    BY <1>1, <2>2 DEF DispatchType
  <2>4. next = Append(o.called, x) /\ more = o.running \cup {x}
    OBVIOUS
  <2>. HIDE DEF next, more, q
  <2>5. /\ q \in DispatchType /\ q.phase = r.phase /\ q.mode = r.mode
        /\ q.present = r.present /\ q.todo = r.todo /\ q.list = r.list
        /\ q.verdict = r.verdict /\ q.called = next /\ q.asked = r.asked
        /\ q.running = more /\ q.failed = r.failed /\ q.spoke = r.spoke
        /\ q.told = r.told /\ q.audience = r.audience /\ q.installed = r.installed
    BY <2>1, <2>3 DEF DispatchType
  <2>6. x = IF k > Len(o.list) THEN None ELSE o.list[k]
    BY <1>5 DEF x
  <2>7. q.running \subseteq o.running \cup ({x} \ {None})
    BY <2>2, <2>4, <2>5
  <2>8. Sound(q)
    BY <1>3, <2>2, <2>4, <2>5, <2>6, <2>7
  <2> QED BY <2>5, <2>8 DEF q
<1> QED BY <1>4, <1>5 DEF q

LEMMA WaterfallStartKeeps ==
  ASSUME BusInv, NEW d \in Dispatches, WaterfallStart(d)
  PROVE  BusInv'
PROOF
<1>. DEFINE r == disp[d]
<1>1. /\ r \in DispatchType /\ Heard(r) /\ Begins(r) /\ InTurnRuns(r) /\ Sifted(r)
      /\ r.phase = "open" /\ r.mode = "waterfall" /\ r.called = <<>>
      /\ disp' = [disp EXCEPT ![d] = Entered(r, 1)]
      /\ UNCHANGED <<channel, handlers>>
  BY SoundParts DEF WaterfallStart, Open
<1>. HIDE DEF r
<1>2. Len(r.called) = 0 /\ Len(r.list) \in Nat
  BY <1>1 DEF DispatchType
<1>3. \A i \in DOMAIN r.list : r.list[i] \in Entries /\ i \in Nat /\ ~(i < 1)
  BY <1>1 DEF DispatchType
<1>4. r.asked = Unasked
  BY <1>1 DEF Begins
<1>5. \A i \in DOMAIN r.list : r.asked[r.list[i]] > 0 <=> i < 1
  BY <1>3, <1>4 DEF Unasked
<1>6. 1 \in Nat \ {0} /\ Len(r.called) = 1 - 1 /\ 1 <= Len(r.list) + 1
  BY <1>2
<1>7. Entered(r, 1) \in DispatchType /\ Sound(Entered(r, 1))
  BY <1>1, <1>5, <1>6, EnteredSound
<1> QED BY <1>1, <1>7, StepOfOne

\* The first call of next enters the link behind the listener's, any other one
\* raises into its caller.
LEMMA CallNextKeeps ==
  ASSUME BusInv, NEW d \in Dispatches, NEW e \in Entries, CallNext(d, e)
  PROVE  BusInv'
PROOF
<1>. DEFINE r == disp[d]
            a == [r.asked EXCEPT ![e] = @ + 1]
            z == [r EXCEPT !.asked = a]
            i == Position(r.list, e)
<1>1. /\ r \in DispatchType /\ Heard(r) /\ Begins(r) /\ Linked(r) /\ InTurnRuns(r)
      /\ Gathered(r) /\ Sifted(r)
      /\ r.mode = "waterfall" /\ e \in ToSet(r.called)
      /\ UNCHANGED <<channel, handlers>>
  BY SoundParts DEF CallNext
<1>2. disp' = [disp EXCEPT ![d] = IF Spent(d, e) THEN z ELSE Entered(z, i + 1)]
  BY DEF CallNext
<1>3. /\ r.list \in Seq(Entries) /\ Len(r.list) \in Nat /\ DOMAIN r.list = 1..Len(r.list)
      /\ r.called \in Seq(Entries \cup {None}) /\ Len(r.called) \in Nat
      /\ DOMAIN r.called = 1..Len(r.called) /\ r.asked \in [Entries -> Nat]
  BY <1>1 DEF DispatchType
<1>4. /\ a \in [Entries -> Nat] /\ a[e] = r.asked[e] + 1
      /\ \A x \in Entries \ {e} : a[x] = r.asked[x]
  BY <1>3
<1>. HIDE DEF a
<1>5. /\ z \in DispatchType /\ z.phase = r.phase /\ z.mode = r.mode
      /\ z.present = r.present /\ z.todo = r.todo /\ z.list = r.list
      /\ z.verdict = r.verdict /\ z.called = r.called /\ z.asked = a
      /\ z.running = r.running /\ z.failed = r.failed /\ z.spoke = r.spoke
      /\ z.answer = r.answer
      /\ z.told = r.told /\ z.audience = r.audience /\ z.installed = r.installed
  BY <1>1, <1>4 DEF DispatchType
<1>6. i \in 1..Len(r.list) /\ r.list[i] = e /\ i <= Len(r.called)
  <2>1. PICK j \in 1..Len(r.called) : r.called[j] = e
    BY <1>1, <1>3 DEF ToSet
  <2>2. j <= Len(r.list) /\ r.list[j] = e
    BY <1>1, <1>3, <2>1, BusAssumption DEF Begins
  <2>3. e \in ToSet(r.list) /\ j \in DOMAIN r.list
    BY <1>3, <2>1, <2>2 DEF ToSet
  <2>4. i \in DOMAIN r.list /\ r.list[i] = e
    BY <2>3, PositionOf
  <2>5. i = j
    BY <1>1, <2>2, <2>3, <2>4 DEF Begins
  <2> QED BY <1>3, <2>1, <2>4, <2>5
<1>7. \A j \in DOMAIN r.list : r.list[j] \in Entries /\ (r.list[j] = e => j = i)
  BY <1>1, <1>3, <1>6 DEF Begins
<1>8. \A j \in DOMAIN r.list : r.asked[r.list[j]] > 0 <=> j < Len(r.called)
  BY <1>1 DEF Linked
<1>9. r.called # <<>>
  BY <1>3, <1>6
<1>. HIDE DEF z, i
<1>10. CASE Spent(d, e)
  <2>1. r.asked[e] > 0
    BY <1>10 DEF Spent
  <2>2. ASSUME NEW j \in DOMAIN r.list
        PROVE  a[r.list[j]] > 0 <=> r.asked[r.list[j]] > 0
    <3>1. CASE r.list[j] = e
      BY <1>3, <1>4, <2>1, <3>1
    <3>2. CASE r.list[j] # e
      <4>1. a[r.list[j]] = r.asked[r.list[j]]
        BY <1>4, <1>7, <3>2
      <4> QED BY <4>1
    <3> QED BY <3>1, <3>2
  <2>3. Heard(z)
    BY <1>1, <1>5, HeardStays
  <2>4. Begins(z)
    BY <1>1, <1>5, <1>9 DEF Begins
  <2>5. Linked(z)
    BY <1>5, <1>8, <2>2 DEF Linked
  <2>6. InTurnRuns(z) /\ Gathered(z)
    BY <1>1, <1>5 DEF InTurnRuns, Gathered
  <2>7. Sifted(z)
    <3>1. z.phase \in {"open", "returned"} \/ z.called # <<>> => z.todo = <<>>
      BY <1>1, <1>5 DEF Sifted
    <3> QED BY <1>1, <1>5, <3>1, SiftedStays
  <2>8. Sound(z)
    BY <2>3, <2>4, <2>5, <2>6, <2>7 DEF Sound
  <2> QED BY <1>1, <1>2, <1>5, <1>10, <2>8, StepOfOne
<1>11. CASE ~Spent(d, e)
  <2>1. r.asked[e] = 0
    <3>1. ~(r.asked[e] > 0) /\ r.asked[e] \in Nat
      BY <1>3, <1>11 DEF Spent
    <3> QED BY <3>1
  <2>2. i = Len(r.called)
    <3>1. ~(i < Len(r.called))
      BY <1>3, <1>6, <1>8, <2>1
    <3> QED BY <1>3, <1>6, <3>1
  <2>3. ASSUME NEW j \in DOMAIN r.list
        PROVE  z.asked[r.list[j]] > 0 <=> j < i + 1
    <3>1. CASE j = i
      BY <1>3, <1>4, <1>5, <1>6, <2>1, <3>1
    <3>2. CASE j # i
      <4>1. z.asked[r.list[j]] = r.asked[r.list[j]]
        BY <1>4, <1>5, <1>7, <3>2
      <4> QED BY <1>3, <1>6, <1>8, <2>2, <3>2, <4>1
    <3> QED BY <3>1, <3>2
  <2>4. /\ i + 1 \in Nat \ {0} /\ Len(r.called) = (i + 1) - 1
        /\ i + 1 <= Len(r.list) + 1 /\ i + 1 # 1
    BY <1>3, <1>6, <2>2
  <2>5. Entered(z, i + 1) \in DispatchType /\ Sound(Entered(z, i + 1))
    BY <1>1, <1>5, <2>3, <2>4, EnteredSound
  <2> QED BY <1>1, <1>2, <1>11, <2>5, StepOfOne
<1> QED BY <1>10, <1>11

\* A listener of a waterfall ends, and with the outermost one the dispatch.
LEMMA WaterfallReturnKeeps ==
  ASSUME BusInv, NEW d \in Dispatches, NEW e \in Entries, WaterfallReturn(d, e)
  PROVE  BusInv'
PROOF
<1>. DEFINE r == disp[d]
<1>1. /\ r \in DispatchType /\ Heard(r) /\ Begins(r) /\ Linked(r) /\ InTurnRuns(r)
      /\ Gathered(r) /\ Sifted(r)
      /\ r.mode = "waterfall" /\ e \in r.running
      /\ UNCHANGED <<channel, handlers>>
  BY SoundParts DEF WaterfallReturn
<1>2. PICK fails \in BOOLEAN :
        disp' = [disp EXCEPT
                   ![d].running = @ \ {e},
                   ![d].failed = IF fails THEN @ \cup {e} ELSE @,
                   ![d].phase = IF e # disp[d].list[1] THEN @
                                ELSE IF fails THEN "raised" ELSE "returned"]
  BY DEF WaterfallReturn
<1>. DEFINE left == r.running \ {e}
            failed == IF fails THEN r.failed \cup {e} ELSE r.failed
            phase == IF e # r.list[1] THEN r.phase
                     ELSE IF fails THEN "raised" ELSE "returned"
            q == [r EXCEPT !.running = left, !.failed = failed, !.phase = phase]
<1>3. disp' = [disp EXCEPT ![d] = q]
  <2>1. r \in DispatchType /\ disp \in [Dispatches -> DispatchType]
    BY <1>1 DEF BusInv, BusTypes
  <2> QED BY <1>2, <2>1 DEF DispatchType
<1>4. /\ left \in SUBSET Entries /\ failed \in SUBSET Entries /\ left \subseteq r.running
      /\ phase \in {r.phase, "raised", "returned"}
      /\ r.phase \in {"idle", "admitting", "open", "returned", "raised", "cancelled"}
  BY <1>1 DEF DispatchType
<1>. HIDE DEF left, failed, phase
<1>5. /\ q \in DispatchType /\ q.phase = phase /\ q.mode = r.mode
      /\ q.present = r.present /\ q.todo = r.todo /\ q.list = r.list
      /\ q.verdict = r.verdict /\ q.called = r.called /\ q.asked = r.asked
      /\ q.running = left /\ q.failed = failed /\ q.spoke = r.spoke
      /\ q.told = r.told /\ q.audience = r.audience /\ q.installed = r.installed
  BY <1>1, <1>4 DEF DispatchType
<1>6. /\ r.called # <<>> /\ r.list # <<>> /\ r.phase \notin {"idle", "admitting"}
      /\ r.todo = <<>> /\ r.spoke = {}
  <2>1. r.called # <<>> /\ r.list # <<>> /\ r.phase \notin {"idle", "admitting"}
    BY <1>1, RunnerCalled
  <2> QED BY <1>1, <2>1 DEF Sifted, InTurnRuns
<1>. HIDE DEF q
<1>7. Heard(q)
  BY <1>1, <1>4, <1>5, HeardStays
<1>8. Begins(q)
  BY <1>1, <1>4, <1>5, <1>6 DEF Begins
<1>9. Linked(q) /\ InTurnRuns(q) /\ Gathered(q)
  BY <1>1, <1>5, <1>6 DEF Linked, InTurnRuns, Gathered, InTurn
<1>10. Sifted(q)
  BY <1>1, <1>4, <1>5, <1>6, SiftedStays
<1>11. Sound(q)
  BY <1>7, <1>8, <1>9, <1>10 DEF Sound
<1> QED BY <1>1, <1>3, <1>5, <1>11, StepOfOne

\* Every step keeps the invariant.
LEMMA NextKeeps ==
  ASSUME BusInv, [Next]_vars
  PROVE  BusInv'
PROOF
<1>1. CASE UNCHANGED vars
  <2>1. /\ ctx' = ctx /\ disp' = disp
        /\ prepended' = prepended /\ normal' = normal /\ gone' = gone
        /\ handlers' = handlers
    BY <1>1 DEF vars
  <2>2. BusTypes' /\ Grouped'
    BY <2>1 DEF BusInv, BusTypes, ChannelType, Grouped, Live
  <2>3. ASSUME NEW d \in Dispatches
        PROVE  Sound(disp[d])'
    BY <2>1, SoundKept DEF BusInv, BusTypes
  <2> QED BY <2>2, <2>3 DEF BusInv
<1>2. CASE \E first \in BOOLEAN : On(first) \/ \E c \in Contexts : BoundOn(c, first)
  <2>1. \E c \in Contexts \cup {None}, first \in BOOLEAN : Enlist(c, first)
    BY <1>2 DEF On, BoundOn
  <2> QED BY <2>1, EnlistKeeps
<1>3. CASE \E e \in Entries : Withdraw(e)
  BY <1>3, WithdrawKeeps
<1>4. CASE \E h \in Handlers : OnError(h) \/ StopHandler(h)
  BY <1>4, HandlersKeep
<1>5. CASE \E d \in Dispatches, mode \in Modes :
             Dispatch(d, mode) \/ BoundDispatch(d, mode) \/ WrongMode(d, mode)
  BY <1>5, DispatchSound
<1>6. CASE \E d \in Dispatches :
             \/ Admit(d) \/ Admitted(d) \/ Report(d) \/ Call(d)
             \/ ParallelStart(d) \/ ParallelCancel(d) \/ WaterfallStart(d)
  BY <1>6, AdmitKeeps, AdmittedKeeps, ReportKeeps, CallKeeps, ParallelStartKeeps,
     ParallelEndsKeep, WaterfallStartKeeps
<1>7. CASE \E d \in Dispatches, e \in Entries :
             \/ EmitReturn(d, e) \/ AskReturn(d, e) \/ ParallelReturn(d, e)
             \/ CallNext(d, e) \/ WaterfallReturn(d, e)
  BY <1>7, EmitReturnKeeps, AskReturnKeeps, ParallelEndsKeep, CallNextKeeps,
     WaterfallReturnKeeps
<1>8. Next \/ UNCHANGED vars
  OBVIOUS
<1> QED BY <1>1, <1>2, <1>3, <1>4, <1>5, <1>6, <1>7, <1>8 DEF Next

\* The invariant of the channel and of its dispatches, whatever is registered,
\* disposed of, dispatched, raised or cancelled, in any order (EventBus).
THEOREM BusInvHolds == Spec => []BusInv
PROOF
<1>1. Init => BusInv
  BY BusInvInit
<1>2. BusInv /\ [Next]_vars => BusInv'
  BY NextKeeps
<1> QED BY <1>1, <1>2, PTL DEF Spec

-----------------------------------------------------------------------------
\* What the invariant says of the deliveries

\* A sequence where nothing stands twice is as long as what it holds.
LEMMA DistinctLength ==
  ASSUME NEW S, NEW s \in Seq(S), Distinct(s)
  PROVE  IsFiniteSet(ToSet(s)) /\ Cardinality(ToSet(s)) = Len(s)
PROOF
<1>. DEFINE n == Len(s)
            f == [i \in 1..n |-> s[i]]
<1>1. n \in Nat /\ DOMAIN s = 1..n
  OBVIOUS
<1>2. ToSet(s) = {s[i] : i \in 1..n}
  BY <1>1 DEF ToSet
<1>3. f \in Bijection(1..n, ToSet(s))
  <2>1. f \in Injection(1..n, ToSet(s))
    BY <1>1, <1>2 DEF Distinct, Injection, IsInjective
  <2>2. f \in Surjection(1..n, ToSet(s))
    BY <1>1, <1>2 DEF Surjection
  <2> QED BY <2>1, <2>2 DEF Bijection
<1>4. ExistsBijection(1..n, ToSet(s))
  BY <1>3 DEF ExistsBijection
<1> QED BY <1>1, <1>4, FS_CountingElements, FS_NatBijection

\* The channel is in order (_Channel.snapshot, _remove).
LEMMA PrecedenceHolds ==
  ASSUME BusInv
  PROVE  Precedence
PROOF
<1>1. Snapshot \in Seq(Entries) /\ ToSet(Snapshot) = Live /\ Distinct(Snapshot)
  BY SnapshotHolds DEF Distinct
<1>2. Len(Snapshot) = Cardinality(Live)
  BY <1>1, DistinctLength
<1>3. ASSUME NEW e \in Live, NEW f \in Live, Before(Snapshot, e, f)
      PROVE  \/ e \in ToSet(prepended) /\ f \in ToSet(normal)
             \/ e \in ToSet(prepended) /\ f < e
             \/ f \in ToSet(normal) /\ e < f
  <2>1. PICK i \in DOMAIN Snapshot : i = Position(Snapshot, e) /\ Snapshot[i] = e
    BY <1>1, PositionOf
  <2>2. PICK j \in DOMAIN Snapshot : j = Position(Snapshot, f) /\ Snapshot[j] = f
    BY <1>1, PositionOf
  <2>3. i < j
    BY <1>3, <2>1, <2>2 DEF Before
  <2> QED BY <2>1, <2>2, <2>3, SnapshotHolds
<1> QED BY <1>1, <1>2, <1>3 DEF Precedence

\* Nobody is called twice, and all that is called is on the list, but for the
\* default of a waterfall.
LEMMA CalledOnce ==
  ASSUME NEW r \in DispatchType, Begins(r)
  PROVE  /\ Distinct(r.called)
         /\ ToSet(r.called) \subseteq ToSet(r.list) \cup {None}
         /\ Len(r.called) = Len(r.list) => ToSet(r.list) \subseteq ToSet(r.called)
PROOF
<1>1. /\ r.list \in Seq(Entries) /\ Len(r.list) \in Nat /\ DOMAIN r.list = 1..Len(r.list)
      /\ r.called \in Seq(Entries \cup {None}) /\ Len(r.called) \in Nat
      /\ DOMAIN r.called = 1..Len(r.called)
  BY DEF DispatchType
<1>2. /\ \A i, j \in DOMAIN r.list : r.list[i] = r.list[j] => i = j
      /\ Len(r.called) <= Len(r.list) + 1
  BY <1>1 DEF Begins
<1>3. \A i \in DOMAIN r.called :
        \/ i \in DOMAIN r.list /\ r.called[i] = r.list[i] /\ r.list[i] # None
        \/ i = Len(r.list) + 1 /\ r.called[i] = None
  <2>1. ASSUME NEW i \in DOMAIN r.called
        PROVE  \/ i \in DOMAIN r.list /\ r.called[i] = r.list[i] /\ r.list[i] # None
               \/ i = Len(r.list) + 1 /\ r.called[i] = None
    <3>1. r.called[i] = IF i <= Len(r.list) THEN r.list[i] ELSE None
      BY <1>1 DEF Begins
    <3>2. CASE i <= Len(r.list)
      <4>1. i \in DOMAIN r.list
        BY <1>1, <3>2
      <4>2. r.list[i] \in Entries
        BY <1>1, <4>1
      <4> QED BY <3>1, <3>2, <4>1, <4>2, BusAssumption
    <3>3. CASE ~(i <= Len(r.list))
      BY <1>1, <1>2, <3>1, <3>3
    <3> QED BY <3>2, <3>3
  <2> QED BY <2>1
<1>4. Distinct(r.called)
  BY <1>2, <1>3 DEF Distinct
<1>5. ToSet(r.called) \subseteq ToSet(r.list) \cup {None}
  BY <1>3 DEF ToSet
<1>6. ASSUME Len(r.called) = Len(r.list)
      PROVE  ToSet(r.list) \subseteq ToSet(r.called)
  <2>1. \A i \in DOMAIN r.list : i \in DOMAIN r.called /\ r.called[i] = r.list[i]
    BY <1>1, <1>6 DEF Begins
  <2> QED BY <2>1 DEF ToSet
<1> QED BY <1>4, <1>5, <1>6

\* The broadcasts reach whom they owe (_emit, _parallel).
LEMMA ReachedHolds ==
  ASSUME BusInv
  PROVE  Reached
PROOF
<1>1. ASSUME NEW d \in Dispatches
      PROVE  /\ ToSet(disp[d].called) \subseteq disp[d].present \cup {None}
             /\ Cardinality(ToSet(disp[d].called)) = Len(disp[d].called)
             /\ disp[d].phase = "returned" /\ disp[d].mode \in {"emit", "parallel"} =>
                  {e \in disp[d].present : Admits(d, e)} \subseteq ToSet(disp[d].called)
  <2>. DEFINE r == disp[d]
  <2>1. r \in DispatchType /\ Begins(r) /\ Gathered(r) /\ Sifted(r)
    BY SoundParts
  <2>2. /\ Distinct(r.called) /\ ToSet(r.called) \subseteq ToSet(r.list) \cup {None}
        /\ Len(r.called) = Len(r.list) => ToSet(r.list) \subseteq ToSet(r.called)
    BY <2>1, CalledOnce
  <2>3. ToSet(r.called) \subseteq r.present \cup {None}
    BY <2>1, <2>2 DEF Sifted
  <2>4. Cardinality(ToSet(r.called)) = Len(r.called)
    <3>1. r.called \in Seq(Entries \cup {None})
      BY <2>1 DEF DispatchType
    <3> QED BY <2>2, <3>1, DistinctLength
  <2>5. ASSUME r.phase = "returned", r.mode \in {"emit", "parallel"},
               NEW e \in r.present, Admits(d, e)
        PROVE  e \in ToSet(r.called)
    <3>1. r.mode # None
      BY <2>5, BusAssumption DEF AllModes
    <3>2. ToSet(r.todo) = {}
      <4>1. r.todo = <<>>
        BY <2>1, <2>5 DEF Sifted
      <4> QED BY <4>1 DEF ToSet
    <3>3. e \in ToSet(r.list)
      BY <2>1, <2>5, <3>1, <3>2 DEF Sifted, Admits
    <3>4. Len(r.called) = Len(r.list)
      BY <2>1, <2>5 DEF Gathered
    <3> QED BY <2>2, <3>3, <3>4
  <2> QED BY <2>3, <2>4, <2>5
<1> QED BY <1>1 DEF Reached

\* The verdicts are one per filter (_admitted).
LEMMA OneVerdictHolds ==
  ASSUME BusInv
  PROVE  OneVerdict
PROOF
<1>1. ASSUME NEW d \in Dispatches, disp[d].phase \notin {"idle", "admitting"},
             disp[d].todo = <<>>, disp[d].list # <<>>,
             NEW e \in disp[d].present, NEW f \in disp[d].present,
             Question(e) = Question(f), e \in ToSet(disp[d].list)
      PROVE  f \in ToSet(disp[d].list)
  <2>. DEFINE r == disp[d]
  <2>1. r \in DispatchType /\ Begins(r) /\ Sifted(r)
    BY SoundParts
  <2>2. r.mode # None
    BY <1>1, <2>1 DEF Begins
  <2>3. ToSet(r.todo) = {}
    BY <1>1 DEF ToSet
  <2>4. Question(e) # None => r.verdict[Question(e)] # "no"
    BY <1>1, <2>1 DEF Sifted
  <2> QED BY <1>1, <2>1, <2>2, <2>3, <2>4 DEF Sifted
<1> QED BY <1>1 DEF OneVerdict

\* The handlers hear, serial and bail stop, and parallel waits (_report_failure,
\* _serial, _bail, _parallel).
LEMMA EndsHold ==
  ASSUME BusInv
  PROVE  HandlersHear /\ FirstAnswer /\ ParallelWaits
PROOF
<1>1. ASSUME NEW d \in Dispatches, ~Reporting(d)
      PROVE  disp[d].installed \subseteq ToSet(disp[d].told)
  <2>. DEFINE r == disp[d]
  <2>1. r \in DispatchType /\ Heard(r)
    BY SoundParts
  <2>2. /\ Len(r.told) \in Nat /\ Len(r.audience) \in Nat
        /\ DOMAIN r.told = 1..Len(r.told) /\ DOMAIN r.audience = 1..Len(r.audience)
    BY <2>1 DEF DispatchType
  <2>3. Len(r.told) = Len(r.audience)
    BY <1>1, <2>1, <2>2 DEF Heard, Reporting, Audience
  <2>4. \A i \in DOMAIN r.audience : i \in DOMAIN r.told /\ r.told[i] = r.audience[i]
    BY <2>1, <2>2, <2>3 DEF Heard
  <2> QED BY <2>1, <2>4 DEF Heard, ToSet
<1>2. HandlersHear
  BY <1>1 DEF HandlersHear
<1>3. FirstAnswer
  BY SoundParts DEF FirstAnswer, InTurnRuns
<1>4. ParallelWaits
  BY SoundParts DEF ParallelWaits, Gathered
<1> QED BY <1>2, <1>3, <1>4

\* Every mode of dispatch reaches the listeners it owes, in their order, and ends
\* as its mode says, for every number of registrations and dispatches and
\* whatever is registered, disposed of or raised while they run (_snapshot,
\* _admitted, _report_failure and the five dispatchers).
THEOREM DeliveredHolds == Spec => []Delivered
PROOF
<1>1. BusInv => Delivered
  BY PrecedenceHolds, ReachedHolds, OneVerdictHolds, EndsHold DEF Delivered
<1> QED BY <1>1, BusInvHolds, PTL

\* The link behind a listener is entered once if the listener has called next, and
\* not at all if it has not.
LEMMA LinkOnce ==
  ASSUME NEW r \in DispatchType, Begins(r), Linked(r), r.mode = "waterfall",
         NEW k \in DOMAIN r.list,
         NEW behind, behind = IF k = Len(r.list) THEN None ELSE r.list[k + 1]
  PROVE  Cardinality({i \in DOMAIN r.called : r.called[i] = behind})
           = IF r.asked[r.list[k]] > 0 THEN 1 ELSE 0
PROOF
<1>1. /\ r.list \in Seq(Entries) /\ Len(r.list) \in Nat /\ DOMAIN r.list = 1..Len(r.list)
      /\ r.called \in Seq(Entries \cup {None}) /\ Len(r.called) \in Nat
      /\ DOMAIN r.called = 1..Len(r.called)
  BY DEF DispatchType
<1>2. \A i \in DOMAIN r.called :
        r.called[i] = IF i <= Len(r.list) THEN r.list[i] ELSE None
  BY <1>1 DEF Begins
<1>3. Distinct(r.called) /\ Len(r.called) <= Len(r.list) + 1
  <2>1. Distinct(r.called)
    BY CalledOnce
  <2>2. Len(r.called) <= Len(r.list) + 1
    BY <1>1 DEF Begins
  <2> QED BY <2>1, <2>2
<1>4. CASE k < Len(r.called)
  <2>1. k + 1 \in DOMAIN r.called /\ r.called[k + 1] = behind
    <3>1. k + 1 \in DOMAIN r.called
      BY <1>1, <1>4
    <3>2. CASE k = Len(r.list)
      BY <1>1, <1>2, <3>1, <3>2
    <3>3. CASE k # Len(r.list)
      <4>1. k + 1 <= Len(r.list)
        BY <1>1, <3>3
      <4> QED BY <1>2, <3>1, <3>3, <4>1
    <3> QED BY <3>1, <3>2, <3>3
  <2>2. {i \in DOMAIN r.called : r.called[i] = behind} = {k + 1}
    BY <1>3, <2>1 DEF Distinct
  <2>3. Cardinality({k + 1}) = 1
    BY FS_Singleton
  <2>4. r.asked[r.list[k]] > 0
    BY <1>4 DEF Linked
  <2> QED BY <2>2, <2>3, <2>4
<1>5. CASE ~(k < Len(r.called))
  <2>1. ASSUME NEW i \in DOMAIN r.called
        PROVE  r.called[i] # behind
    <3>1. i <= k /\ i \in DOMAIN r.list /\ r.called[i] = r.list[i]
      BY <1>1, <1>2, <1>5
    <3>2. CASE k = Len(r.list)
      <4>1. r.list[i] \in Entries
        BY <1>1, <3>1
      <4> QED BY <3>1, <3>2, <4>1, BusAssumption
    <3>3. CASE k # Len(r.list)
      <4>1. k + 1 \in DOMAIN r.list /\ k + 1 # i
        BY <1>1, <3>1, <3>3
      <4>2. r.list[i] # r.list[k + 1]
        BY <3>1, <4>1 DEF Begins
      <4> QED BY <3>1, <3>3, <4>2
    <3> QED BY <3>2, <3>3
  <2>2. {i \in DOMAIN r.called : r.called[i] = behind} = {}
    BY <2>1
  <2>3. Cardinality({}) = 0
    BY FS_EmptySet
  <2>4. ~(r.asked[r.list[k]] > 0)
    BY <1>5 DEF Linked
  <2> QED BY <2>2, <2>3, <2>4
<1> QED BY <1>4, <1>5

\* The rest of a chain runs once or not at all, however often, however late and by
\* whomever next is called, and whatever other dispatches do (_link).
THEOREM NextOnceHolds == Spec => []NextOnce
PROOF
<1>1. ASSUME BusInv, NEW d \in Dispatches, disp[d].mode = "waterfall",
             NEW k \in DOMAIN disp[d].list
      PROVE  LET behind == IF k = Len(disp[d].list) THEN None ELSE disp[d].list[k + 1]
             IN Cardinality({i \in DOMAIN disp[d].called : disp[d].called[i] = behind})
                  = IF disp[d].asked[disp[d].list[k]] > 0 THEN 1 ELSE 0
  BY <1>1, SoundParts, LinkOnce
<1>2. BusInv => NextOnce
  BY <1>1 DEF NextOnce
<1> QED BY <1>2, BusInvHolds, PTL
=============================================================================
