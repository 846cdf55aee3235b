------------------------- MODULE EffectScope_proofs -------------------------
(***************************************************************************)
(* Proofs about EffectScope, for every tree of scopes, every set of        *)
(* effects and every number of callers.                                    *)
(***************************************************************************)
EXTENDS EffectScope, SequenceTheorems, FiniteSetTheorems, TLAPS

\* The types of what the tree of scopes and the callers of dispose() keep.
UnwindType == [Scopes -> [pc : {"absent", "open", "spawned", "walk", "child", "done"},
                          todo : Seq(Effects \cup Scopes)]]

CallerType == [Callers -> [at : Scopes \cup {None}, cancelled : BOOLEAN,
                           out : {"idle", "waiting", "returned", "raised", "cancelled"}]]

TreeTypes ==
  /\ entries \in [Scopes -> Seq(Effects \cup Scopes)]
  /\ unwind \in UnwindType
  /\ caller \in CallerType

\* A scope without a parent is there, and a walk that waits for a child scope
\* has that scope in front of it.
Shapes ==
  \A s \in Scopes :
    /\ ParentOf[s] = None => unwind[s].pc # "absent"
    /\ unwind[s].pc = "child" => unwind[s].todo # <<>>

\* Where a scope stands when its parent has still to unwind it.
Owed(c) ==
  \/ /\ unwind[ParentOf[c]].pc \in {"open", "spawned"}
     /\ c \in ToSet(entries[ParentOf[c]])
  \/ /\ unwind[ParentOf[c]].pc \in {"walk", "child"}
     /\ c \in ToSet(unwind[ParentOf[c]].todo)

\* Nothing the parents have still to unwind gets lost on a step.
Keeps == \A c \in Scopes : ParentOf[c] \in Scopes /\ Owed(c) => Owed(c)'

\* A scope that exists and is not done is among what its parent has still to
\* unwind.
Reachable ==
  \A c \in Scopes :
    ParentOf[c] # None /\ unwind[c].pc \notin {"absent", "done"} => Owed(c)

\* Whoever called dispose() waits for a scope.
Answers ==
  \A c \in Callers : caller[c].out # "idle" => caller[c].at \in Scopes

IInv == TreeTypes /\ Shapes /\ Reachable /\ Answers /\ NoEarlyReturn

----------------------------------------------------------------------------
(* Sequences *)

LEMMA Elements ==
  ASSUME NEW S, NEW seq \in Seq(S)
  PROVE  /\ \A i \in 1..Len(seq) : seq[i] \in ToSet(seq)
         /\ \A y \in ToSet(seq) : \E i \in 1..Len(seq) : y = seq[i]
  BY DEF ToSet

LEMMA ReverseIsSeq ==
  ASSUME NEW S, NEW seq \in Seq(S)
  PROVE  Reverse(seq) \in Seq(S) /\ ToSet(Reverse(seq)) = ToSet(seq)
<1>1. Reverse(seq) \in Seq(S)
  BY DEF Reverse
<1>2. \A i \in 1..Len(seq) : (Len(seq) - i) + 1 \in 1..Len(seq)
  OBVIOUS
<1>3. \A i \in 1..Len(seq) : Reverse(seq)[i] = seq[(Len(seq) - i) + 1]
  BY DEF Reverse
<1>4. DOMAIN Reverse(seq) = 1..Len(seq) /\ DOMAIN seq = 1..Len(seq)
  BY DEF Reverse
<1>5. ASSUME NEW i \in 1..Len(seq) PROVE seq[i] \in ToSet(Reverse(seq))
  <2>1. Reverse(seq)[(Len(seq) - i) + 1] = seq[i]
    <3>1. (Len(seq) - ((Len(seq) - i) + 1)) + 1 = i
      OBVIOUS
    <3> QED
      BY <1>2, <1>3, <3>1
  <2> QED
    BY <1>2, <1>4, <2>1 DEF ToSet
<1>6. ASSUME NEW i \in 1..Len(seq) PROVE Reverse(seq)[i] \in ToSet(seq)
  BY <1>2, <1>3, <1>4 DEF ToSet
<1> QED
  BY <1>1, <1>4, <1>5, <1>6 DEF ToSet

LEMMA AppendSet ==
  ASSUME NEW S, NEW seq \in Seq(S), NEW x \in S
  PROVE  Append(seq, x) \in Seq(S) /\ ToSet(Append(seq, x)) = ToSet(seq) \cup {x}
<1>1. Append(seq, x) \in Seq(S) /\ Len(Append(seq, x)) = Len(seq) + 1
  OBVIOUS
<1>2. \A i \in 1..Len(seq) : Append(seq, x)[i] = seq[i]
  OBVIOUS
<1>3. Append(seq, x)[Len(seq) + 1] = x
  OBVIOUS
<1>4. DOMAIN seq = 1..Len(seq) /\ DOMAIN Append(seq, x) = 1..(Len(seq) + 1)
  BY <1>1
<1> QED
  BY <1>1, <1>2, <1>3, <1>4 DEF ToSet

LEMMA TailSet ==
  ASSUME NEW S, NEW seq \in Seq(S), seq # <<>>
  PROVE  /\ Head(seq) \in S
         /\ Tail(seq) \in Seq(S)
         /\ ToSet(seq) = {Head(seq)} \cup ToSet(Tail(seq))
<1>1. Head(seq) \in S /\ Tail(seq) \in Seq(S) /\ Len(Tail(seq)) = Len(seq) - 1 /\ Len(seq) > 0
  OBVIOUS
<1>2. \A i \in 1..(Len(seq) - 1) : Tail(seq)[i] = seq[i + 1]
  OBVIOUS
<1>3. Head(seq) = seq[1]
  OBVIOUS
<1>4. DOMAIN seq = 1..Len(seq) /\ DOMAIN Tail(seq) = 1..(Len(seq) - 1)
  BY <1>1
<1>5. ASSUME NEW y \in ToSet(seq) PROVE y \in {Head(seq)} \cup ToSet(Tail(seq))
  <2>1. PICK i \in 1..Len(seq) : y = seq[i]
    BY Elements
  <2>2. CASE i = 1
    BY <1>3, <2>1, <2>2
  <2>3. CASE i # 1
    <3>1. i - 1 \in 1..(Len(seq) - 1) /\ (i - 1) + 1 = i
      BY <2>3
    <3>2. Tail(seq)[i - 1] = y
      BY <1>2, <2>1, <3>1
    <3> QED
      BY <1>1, <3>1, <3>2, Elements
  <2> QED
    BY <2>2, <2>3
<1>6. ASSUME NEW y \in {Head(seq)} \cup ToSet(Tail(seq)) PROVE y \in ToSet(seq)
  <2>1. CASE y = Head(seq)
    BY <1>1, <1>3, <2>1, Elements
  <2>2. CASE y \in ToSet(Tail(seq))
    <3>1. PICK i \in 1..(Len(seq) - 1) : y = Tail(seq)[i]
      BY <1>1, <2>2, Elements
    <3>2. i + 1 \in 1..Len(seq) /\ y = seq[i + 1]
      BY <1>1, <1>2, <3>1
    <3> QED
      BY <3>2, Elements
  <2> QED
    BY <1>6, <2>1, <2>2
<1> QED
  BY <1>1, <1>5, <1>6

\* Removing x takes nothing else away.
LEMMA WithoutSet ==
  ASSUME NEW S, NEW seq \in Seq(S), NEW x
  PROVE  /\ Without(seq, x) \in Seq(S)
         /\ \A y : y # x /\ y \in ToSet(seq) => y \in ToSet(Without(seq, x))
<1>1. CASE x \notin ToSet(seq)
  BY <1>1 DEF Without
<1>2. CASE x \in ToSet(seq)
  <2> DEFINE at == CHOOSE i \in DOMAIN seq : seq[i] = x
  <2>1. at \in 1..Len(seq) /\ seq[at] = x
    BY <1>2 DEF ToSet
  <2> DEFINE front == SubSeq(seq, 1, at - 1)
             back  == SubSeq(seq, at + 1, Len(seq))
  <2>2. Without(seq, x) = front \o back
    BY <1>2 DEF Without, RemoveAt
  <2> HIDE DEF at
  <2>3. front \in Seq(S) /\ Len(front) = at - 1 /\ \A i \in 1..(at - 1) : front[i] = seq[i]
    BY <2>1
  <2>4. /\ back \in Seq(S) /\ Len(back) = Len(seq) - at
        /\ \A i \in 1..(Len(seq) - at) : back[i] = seq[at + i]
    BY <2>1
  <2> HIDE DEF front, back
  <2>5. /\ front \o back \in Seq(S)
        /\ DOMAIN (front \o back) = 1..(Len(seq) - 1)
        /\ \A i \in 1..(at - 1) : (front \o back)[i] = front[i]
        /\ \A i \in 1..(Len(seq) - at) : (front \o back)[(at - 1) + i] = back[i]
    BY <2>1, <2>3, <2>4
  <2>6. Len(front \o back) = Len(seq) - 1
    <3>1. Len(front \o back) = Len(front) + Len(back)
      BY <2>3, <2>4, ConcatProperties
    <3>2. Len(front) = at - 1 /\ Len(back) = Len(seq) - at /\ Len(seq) \in Nat /\ at \in Nat
      BY <2>1, <2>3, <2>4
    <3> QED
      BY <3>1, <3>2
  <2>7. ASSUME NEW j \in 1..Len(seq), seq[j] # x
        PROVE  seq[j] \in ToSet(front \o back)
    <3>1. CASE j < at
      <4>1. j \in 1..(at - 1) /\ j \in 1..(Len(seq) - 1)
        BY <3>1, <2>1
      <4>2. (front \o back)[j] = seq[j]
        BY <4>1, <2>3, <2>5
      <4> QED
        BY <4>1, <4>2, <2>5, <2>6, Elements
    <3>2. CASE j > at
      <4>1. j - at \in 1..(Len(seq) - at) /\ (at - 1) + (j - at) \in 1..(Len(seq) - 1)
        BY <3>2, <2>1
      <4>2. (front \o back)[(at - 1) + (j - at)] = seq[at + (j - at)]
        BY <4>1, <2>4, <2>5
      <4>3. at + (j - at) = j
        BY <2>1
      <4> QED
        BY <4>1, <4>2, <4>3, <2>5, <2>6, Elements
    <3> QED
      BY <2>7, <3>1, <3>2, <2>1
  <2>8. ASSUME NEW y, y # x, y \in ToSet(seq) PROVE y \in ToSet(front \o back)
    BY <2>7, <2>8, Elements
  <2> QED
    BY <2>2, <2>5, <2>8
<1> QED
  BY <1>1, <1>2

----------------------------------------------------------------------------
(* The inductive invariant *)

LEMMA InitIInv == Init => IInv
  BY ShapeAssumption
     DEF Init, IInv, TreeTypes, UnwindType, CallerType, Shapes, Reachable, Answers, NoEarlyReturn

\* The steps that leave the tree of scopes and the callers alone.
LEMMA Elsewhere == IInv /\ UNCHANGED <<entries, unwind, caller>> => IInv' /\ Keeps
  BY DEF IInv, TreeTypes, UnwindType, CallerType, Shapes, Reachable, Answers, NoEarlyReturn,
         Owed, Keeps

\* An effect joins the entries of its scope.
LEMMA JoinStep ==
  ASSUME IInv, NEW e \in Effects,
         entries' = [entries EXCEPT ![Owner[e]] = Append(@, e)],
         UNCHANGED <<unwind, caller>>
  PROVE  IInv' /\ Keeps
<1> USE ShapeAssumption DEF IInv
<1>1. /\ Owner[e] \in Scopes
      /\ entries[Owner[e]] \in Seq(Effects \cup Scopes)
      /\ e \in Effects \cup Scopes
  BY DEF TreeTypes, UnwindType, CallerType
<1> DEFINE S == Effects \cup Scopes
           seq == entries[Owner[e]]
<1>2. Append(seq, e) \in Seq(S) /\ ToSet(Append(seq, e)) = ToSet(seq) \cup {e}
  <2> HIDE DEF S, seq
  <2>1. seq \in Seq(S) /\ e \in S
    BY <1>1 DEF S, seq
  <2> QED
    BY <2>1, AppendSet
<1>3. TreeTypes'
  BY <1>1, <1>2 DEF TreeTypes, UnwindType, CallerType
<1>4. \A s \in Scopes : ToSet(entries[s]) \subseteq ToSet(entries'[s])
  BY <1>1, <1>2 DEF TreeTypes, UnwindType, CallerType
<1>5. Keeps
  BY <1>4 DEF Keeps, Owed
<1>6. Reachable'
  BY <1>5 DEF Reachable, Keeps
<1> QED
  BY <1>3, <1>5, <1>6 DEF Shapes, Answers, NoEarlyReturn

\* An effect leaves the entries of its scope; the scopes among them stay.
LEMMA LeaveStep ==
  ASSUME IInv, NEW e \in Effects,
         entries' = [entries EXCEPT ![Owner[e]] = Without(@, e)],
         UNCHANGED <<unwind, caller>>
  PROVE  IInv' /\ Keeps
<1> USE ShapeAssumption DEF IInv
<1>1. Owner[e] \in Scopes /\ entries[Owner[e]] \in Seq(Effects \cup Scopes)
  BY DEF TreeTypes, UnwindType, CallerType
<1>2. /\ Without(entries[Owner[e]], e) \in Seq(Effects \cup Scopes)
      /\ \A y : y # e /\ y \in ToSet(entries[Owner[e]])
             => y \in ToSet(Without(entries[Owner[e]], e))
  BY <1>1, WithoutSet
<1>3. TreeTypes'
  BY <1>1, <1>2 DEF TreeTypes, UnwindType, CallerType
<1>4. \A s, c \in Scopes : c \in ToSet(entries[s]) => c \in ToSet(entries'[s])
  BY <1>1, <1>2 DEF TreeTypes, UnwindType, CallerType
<1>5. Keeps
  BY <1>4 DEF Keeps, Owed
<1>6. Reachable'
  BY <1>5 DEF Reachable, Keeps
<1> QED
  BY <1>3, <1>5, <1>6 DEF Shapes, Answers, NoEarlyReturn

\* A new scope is open and among the entries of its parent.
LEMMA ChildStep ==
  ASSUME IInv, NEW s \in Scopes, Child(s)
  PROVE  IInv' /\ Keeps /\ Owed(s)'
<1> USE ShapeAssumption DEF IInv, Child, Active
<1>1. ParentOf[s] \in Scopes
  BY DEF Shapes
<1> DEFINE S == Effects \cup Scopes
           seq == entries[ParentOf[s]]
<1>2. Append(seq, s) \in Seq(S) /\ ToSet(Append(seq, s)) = ToSet(seq) \cup {s}
  <2>1. seq \in Seq(S) /\ s \in S
    BY <1>1 DEF TreeTypes, UnwindType, CallerType
  <2> HIDE DEF S, seq
  <2> QED
    BY <2>1, AppendSet
<1>3. TreeTypes'
  <2>1. entries' = [entries EXCEPT ![ParentOf[s]] = Append(seq, s)]
    OBVIOUS
  <2> HIDE DEF seq
  <2>2. entries' \in [Scopes -> Seq(S)]
    BY <1>1, <1>2, <2>1 DEF TreeTypes
  <2>3. unwind' \in UnwindType
    <3>1. unwind \in UnwindType /\ unwind' = [unwind EXCEPT ![s].pc = "open"]
      BY DEF TreeTypes
    <3> QED
      BY ONLY <3>1 DEF UnwindType
  <2> QED
    BY <2>2, <2>3 DEF TreeTypes
<1>4. Shapes'
  BY DEF Shapes, TreeTypes, UnwindType, CallerType
<1>5. \A x \in Scopes : ToSet(entries[x]) \subseteq ToSet(entries'[x])
  BY <1>1, <1>2 DEF TreeTypes, UnwindType, CallerType
<1>6. Owed(s)'
  BY <1>1, <1>2 DEF Owed, TreeTypes, UnwindType, CallerType
<1>7. Keeps
  BY <1>5 DEF Keeps, Owed, TreeTypes, UnwindType, CallerType
<1>8. Reachable'
  <2> SUFFICES ASSUME NEW c \in Scopes, ParentOf[c] # None,
                      unwind'[c].pc \notin {"absent", "done"}, c # s
               PROVE  Owed(c)'
    BY <1>6 DEF Reachable
  <2>1. unwind'[c] = unwind[c]
    BY DEF TreeTypes, UnwindType
  <2> QED
    BY <1>7, <2>1 DEF Reachable, Keeps
<1>9. Answers' /\ NoEarlyReturn'
  BY DEF Answers, NoEarlyReturn, TreeTypes, UnwindType, CallerType
<1> QED
  BY <1>3, <1>4, <1>6, <1>7, <1>8, <1>9

\* What a step does to the progress of one scope.
LEMMA Closed ==
  ASSUME unwind \in UnwindType, NEW s \in Scopes, StartUnwind(s)
  PROVE  /\ unwind' \in UnwindType
         /\ \A x \in Scopes :
              /\ unwind'[x].todo = unwind[x].todo
              /\ unwind'[x].pc = unwind[x].pc \/ (unwind[x].pc = "open" /\ unwind'[x].pc = "spawned")
  BY DEF UnwindType, StartUnwind

LEMMA Moved ==
  ASSUME unwind \in UnwindType, NEW s \in Scopes,
         NEW pc \in {"absent", "open", "spawned", "walk", "child", "done"},
         NEW todo \in Seq(Effects \cup Scopes),
         unwind' = [unwind EXCEPT ![s] = [pc |-> pc, todo |-> todo]]
  PROVE  /\ unwind' \in UnwindType
         /\ unwind'[s].pc = pc /\ unwind'[s].todo = todo
         /\ \A x \in Scopes \ {s} : unwind'[x] = unwind[x]
  BY DEF UnwindType

\* What a step does to one caller.
LEMMA Waits ==
  ASSUME caller \in CallerType, NEW c \in Callers, NEW s \in Scopes, Dispose(c, s)
  PROVE  /\ caller' \in CallerType
         /\ caller'[c].at = s /\ caller'[c].out = "waiting"
         /\ \A k \in Callers \ {c} : caller'[k] = caller[k]
  BY DEF CallerType, Dispose

LEMMA Cancelled ==
  ASSUME caller \in CallerType, NEW c \in Callers, Cancel(c)
  PROVE  /\ caller' \in CallerType
         /\ caller[c].out = "waiting" /\ caller'[c].at = caller[c].at
         /\ caller'[c].out # "waiting" => unwind[caller[c].at].pc = "done"
         /\ \A k \in Callers \ {c} : caller'[k] = caller[k]
  BY DEF CallerType, Cancel

LEMMA Answered ==
  ASSUME caller \in CallerType, NEW c \in Callers, DisposeReturns(c)
  PROVE  /\ caller' \in CallerType
         /\ caller[c].out = "waiting" /\ caller'[c].at = caller[c].at
         /\ unwind[caller[c].at].pc = "done"
         /\ \A k \in Callers \ {c} : caller'[k] = caller[k]
  BY DEF CallerType, DisposeReturns

\* A dispose() waits, and may close the scope.
LEMMA DisposeStep ==
  ASSUME IInv, NEW c \in Callers, NEW s \in Scopes, Dispose(c, s)
  PROVE  IInv' /\ Keeps
<1> USE ShapeAssumption DEF IInv
<1>1. /\ unwind' \in UnwindType
      /\ \A x \in Scopes :
           /\ unwind'[x].todo = unwind[x].todo
           /\ unwind'[x].pc = unwind[x].pc \/ (unwind[x].pc = "open" /\ unwind'[x].pc = "spawned")
  BY Closed DEF TreeTypes, Dispose
<1>2. /\ caller' \in CallerType
      /\ caller'[c].at = s /\ caller'[c].out = "waiting"
      /\ \A k \in Callers \ {c} : caller'[k] = caller[k]
  BY Waits DEF TreeTypes
<1>3. entries' = entries
  BY DEF Dispose
<1>4. TreeTypes'
  BY <1>1, <1>2, <1>3 DEF TreeTypes
<1>5. Shapes'
  BY <1>1 DEF Shapes
<1>6. Keeps
  BY <1>1, <1>3 DEF Keeps, Owed
<1>7. Reachable'
  BY <1>1, <1>6 DEF Reachable, Keeps
<1>8. Answers'
  BY <1>2 DEF Answers
<1>9. NoEarlyReturn'
  <2> SUFFICES ASSUME NEW k \in Callers, caller'[k].out \notin {"idle", "waiting"}
               PROVE  unwind'[caller'[k].at].pc = "done"
    BY DEF NoEarlyReturn
  <2>1. k # c /\ caller'[k] = caller[k]
    BY <1>2
  <2>2. caller[k].at \in Scopes /\ unwind[caller[k].at].pc = "done"
    BY <2>1 DEF Answers, NoEarlyReturn
  <2> QED
    BY <1>1, <2>1, <2>2
<1> QED
  BY <1>4, <1>5, <1>6, <1>7, <1>8, <1>9

\* A caller is cancelled, or answered: only where the unwind is done.
LEMMA CallerStep ==
  ASSUME IInv, NEW c \in Callers, Cancel(c) \/ DisposeReturns(c)
  PROVE  IInv' /\ Keeps
<1> USE DEF IInv
<1>1. /\ caller' \in CallerType
      /\ caller[c].out = "waiting" /\ caller'[c].at = caller[c].at
      /\ caller'[c].out # "waiting" => unwind[caller[c].at].pc = "done"
      /\ \A k \in Callers \ {c} : caller'[k] = caller[k]
  BY Cancelled, Answered DEF TreeTypes
<1>2. entries' = entries /\ unwind' = unwind
  BY DEF Cancel, DisposeReturns
<1>3. Answers' /\ NoEarlyReturn'
  BY <1>1, <1>2 DEF Answers, NoEarlyReturn
<1>4. Keeps
  BY <1>2 DEF Keeps, Owed
<1> QED
  BY <1>1, <1>2, <1>3, <1>4 DEF TreeTypes, Shapes, Reachable, Owed

\* A step of the unwind of s, given what it does to the tree.
LEMMA UnwindStep ==
  ASSUME IInv, TreeTypes', Shapes', caller' = caller,
         \A x \in Scopes :
           /\ unwind'[x].pc = "absent" <=> unwind[x].pc = "absent"
           /\ unwind[x].pc = "done" => unwind'[x].pc = "done",
         \A x \in Scopes :
           ParentOf[x] \in Scopes /\ unwind'[x].pc \notin {"absent", "done"} /\ Owed(x) => Owed(x)'
  PROVE  IInv'
<1> USE ShapeAssumption DEF IInv
<1>1. Reachable'
  <2> SUFFICES ASSUME NEW x \in Scopes, ParentOf[x] # None,
                      unwind'[x].pc \notin {"absent", "done"}
               PROVE  Owed(x)'
    BY DEF Reachable
  <2>1. ParentOf[x] \in Scopes /\ unwind[x].pc \notin {"absent", "done"}
    OBVIOUS
  <2>2. Owed(x)
    BY <2>1 DEF Reachable
  <2> QED
    BY <2>1, <2>2
<1>2. Answers' /\ NoEarlyReturn'
  BY DEF Answers, NoEarlyReturn
<1> QED
  BY <1>1, <1>2

\* The walk takes over the entries.
LEMMA BeginStep == ASSUME IInv, NEW s \in Scopes, BeginUnwind(s) PROVE IInv' /\ Keeps
<1> USE ShapeAssumption DEF IInv
<1> DEFINE S == Effects \cup Scopes
           seq == entries[s]
<1>1. Reverse(seq) \in Seq(S) /\ ToSet(Reverse(seq)) = ToSet(seq)
  <2>1. seq \in Seq(S)
    BY DEF TreeTypes
  <2> HIDE DEF S, seq
  <2> QED
    BY <2>1, ReverseIsSeq
<1>2. /\ unwind' \in UnwindType
      /\ unwind'[s].pc = "walk" /\ unwind'[s].todo = Reverse(seq)
      /\ \A x \in Scopes \ {s} : unwind'[x] = unwind[x]
  BY <1>1, Moved DEF TreeTypes, BeginUnwind, InReverse
<1>3. /\ unwind[s].pc = "spawned"
      /\ entries' = [entries EXCEPT ![s] = <<>>]
      /\ caller' = caller
  BY DEF BeginUnwind
<1>4. TreeTypes'
  BY <1>2, <1>3 DEF TreeTypes
<1>5. Shapes'
  BY <1>2, <1>3 DEF Shapes
<1>6. ASSUME NEW x \in Scopes, ParentOf[x] \in Scopes, Owed(x) PROVE Owed(x)'
  <2>1. CASE ParentOf[x] = s
    <3>1. x \in ToSet(seq)
      BY <1>3, <1>6, <2>1 DEF Owed
    <3> QED
      BY <1>1, <1>2, <2>1, <3>1 DEF Owed
  <2>2. CASE ParentOf[x] # s
    <3>1. entries'[ParentOf[x]] = entries[ParentOf[x]]
      BY <1>3, <1>6, <2>2 DEF TreeTypes
    <3> QED
      BY <1>2, <1>6, <2>2, <3>1 DEF Owed
  <2> QED
    BY <2>1, <2>2
<1> QED
  BY <1>2, <1>3, <1>4, <1>5, <1>6, UnwindStep DEF Keeps

\* The walk passes its first entry, which is no scope that is still to unwind.
LEMMA PassStep ==
  ASSUME IInv, NEW s \in Scopes, unwind[s].pc \in {"walk", "child"}, unwind[s].todo # <<>>,
         Head(unwind[s].todo) \in Scopes => unwind[Head(unwind[s].todo)].pc = "done",
         unwind' = [unwind EXCEPT ![s] = [pc |-> "walk", todo |-> Tail(unwind[s].todo)]],
         entries' = entries, caller' = caller
  PROVE  /\ IInv'
         /\ \A x \in Scopes : ParentOf[x] \in Scopes /\ Owed(x) =>
              Owed(x)' \/ (ParentOf[x] = s /\ x = Head(unwind[s].todo))
<1> USE ShapeAssumption DEF IInv
<1> DEFINE S == Effects \cup Scopes
           seq == unwind[s].todo
<1>1. /\ Tail(seq) \in Seq(S)
      /\ ToSet(seq) = {Head(seq)} \cup ToSet(Tail(seq))
  <2>1. seq \in Seq(S) /\ seq # <<>>
    BY DEF TreeTypes, UnwindType
  <2> HIDE DEF S, seq
  <2> QED
    BY <2>1, TailSet
<1>2. /\ unwind' \in UnwindType
      /\ unwind'[s].pc = "walk" /\ unwind'[s].todo = Tail(seq)
      /\ \A x \in Scopes \ {s} : unwind'[x] = unwind[x]
  BY <1>1, Moved DEF TreeTypes
<1>3. TreeTypes'
  BY <1>2 DEF TreeTypes
<1>4. Shapes'
  BY <1>2 DEF Shapes
<1>5. ASSUME NEW x \in Scopes, ParentOf[x] \in Scopes, Owed(x),
             ~(ParentOf[x] = s /\ x = Head(seq))
      PROVE  Owed(x)'
  <2>1. CASE ParentOf[x] = s
    <3>1. x \in ToSet(seq)
      BY <1>5, <2>1 DEF Owed
    <3> QED
      BY <1>1, <1>2, <1>5, <2>1, <3>1 DEF Owed
  <2>2. CASE ParentOf[x] # s
    BY <1>2, <1>5, <2>2 DEF Owed
  <2> QED
    BY <2>1, <2>2
<1>6. ASSUME NEW x \in Scopes, unwind'[x].pc # "done" PROVE x # Head(seq)
  BY <1>2, <1>6
<1> QED
  BY <1>2, <1>3, <1>4, <1>5, <1>6, UnwindStep

LEMMA EffectStep == ASSUME IInv, NEW s \in Scopes, UnwindEffect(s) PROVE IInv' /\ Keeps
<1>1. /\ unwind[s].pc = "walk" /\ unwind[s].todo # <<>>
      /\ Head(unwind[s].todo) \notin Scopes
      /\ unwind' = [unwind EXCEPT ![s].todo = Tail(@)]
      /\ entries' = entries /\ caller' = caller
  BY ShapeAssumption DEF UnwindEffect, AtEntry
<1> DEFINE passed == [pc |-> "walk", todo |-> Tail(unwind[s].todo)]
<1>2. unwind[s] \in [pc : {"absent", "open", "spawned", "walk", "child", "done"},
                     todo : Seq(Effects \cup Scopes)]
  BY DEF IInv, TreeTypes, UnwindType
<1>3. unwind' = [unwind EXCEPT ![s] = passed]
  <2>1. [unwind[s] EXCEPT !.todo = Tail(@)] = passed
    BY <1>1, <1>2
  <2>2. unwind' = [unwind EXCEPT ![s] = [unwind[s] EXCEPT !.todo = Tail(@)]]
    BY <1>1
  <2> QED
    BY <2>1, <2>2
<1> QED
  BY <1>1, <1>3, PassStep DEF Keeps

LEMMA UnwoundStep ==
  ASSUME IInv, NEW s \in Scopes, ChildUnwound(s)
  PROVE  /\ IInv'
         /\ \A x \in Scopes : ParentOf[x] \in Scopes /\ Owed(x) =>
              Owed(x)' \/ (ParentOf[x] = s /\ x = Head(unwind[s].todo))
<1>1. /\ unwind[s].pc = "child"
      /\ unwind[Head(unwind[s].todo)].pc = "done"
      /\ entries' = entries /\ caller' = caller
  BY DEF ChildUnwound
<1>2. unwind' = [unwind EXCEPT ![s] = [pc |-> "walk", todo |-> Tail(unwind[s].todo)]]
  BY DEF ChildUnwound
<1>3. unwind[s].todo # <<>>
  BY <1>1 DEF IInv, Shapes
<1> QED
  BY <1>1, <1>2, <1>3, PassStep

\* The two updates of a walk that calls the dispose() of a child scope.
CalledChildOf(f, s, c) ==
  [f EXCEPT ![s].pc = "child", ![c].pc = IF @ = "open" THEN "spawned" ELSE @]

LEMMA CalledChild ==
  ASSUME NEW s \in Scopes, NEW c \in Scopes, NEW f \in UnwindType
  PROVE  LET g == CalledChildOf(f, s, c)
         IN  /\ g \in UnwindType
             /\ \A x \in Scopes :
                  /\ g[x].todo = f[x].todo
                  /\ \/ g[x].pc = f[x].pc
                     \/ f[x].pc = "open" /\ g[x].pc = "spawned"
                     \/ x = s /\ g[x].pc = "child"
  BY ZenonT(60) DEF UnwindType, CalledChildOf

\* The walk calls the dispose() of a child scope.
LEMMA UnwindChildStep == ASSUME IInv, NEW s \in Scopes, UnwindChild(s) PROVE IInv' /\ Keeps
<1> USE ShapeAssumption DEF IInv
<1> DEFINE c == Head(unwind[s].todo)
<1>1. /\ unwind[s].pc = "walk" /\ unwind[s].todo # <<>> /\ c \in Scopes
      /\ entries' = entries /\ caller' = caller
  BY DEF UnwindChild, AtEntry
<1>2. unwind' = CalledChildOf(unwind, s, c)
  BY DEF UnwindChild, CalledChildOf
<1> HIDE DEF c
<1>3. /\ unwind' \in UnwindType
      /\ \A x \in Scopes :
           /\ unwind'[x].todo = unwind[x].todo
           /\ \/ unwind'[x].pc = unwind[x].pc
              \/ unwind[x].pc = "open" /\ unwind'[x].pc = "spawned"
              \/ x = s /\ unwind'[x].pc = "child"
  BY <1>1, <1>2, CalledChild DEF TreeTypes
<1>4. TreeTypes'
  BY <1>1, <1>3 DEF TreeTypes
<1>5. Shapes'
  BY <1>1, <1>3 DEF Shapes
<1>6. ASSUME NEW x \in Scopes, ParentOf[x] \in Scopes, Owed(x) PROVE Owed(x)'
  BY <1>1, <1>3, <1>6 DEF Owed
<1> QED
  BY <1>1, <1>3, <1>4, <1>5, <1>6, UnwindStep DEF Keeps

\* The walk ends with nothing left to unwind.
LEMMA EndStep == ASSUME IInv, NEW s \in Scopes, EndUnwind(s) PROVE IInv' /\ Keeps
<1> USE ShapeAssumption DEF IInv
<1>1. /\ unwind[s].pc = "walk" /\ unwind[s].todo = <<>>
      /\ unwind' = [unwind EXCEPT ![s].pc = "done"]
      /\ entries' = entries /\ caller' = caller
  BY DEF EndUnwind, AtEntry
<1>2. /\ unwind' \in UnwindType
      /\ unwind'[s].pc = "done"
      /\ \A x \in Scopes \ {s} : unwind'[x] = unwind[x]
  BY <1>1 DEF TreeTypes, UnwindType
<1>3. TreeTypes'
  BY <1>1, <1>2 DEF TreeTypes
<1>4. Shapes'
  BY <1>1, <1>2 DEF Shapes
<1>5. ASSUME NEW x \in Scopes, ParentOf[x] \in Scopes, Owed(x) PROVE Owed(x)'
  <2>1. CASE ParentOf[x] = s
    <3>1. x \in ToSet(unwind[s].todo)
      BY <1>1, <1>5, <2>1 DEF Owed
    <3> QED
      BY <1>1, <3>1 DEF ToSet
  <2>2. CASE ParentOf[x] # s
    BY <1>1, <1>2, <1>5, <2>2 DEF Owed
  <2> QED
    BY <2>1, <2>2
<1> QED
  BY <1>1, <1>2, <1>3, <1>4, <1>5, UnwindStep DEF Keeps

LEMMA StepIInv == IInv /\ [Next]_vars => IInv'
<1> SUFFICES ASSUME IInv, [Next]_vars PROVE IInv'
  OBVIOUS
<1>1. ASSUME NEW s \in Scopes, Child(s) PROVE IInv'
  BY <1>1, ChildStep
<1>2. ASSUME NEW s \in Scopes, Unwinding(s) PROVE IInv'
  BY <1>2, BeginStep, EffectStep, UnwindChildStep, UnwoundStep, EndStep DEF Unwinding
<1>3. ASSUME NEW e \in Effects, Registering(e) PROVE IInv'
  <2>1. CASE RegisterSync(e)
    BY <2>1, JoinStep DEF RegisterSync
  <2>2. CASE RegisterRaises(e)
    BY <2>2, Elsewhere DEF RegisterRaises
  <2>3. CASE RegisterAsync(e)
    BY <2>3, JoinStep DEF RegisterAsync
  <2> QED
    BY <1>3, <2>1, <2>2, <2>3 DEF Registering
<1>4. ASSUME NEW e \in Effects, Setting(e) PROVE IInv'
  <2>1. CASE SetupYields(e)
    BY <2>1, Elsewhere DEF SetupYields
  <2>2. CASE SetupDone(e)
    BY <2>2, Elsewhere DEF SetupDone
  <2>3. CASE SetupRaises(e)
    BY <2>3, LeaveStep DEF SetupRaises
  <2> QED
    BY <1>4, <2>1, <2>2, <2>3 DEF Setting
<1>5. ASSUME NEW e \in Effects, CallHandle(e) PROVE IInv'
  BY <1>5, LeaveStep DEF CallHandle
<1>6. ASSUME NEW e \in Effects, HandleReturns(e) PROVE IInv'
  BY <1>6, Elsewhere DEF HandleReturns
<1>7. ASSUME NEW r \in Runners, Running(r) PROVE IInv'
  BY <1>7, Elsewhere DEF Running, CallBatch, DisposerDone
<1>8. ASSUME NEW c \in Callers, Cancel(c) \/ DisposeReturns(c) PROVE IInv'
  BY <1>8, CallerStep
<1>9. ASSUME NEW c \in Callers, NEW s \in Scopes, Dispose(c, s) PROVE IInv'
  BY <1>9, DisposeStep
<1>10. CASE UNCHANGED vars
  BY <1>10, Elsewhere DEF vars
<1> QED
  BY <1>1, <1>2, <1>3, <1>4, <1>5, <1>6, <1>7, <1>8, <1>9, <1>10 DEF Next

\* The invariant holds for every tree of scopes and every set of effects.
THEOREM Invariant == Spec => []IInv
  BY InitIInv, StepIInv, PTL DEF Spec

\* dispose() never answers while the teardown of its scope is in flight, however
\* many callers there are and whoever is cancelled.
THEOREM NoEarlyReturnHolds == Spec => []NoEarlyReturn
<1>1. IInv => NoEarlyReturn
  BY DEF IInv
<1> QED
  BY <1>1, Invariant, PTL

\* A scope whose unwind is done has no open scope below it: its children are
\* unwound, or never were.
THEOREM DoneReachesDescendantsHolds == Spec => []DoneReachesDescendants
<1>1. IInv => DoneReachesDescendants
  BY DEF IInv, Reachable, Owed, DoneReachesDescendants
<1> QED
  BY <1>1, Invariant, PTL

----------------------------------------------------------------------------
(* Failures travel up the tree *)

JobTypes ==
  job = [r \in Runners |-> job[r]] /\ errors = [r \in Runners |-> errors[r]]

\* Only a walk runs disposers.
Idle == \A s \in Scopes : unwind[s].pc # "walk" => job[s] = NoJob

Clean == \A s \in Scopes : unwind[s].pc = "absent" => errors[s] = {}

\* A scope that its parent has no longer to unwind is done, and the parent has
\* what it raised.
Passed ==
  \A c \in Scopes : ParentOf[c] # None /\ unwind[c].pc # "absent" =>
    Owed(c) \/ (unwind[c].pc = "done" /\ errors[c] \subseteq errors[ParentOf[c]])

Told == \A k \in Callers : caller[k].out = "returned" => errors[caller[k].at] = {}

Reports == JobTypes /\ Idle /\ Clean /\ Passed /\ Told

\* What raised stays known, and only an unwind in flight adds to it.
Gathers ==
  \A x \in Scopes :
    /\ errors[x] \subseteq errors'[x]
    /\ unwind[x].pc \notin {"walk", "child"} => errors'[x] = errors[x]

\* A scope neither goes back to absent nor is unwound again.
Onward ==
  \A x \in Scopes :
    /\ unwind'[x].pc = "absent" => unwind[x].pc = "absent"
    /\ unwind[x].pc = "done" => unwind'[x].pc = "done"

\* No caller returns on this step, or it returns where nothing raised.
Truthful ==
  \A k \in Callers : caller'[k].out = "returned" =>
    \/ caller[k].out = "returned" /\ caller'[k].at = caller[k].at
    \/ errors'[caller'[k].at] = {}

LEMMA Reported ==
  ASSUME IInv, Reports, JobTypes', Idle', Gathers, Onward, Truthful,
         \A x \in Scopes : ParentOf[x] \in Scopes /\ unwind'[x].pc # "absent" =>
           \/ Owed(x)'
           \/ unwind'[x].pc = "done" /\ errors'[x] \subseteq errors'[ParentOf[x]]
           \/ unwind[x].pc # "absent" /\ ~Owed(x)
  PROVE  Reports'
<1>1. Clean'
  BY DEF Reports, Clean, Gathers, Onward
<1>2. Passed'
  <2> SUFFICES ASSUME NEW x \in Scopes, ParentOf[x] # None, unwind'[x].pc # "absent", ~Owed(x)'
               PROVE  unwind'[x].pc = "done" /\ errors'[x] \subseteq errors'[ParentOf[x]]
    BY DEF Passed
  <2>1. ParentOf[x] \in Scopes
    BY ShapeAssumption
  <2>2. CASE unwind[x].pc # "absent" /\ ~Owed(x)
    <3>1. unwind[x].pc = "done" /\ errors[x] \subseteq errors[ParentOf[x]]
      BY <2>2 DEF Reports, Passed
    <3>2. unwind'[x].pc = "done" /\ errors'[x] = errors[x]
      BY <3>1 DEF Gathers, Onward
    <3>3. errors[ParentOf[x]] \subseteq errors'[ParentOf[x]]
      BY <2>1 DEF Gathers
    <3> QED
      BY <3>1, <3>2, <3>3
  <2> QED
    BY <2>1, <2>2
<1>3. Told'
  <2> SUFFICES ASSUME NEW k \in Callers, caller[k].out = "returned",
                      caller'[k].at = caller[k].at
               PROVE  errors'[caller[k].at] = {}
    BY DEF Told, Truthful
  <2>1. caller[k].at \in Scopes /\ unwind[caller[k].at].pc = "done"
    BY DEF IInv, Answers, NoEarlyReturn
  <2> QED
    BY <2>1 DEF Gathers, Reports, Told
<1> QED
  BY <1>1, <1>2, <1>3 DEF Reports

\* The steps after which a scope is owed if it was.
LEMMA Carried ==
  ASSUME IInv, Reports, JobTypes', Idle', Gathers, Onward, Truthful, Keeps,
         \A x \in Scopes : unwind[x].pc = "absent" => unwind'[x].pc = "absent"
  PROVE  Reports'
<1>1. \A x \in Scopes : ParentOf[x] \in Scopes /\ unwind'[x].pc # "absent" =>
        Owed(x)' \/ (unwind[x].pc # "absent" /\ ~Owed(x))
  BY DEF Keeps
<1> QED
  BY <1>1, Reported

\* Those that touch neither an unwind nor what it runs.
LEMMA QuietReport ==
  ASSUME IInv, Reports, Keeps, UNCHANGED <<unwind, errors>>, JobTypes',
         \A s \in Scopes : job'[s] = job[s], Truthful
  PROVE  Reports'
<1>1. Idle' /\ Gathers /\ Onward
  BY DEF Reports, Idle, Gathers, Onward
<1> QED
  BY <1>1, Carried

LEMMA HandleReport ==
  ASSUME IInv, Reports, Keeps, NEW e \in Effects, CallHandle(e)
  PROVE  Reports'
<1> DEFINE taken == [job[e] EXCEPT !.queue = InReverse(disposers[e])]
<1>1. job' = [job EXCEPT ![e] = taken] /\ UNCHANGED <<unwind, errors, caller>>
  BY DEF CallHandle, Take
<1> HIDE DEF taken
<1>2. JobTypes' /\ \A s \in Scopes : job'[s] = job[s]
  BY <1>1, ShapeAssumption DEF Reports, JobTypes, Runners
<1>3. Truthful
  BY <1>1 DEF Truthful
<1> QED
  BY <1>1, <1>2, <1>3, QuietReport

\* A disposer runs, or ends, for a runner with a job: the runner is an effect or
\* a walk.
LEMMA RunReport ==
  ASSUME IInv, Reports, Keeps, NEW r \in Runners, Running(r)
  PROVE  Reports'
<1>1. /\ job[r] # NoJob
      /\ \E now : job' = [job EXCEPT ![r] = now]
      /\ \E raised : errors' = [errors EXCEPT ![r] = @ \cup raised]
      /\ UNCHANGED <<unwind, caller>>
  <2>1. CASE \E d \in Disposers : DisposerDone(r, d)
    <3>1. PICK d \in Disposers : DisposerDone(r, d)
      BY <2>1
    <3> DEFINE now == [job[r] EXCEPT !.inflight = @ \ {d}]
    <3>2. job' = [job EXCEPT ![r] = now] /\ d \in job[r].inflight /\ UNCHANGED <<unwind, caller>>
      BY <3>1 DEF DisposerDone
    <3>3. \E raised : errors' = [errors EXCEPT ![r] = @ \cup raised]
      BY <3>1 DEF DisposerDone
    <3> HIDE DEF now
    <3>4. job[r] # NoJob
      BY <3>2 DEF NoJob
    <3> QED
      BY <3>2, <3>3, <3>4
  <2>2. CASE CallBatch(r)
    <3> DEFINE queue == job[r].queue
               n     == BatchLength(queue)
               rest  == SubSeq(queue, n + 1, Len(queue))
               one   == [job[r] EXCEPT !.queue = rest]
               all   == [queue |-> rest, inflight |-> ToSet(SubSeq(queue, 1, n))]
    <3>1. job[r].queue # <<>> /\ UNCHANGED <<unwind, caller>>
      BY <2>2 DEF CallBatch
    <3>2. job' = [job EXCEPT ![r] = one] \/ job' = [job EXCEPT ![r] = all]
      BY <2>2 DEF CallBatch
    <3>3. (\E raised : errors' = [errors EXCEPT ![r] = @ \cup raised]) \/ errors' = errors
      BY <2>2 DEF CallBatch
    <3> HIDE DEF one, all
    <3>4. job[r] # NoJob
      BY <3>1 DEF NoJob
    <3>5. errors' = errors => errors' = [errors EXCEPT ![r] = @ \cup {}]
      BY DEF Reports, JobTypes
    <3> QED
      BY <3>1, <3>2, <3>3, <3>4, <3>5
  <2> QED
    BY <2>1, <2>2 DEF Running
<1>2. PICK now : job' = [job EXCEPT ![r] = now]
  BY <1>1
<1>3. PICK raised : errors' = [errors EXCEPT ![r] = @ \cup raised]
  BY <1>1
<1>4. JobTypes' /\ (\A s \in Scopes \ {r} : job'[s] = job[s] /\ errors'[s] = errors[s])
      /\ (r \in Scopes => errors[r] \subseteq errors'[r])
  BY <1>2, <1>3 DEF Reports, JobTypes, Runners
<1>5. r \in Scopes => unwind[r].pc = "walk"
  BY <1>1 DEF Reports, Idle
<1>6. Idle' /\ Gathers
  BY <1>1, <1>4, <1>5 DEF Reports, Idle, Gathers
<1>7. Onward /\ Truthful
  BY <1>1 DEF Onward, Truthful
<1> QED
  BY <1>1, <1>4, <1>6, <1>7, Carried

\* A caller of dispose() comes, is cancelled or is answered.
LEMMA CallerReport ==
  ASSUME IInv, Reports, Keeps, NEW k \in Callers,
         Cancel(k) \/ DisposeReturns(k) \/ \E s \in Scopes : Dispose(k, s)
  PROVE  Reports'
<1>1. UNCHANGED <<job, errors>>
  BY DEF Cancel, DisposeReturns, Dispose
<1>2. caller \in CallerType /\ unwind \in UnwindType
  BY DEF IInv, TreeTypes
<1>3. \A x \in Scopes :
        unwind'[x].pc = unwind[x].pc \/ (unwind[x].pc = "open" /\ unwind'[x].pc = "spawned")
  <2>1. CASE Cancel(k) \/ DisposeReturns(k)
    BY <2>1 DEF Cancel, DisposeReturns
  <2>2. CASE \E s \in Scopes : Dispose(k, s)
    BY <1>2, <2>2, Closed DEF Dispose
  <2> QED
    BY <2>1, <2>2
<1>4. /\ \A c \in Callers \ {k} : caller'[c] = caller[c]
      /\ caller'[k].out = "returned" => errors[caller'[k].at] = {}
  <2>1. CASE Cancel(k)
    BY <1>2, <2>1 DEF Cancel, CallerType
  <2>2. CASE DisposeReturns(k)
    <3>1. caller'[k].out = "returned" => errors[caller[k].at] = {}
      BY <1>2, <2>2 DEF DisposeReturns, CallerType
    <3> QED
      BY <1>2, <2>2, <3>1, Answered
  <2>3. CASE \E s \in Scopes : Dispose(k, s)
    BY <1>2, <2>3, Waits
  <2> QED
    BY <2>1, <2>2, <2>3
<1>5. JobTypes' /\ Idle' /\ Gathers
  BY <1>1, <1>3 DEF Reports, JobTypes, Idle, Gathers
<1>6. Onward /\ \A x \in Scopes : unwind[x].pc = "absent" => unwind'[x].pc = "absent"
  BY <1>3 DEF Onward
<1>7. Truthful
  BY <1>1, <1>4 DEF Truthful
<1> QED
  BY <1>5, <1>6, <1>7, Carried

\* A new scope is owed to its parent, and nothing has raised in it.
LEMMA ChildReport ==
  ASSUME IInv, Reports, NEW s \in Scopes, Child(s), Keeps, Owed(s)'
  PROVE  Reports'
<1>1. UNCHANGED <<job, errors, caller>>
  BY DEF Child
<1>2. /\ unwind[s].pc = "absent" /\ unwind'[s].pc = "open"
      /\ \A x \in Scopes \ {s} : unwind'[x] = unwind[x]
  BY DEF Child, IInv, TreeTypes, UnwindType
<1>3. JobTypes' /\ Idle' /\ Gathers /\ Onward /\ Truthful
  BY <1>1, <1>2 DEF Reports, JobTypes, Idle, Gathers, Onward, Truthful
<1>4. \A x \in Scopes : ParentOf[x] \in Scopes /\ unwind'[x].pc # "absent" =>
        Owed(x)' \/ (unwind[x].pc # "absent" /\ ~Owed(x))
  BY <1>2 DEF Keeps
<1> QED
  BY <1>3, <1>4, Reported

\* The unwind of s begins, calls a child, or ends: nothing raises.
LEMMA SilentReport ==
  ASSUME IInv, Reports, NEW s \in Scopes, Keeps,
         BeginUnwind(s) \/ UnwindChild(s) \/ EndUnwind(s)
  PROVE  Reports'
<1>1. UNCHANGED <<job, errors, caller>> /\ (unwind'[s].pc # "walk" => job[s] = NoJob)
  <2>1. CASE BeginUnwind(s)
    BY <2>1 DEF BeginUnwind, IInv, TreeTypes, UnwindType
  <2>2. CASE UnwindChild(s) \/ EndUnwind(s)
    BY <2>2 DEF UnwindChild, EndUnwind, AtEntry
  <2> QED
    BY <2>1, <2>2
<1>2. unwind[s].pc \in {"spawned", "walk"} /\ unwind'[s].pc \in {"walk", "child", "done"}
  <2>1. CASE BeginUnwind(s)
    BY <2>1 DEF BeginUnwind, IInv, TreeTypes, UnwindType
  <2>2. CASE EndUnwind(s)
    BY <2>2 DEF EndUnwind, AtEntry, IInv, TreeTypes, UnwindType
  <2>3. CASE UnwindChild(s)
    <3> DEFINE c == Head(unwind[s].todo)
    <3>1. unwind[s].pc = "walk" /\ c \in Scopes /\ unwind' = CalledChildOf(unwind, s, c)
      BY <2>3 DEF UnwindChild, AtEntry, CalledChildOf
    <3> HIDE DEF c
    <3>2. unwind'[s].pc = unwind[s].pc \/ unwind[s].pc = "open" \/ unwind'[s].pc = "child"
      BY <3>1, CalledChild DEF IInv, TreeTypes
    <3> QED
      BY <3>1, <3>2
  <2> QED
    BY <2>1, <2>2, <2>3
<1>3. \A x \in Scopes \ {s} :
        unwind'[x].pc = unwind[x].pc \/ (unwind[x].pc = "open" /\ unwind'[x].pc = "spawned")
  <2>1. CASE BeginUnwind(s) \/ EndUnwind(s)
    BY <2>1 DEF BeginUnwind, EndUnwind, IInv, TreeTypes, UnwindType
  <2>2. CASE UnwindChild(s)
    <3> DEFINE c == Head(unwind[s].todo)
    <3>1. c \in Scopes /\ unwind' = CalledChildOf(unwind, s, c)
      BY <2>2 DEF UnwindChild, AtEntry, CalledChildOf
    <3> HIDE DEF c
    <3> QED
      BY <3>1, CalledChild DEF IInv, TreeTypes
  <2> QED
    BY <2>1, <2>2
<1>4. Idle'
  BY <1>1, <1>3 DEF Reports, Idle
<1>5. JobTypes' /\ Gathers /\ Onward /\ Truthful
  BY <1>1, <1>2, <1>3 DEF Reports, JobTypes, Gathers, Onward, Truthful
<1>6. \A x \in Scopes : unwind[x].pc = "absent" => unwind'[x].pc = "absent"
  BY <1>2, <1>3
<1> QED
  BY <1>4, <1>5, <1>6, Carried

\* The walk takes the disposers of an effect.
LEMMA EffectReport ==
  ASSUME IInv, Reports, NEW s \in Scopes, Keeps, UnwindEffect(s)
  PROVE  Reports'
<1> DEFINE e     == Head(unwind[s].todo)
           taken == [job[s] EXCEPT !.queue = InReverse(disposers[e])]
<1>1. UNCHANGED <<errors, caller>> /\ unwind[s].pc = "walk"
  BY DEF UnwindEffect, AtEntry
<1>2. job' = job \/ job' = [job EXCEPT ![s] = taken]
  BY DEF UnwindEffect, Take
<1>3. \A x \in Scopes : unwind'[x].pc = unwind[x].pc
  BY DEF UnwindEffect, IInv, TreeTypes, UnwindType
<1> HIDE DEF taken
<1>4. JobTypes' /\ \A x \in Scopes \ {s} : job'[x] = job[x]
  BY <1>1, <1>2 DEF Reports, JobTypes, Runners
<1>5. Idle' /\ Gathers /\ Onward /\ Truthful
  BY <1>1, <1>3, <1>4 DEF Reports, Idle, Gathers, Onward, Truthful
<1> QED
  BY <1>3, <1>4, <1>5, Carried

\* The walk goes on with what the child raised.
LEMMA UnwoundReport ==
  ASSUME IInv, Reports, NEW s \in Scopes, ChildUnwound(s),
         \A x \in Scopes : ParentOf[x] \in Scopes /\ Owed(x) =>
           Owed(x)' \/ (ParentOf[x] = s /\ x = Head(unwind[s].todo))
  PROVE  Reports'
<1> DEFINE c == Head(unwind[s].todo)
<1>1. /\ unwind[s].pc = "child" /\ unwind[c].pc = "done"
      /\ errors' = [errors EXCEPT ![s] = @ \cup errors[c]]
      /\ UNCHANGED <<job, caller>>
  BY DEF ChildUnwound
<1>2. unwind'[s].pc = "walk" /\ \A x \in Scopes \ {s} : unwind'[x] = unwind[x]
  BY DEF ChildUnwound, IInv, TreeTypes, UnwindType
<1> HIDE DEF c
<1>3. /\ errors'[s] = errors[s] \cup errors[c]
      /\ \A x \in Scopes \ {s} : errors'[x] = errors[x]
  BY <1>1 DEF Reports, JobTypes, Runners
<1>4. JobTypes' /\ Idle' /\ Gathers /\ Onward /\ Truthful
  BY <1>1, <1>2, <1>3 DEF Reports, JobTypes, Idle, Gathers, Onward, Truthful
<1>5. ASSUME NEW x \in Scopes, ParentOf[x] \in Scopes, Owed(x), ~Owed(x)'
      PROVE  unwind'[x].pc = "done" /\ errors'[x] \subseteq errors'[ParentOf[x]]
  <2>1. ParentOf[x] = s /\ x = c
    BY <1>5 DEF c
  <2>2. c # s
    BY <1>1
  <2> QED
    BY <1>1, <1>2, <1>3, <2>1, <2>2
<1>6. \A x \in Scopes : unwind'[x].pc # "absent" => unwind[x].pc # "absent"
  BY <1>1, <1>2
<1> QED
  BY <1>4, <1>5, <1>6, Reported

LEMMA StepReports == IInv /\ Reports /\ [Next]_vars => Reports'
<1> SUFFICES ASSUME IInv, Reports, [Next]_vars PROVE Reports'
  OBVIOUS
<1>1. ASSUME NEW s \in Scopes, Child(s) PROVE Reports'
  BY <1>1, ChildStep, ChildReport
<1>2. ASSUME NEW s \in Scopes, Unwinding(s) PROVE Reports'
  BY <1>2, BeginStep, EffectStep, UnwindChildStep, UnwoundStep, EndStep,
     SilentReport, EffectReport, UnwoundReport DEF Unwinding
<1>3. ASSUME UNCHANGED <<unwind, job, errors, caller>>, Keeps PROVE Reports'
  BY <1>3, QuietReport DEF Reports, JobTypes, Truthful
<1>4. ASSUME NEW e \in Effects, Registering(e) PROVE Reports'
  <2>1. CASE RegisterSync(e)
    BY <1>3, <2>1, JoinStep DEF RegisterSync
  <2>2. CASE RegisterRaises(e)
    BY <1>3, <2>2, Elsewhere DEF RegisterRaises
  <2>3. CASE RegisterAsync(e)
    BY <1>3, <2>3, JoinStep DEF RegisterAsync
  <2> QED
    BY <1>4, <2>1, <2>2, <2>3 DEF Registering
<1>5. ASSUME NEW e \in Effects, Setting(e) PROVE Reports'
  <2>1. CASE SetupYields(e)
    BY <1>3, <2>1, Elsewhere DEF SetupYields
  <2>2. CASE SetupDone(e)
    BY <1>3, <2>2, Elsewhere DEF SetupDone
  <2>3. CASE SetupRaises(e)
    BY <1>3, <2>3, LeaveStep DEF SetupRaises
  <2> QED
    BY <1>5, <2>1, <2>2, <2>3 DEF Setting
<1>6. ASSUME NEW e \in Effects, CallHandle(e) PROVE Reports'
  BY <1>6, LeaveStep, HandleReport DEF CallHandle
<1>7. ASSUME NEW e \in Effects, HandleReturns(e) PROVE Reports'
  BY <1>3, <1>7, Elsewhere DEF HandleReturns
<1>8. ASSUME NEW r \in Runners, Running(r) PROVE Reports'
  <2>1. UNCHANGED <<entries, unwind, caller>>
    BY <1>8 DEF Running, CallBatch, DisposerDone
  <2> QED
    BY <1>8, <2>1, Elsewhere, RunReport
<1>9. ASSUME NEW k \in Callers, Cancel(k) \/ DisposeReturns(k) PROVE Reports'
  BY <1>9, CallerStep, CallerReport
<1>10. ASSUME NEW k \in Callers, NEW s \in Scopes, Dispose(k, s) PROVE Reports'
  BY <1>10, DisposeStep, CallerReport
<1>11. CASE UNCHANGED vars
  BY <1>3, <1>11, Elsewhere DEF vars
<1> QED
  BY <1>1, <1>2, <1>4, <1>5, <1>6, <1>7, <1>8, <1>9, <1>10, <1>11 DEF Next

LEMMA AlwaysReports == Spec => []Reports
<1>1. Init => Reports
  <2> SUFFICES ASSUME Init PROVE Reports
    OBVIOUS
  <2>1. JobTypes /\ Idle /\ Clean /\ Told
    BY DEF Init, JobTypes, Idle, Clean, Told, Runners
  <2>2. Passed
    BY DEF Init, Passed
  <2> QED
    BY <2>1, <2>2 DEF Reports
<1> QED
  BY <1>1, StepReports, Invariant, PTL DEF Spec

\* _unwind collects what its children raised: whatever raises, an unwind that is
\* done knows all that raised in the scopes right below it, and so, from scope to
\* scope, all that raised below it.
THEOREM FailuresTravelUp ==
  Spec => [](\A c \in Scopes :
               ParentOf[c] # None /\ unwind[ParentOf[c]].pc = "done" =>
                 errors[c] \subseteq errors[ParentOf[c]])
<1>1. ASSUME IInv, Reports, NEW c \in Scopes,
             ParentOf[c] # None, unwind[ParentOf[c]].pc = "done"
      PROVE  errors[c] \subseteq errors[ParentOf[c]]
  <2>1. ~Owed(c)
    BY <1>1 DEF Owed
  <2> QED
    BY <1>1, <2>1 DEF Reports, Clean, Passed
<1>2. IInv /\ Reports =>
        \A c \in Scopes : ParentOf[c] # None /\ unwind[ParentOf[c]].pc = "done" =>
                         errors[c] \subseteq errors[ParentOf[c]]
  BY <1>1
<1> QED
  BY <1>2, AlwaysReports, Invariant, PTL

\* A dispose() that returns without raising: no disposer of its scope or of a
\* scope below raised.
THEOREM NoSilentFailureHolds == Spec => []NoSilentFailure
<1>1. ASSUME IInv, Reports, NEW k \in Callers, caller[k].out = "returned"
      PROVE  /\ errors[caller[k].at] = {}
             /\ \A s \in Scopes : ParentOf[s] = caller[k].at => errors[s] = {}
  <2>1. caller[k].at \in Scopes /\ unwind[caller[k].at].pc = "done"
    BY <1>1 DEF IInv, Answers, NoEarlyReturn
  <2>2. errors[caller[k].at] = {}
    BY <1>1 DEF Reports, Told
  <2>3. ASSUME NEW s \in Scopes, ParentOf[s] = caller[k].at PROVE errors[s] = {}
    <3>1. ~Owed(s) /\ ParentOf[s] # None
      BY <2>1, <2>3, ShapeAssumption DEF Owed
    <3> QED
      BY <1>1, <2>2, <2>3, <3>1 DEF Reports, Clean, Passed
  <2> QED
    BY <2>2, <2>3
<1>2. IInv /\ Reports => NoSilentFailure
  BY <1>1 DEF NoSilentFailure
<1> QED
  BY <1>2, AlwaysReports, Invariant, PTL

----------------------------------------------------------------------------
(* Where a disposer is *)

\* Two effects hand over the same disposer only within one scope, and nobody
\* calls the handle of either.
SharedPlainly ==
  \A e, f \in Effects :
    e # f /\ ToSet(Yields[e]) \cap ToSet(Yields[f]) \cap Disposers # {} =>
      Owner[e] = Owner[f] /\ e \notin Handled /\ f \notin Handled

Rec(e) == ToSet(disposers[e])

\* What the setup of e has handed over.
HandedOver(e) == {Yields[e][k] : k \in 1..yielded[e]}

Once(seq) == \A i, j \in DOMAIN seq : i # j => seq[i] # seq[j]

JobType == [Runners -> [queue : Seq(Disposers), inflight : SUBSET Disposers]]

\* The types of what registrations and runners keep.
WorkTypes ==
  /\ loop \in Runners \cup {None}
  /\ ids \in [Scopes -> SUBSET Disposers]
  /\ setup \in [Effects -> {"none", "running", "done", "failed"}]
  /\ yielded \in [Effects -> Nat]
  /\ disposers \in [Effects -> Seq(Disposers)]
  /\ disposed \in [Effects -> BOOLEAN]
  /\ job \in JobType
  /\ errors \in [Runners -> SUBSET Disposers]
  /\ held \in SUBSET Disposers
  /\ order \in Seq(Effects \cup Scopes)
  /\ \A e \in Effects : yielded[e] <= Len(Yields[e])

\* What a scope lists, or the walk that has taken its list.
Listing(s) == ToSet(entries[s]) \cup ToSet(unwind[s].todo)

\* An effect that was not registered has nothing, one whose setup failed nothing
\* left, and a scope lists only what was registered in it.
Staged ==
  \A e \in Effects :
    /\ setup[e] = "none" => yielded[e] = 0 /\ ~disposed[e]
    /\ setup[e] \in {"none", "failed"} => disposers[e] = <<>>
    /\ \A s \in Scopes : e \in Listing(s) => Owner[e] = s /\ setup[e] # "none"

\* An effect that is not disposed is among what its scope has to unwind.
ToUnwind(e) ==
  \/ unwind[Owner[e]].pc \in {"open", "spawned"} /\ e \in ToSet(entries[Owner[e]])
  \/ unwind[Owner[e]].pc \in {"walk", "child"} /\ e \in ToSet(unwind[Owner[e]].todo)

\* A walk that waits for a child scope has that scope in front of it.
Enlisted ==
  /\ \A e \in Effects : setup[e] \in {"running", "done"} /\ ~disposed[e] => ToUnwind(e)
  /\ \A s \in Scopes : unwind[s].pc = "child" => Head(unwind[s].todo) \in Scopes

\* Records, handle calls and walks hold what the effect in question handed over.
Sourced ==
  /\ \A e \in Effects :
       /\ Rec(e) \subseteq HandedOver(e)
       /\ InJob(e) \subseteq HandedOver(e)
       /\ InJob(e) # {} => e \in Handled /\ disposed[e]
  /\ \A s \in Scopes : \A d \in InJob(s) :
       \E e \in Effects : Owner[e] = s /\ disposed[e] /\ d \in HandedOver(e)

\* _disposer_ids has what is recorded, and what a walk works on.
Listed ==
  \A s \in Scopes : unwind[s].pc # "done" =>
    /\ InJob(s) \subseteq ids[s]
    /\ \A e \in Effects : Owner[e] = s => Rec(e) \subseteq ids[s]

\* No two of them hold the same.
Alone ==
  \A e \in Effects :
    /\ Rec(e) \cap InJob(Owner[e]) = {}
    /\ Rec(e) \cap InJob(e) = {}
    /\ InJob(e) \cap InJob(Owner[e]) = {}
    /\ \A f \in Effects :
         e # f /\ Owner[e] = Owner[f] /\ unwind[Owner[e]].pc # "done" => Rec(e) \cap Rec(f) = {}

Single ==
  /\ \A e \in Effects : Once(disposers[e])
  /\ \A r \in Runners : Once(job[r].queue) /\ ToSet(job[r].queue) \cap job[r].inflight = {}

\* What they hold has not been given back, a disposed record aside, and what has
\* not been given back is held by one of them, or by what a rollback did not await.
Kept ==
  /\ \A e \in Effects : ~disposed[e] => Rec(e) \subseteq held
  /\ \A r \in Runners : InJob(r) \subseteq held

Tracked ==
  \A d \in held :
    \/ \E e \in Effects : d \in Rec(e)
    \/ \E r \in Runners : d \in InJob(r)
    \/ Kind[d] # "plain" /\ \E e \in Effects : setup[e] = "failed" /\ d \in ToSet(Yields[e])

Items == Sourced /\ Listed /\ Alone /\ Single /\ Kept /\ Tracked

Whereabouts == WorkTypes /\ Staged /\ Enlisted /\ Items

----------------------------------------------------------------------------
(* The items a setup hands over, in order *)

LEMMA InOrderFacts ==
  ASSUME NEW K \in SUBSET Nat, IsFiniteSet(K)
  PROVE  /\ Cardinality(K) \in Nat
         /\ InOrder(K) \in [1..Cardinality(K) -> K]
         /\ \A m, n \in 1..Cardinality(K) : m < n => InOrder(K)[m] < InOrder(K)[n]
         /\ \A k \in K : \E n \in 1..Cardinality(K) : InOrder(K)[n] = k
<1> DEFINE N        == Cardinality(K)
           upTo(k)  == {m \in K : m <= k}
           rank     == [k \in K |-> Cardinality(upTo(k))]
           Sorted(f) == \A m, n \in 1..N : m < n => f[m] < f[n]
<1>1. N \in Nat /\ IsFiniteSet(1..N) /\ Cardinality(1..N) = N
  <2>1. N \in Nat
    BY FS_CardinalityType
  <2> QED
    BY <2>1, FS_Interval
<1>2. \A k \in K : IsFiniteSet(upTo(k)) /\ Cardinality(upTo(k)) \in Nat /\ Cardinality(upTo(k)) <= N
  BY FS_Subset, FS_CardinalityType
<1>3. ASSUME NEW k \in K PROVE rank[k] \in 1..N
  <2>1. upTo(k) # {}
    BY <1>3
  <2>2. Cardinality(upTo(k)) # 0
    BY <1>2, <2>1, FS_EmptySet
  <2> QED
    BY <1>1, <1>2, <2>2
<1>4. ASSUME NEW k \in K, NEW l \in K, k < l PROVE rank[k] < rank[l]
  <2>1. upTo(k) \in SUBSET upTo(l) /\ l \in upTo(l) /\ l \notin upTo(k)
    <3>1. k \in Nat /\ l \in Nat /\ \A m \in K : m \in Nat
      OBVIOUS
    <3>2. \A m \in Nat : m <= k => m <= l
      BY <1>4, <3>1
    <3>3. ~(l <= k) /\ l <= l
      BY <1>4, <3>1
    <3> QED
      BY <3>1, <3>2, <3>3
  <2>2. Cardinality(upTo(k)) <= Cardinality(upTo(l)) /\ Cardinality(upTo(k)) # Cardinality(upTo(l))
    BY <1>2, <2>1, FS_Subset
  <2> QED
    BY <1>2, <2>2
<1> HIDE DEF N, rank, upTo
<1>5. rank \in Surjection(K, 1..N)
  <2>1. rank \in [K -> 1..N]
    BY <1>3 DEF rank
  <2>2. \A k, l \in K : rank[k] = rank[l] => k = l
    BY <1>1, <1>3, <1>4
  <2>3. rank \in Injection(K, 1..N)
    BY <2>1, <2>2 DEF Injection, IsInjective
  <2> QED
    BY <1>1, <2>3, FS_Injection DEF N
<1> DEFINE g == [n \in 1..N |-> CHOOSE k \in K : rank[k] = n]
<1>6. \A n \in 1..N : g[n] \in K /\ rank[g[n]] = n
  BY <1>5 DEF Surjection
<1>7. g \in [1..N -> K] /\ Sorted(g)
  <2>1. g \in [1..N -> K]
    BY <1>6
  <2> HIDE DEF g
  <2>2. ASSUME NEW m \in 1..N, NEW n \in 1..N, m < n PROVE g[m] < g[n]
    <3>1. g[m] \in Nat /\ g[n] \in Nat
      BY <1>6
    <3>2. g[m] # g[n]
      BY <1>6, <2>2
    <3>3. g[n] < g[m] => n < m
      BY <1>4, <1>6
    <3> QED
      BY <1>1, <2>2, <3>1, <3>2, <3>3
  <2> QED
    BY <2>1, <2>2
<1> HIDE DEF g
<1>8. InOrder(K) \in [1..N -> K] /\ Sorted(InOrder(K))
  <2>1. InOrder(K) = CHOOSE f \in [1..N -> K] : Sorted(f)
    BY DEF InOrder, N
  <2> HIDE DEF Sorted
  <2> QED
    BY <1>7, <2>1
<1>9. InOrder(K) \in Injection(1..N, K)
  <2>1. ASSUME NEW m \in 1..N, NEW n \in 1..N, InOrder(K)[m] = InOrder(K)[n] PROVE m = n
    <3>1. InOrder(K)[m] \in Nat /\ InOrder(K)[n] \in Nat
      BY <1>8
    <3> QED
      BY <1>1, <1>8, <2>1, <3>1
  <2> QED
    BY <1>8, <2>1 DEF Injection, IsInjective
<1>10. InOrder(K) \in Surjection(1..N, K)
  BY <1>1, <1>9, FS_Injection DEF N
<1> QED
  BY <1>1, <1>8, <1>10 DEF N, Surjection

\* _record_disposer keeps every item that is there and not recorded yet, once.
LEMMA RecordedFacts ==
  ASSUME NEW e \in Effects, NEW i \in Nat \ {0}, NEW j \in 0..Len(Yields[e])
  PROVE  /\ Recorded(e, i, j) \in Seq(Disposers)
         /\ ToSet(Recorded(e, i, j)) = {Yields[e][k] : k \in i..j} \ ({None} \cup ids[Owner[e]])
         /\ Once(Recorded(e, i, j))
<1> DEFINE K    == {k \in i..j : Yields[e][k] \notin {None} \cup ids[Owner[e]]}
           kept == InOrder(K)
           N    == Cardinality(K)
           new  == Recorded(e, i, j)
<1>1. Yields[e] \in Seq(Disposers \cup {None}) /\ Len(Yields[e]) \in Nat
  BY ShapeAssumption
<1>2. K \in SUBSET Nat /\ K \in SUBSET (1..Len(Yields[e])) /\ IsFiniteSet(K)
  <2>1. K \in SUBSET (i..j) /\ IsFiniteSet(i..j)
    <3>1. i \in Int /\ j \in Int
      BY <1>1
    <3> QED
      BY <3>1, FS_Interval
  <2>2. K \in SUBSET Nat /\ K \in SUBSET (1..Len(Yields[e]))
    BY <1>1
  <2> QED
    BY <2>1, <2>2, FS_Subset
<1>3. \A k \in K : Yields[e][k] \in Disposers /\ Yields[e][k] \notin {None} \cup ids[Owner[e]]
  <2>1. \A k \in 1..Len(Yields[e]) : Yields[e][k] \in Disposers \cup {None}
    BY <1>1
  <2> QED
    BY <1>2, <2>1
<1>4. new = [n \in DOMAIN kept |-> Yields[e][kept[n]]]
  BY DEF Recorded
<1>5. {Yields[e][k] : k \in i..j} \ ({None} \cup ids[Owner[e]]) = {Yields[e][k] : k \in K}
  OBVIOUS
<1> HIDE DEF K, kept, N, new
<1>6. /\ N \in Nat /\ kept \in [1..N -> K]
      /\ \A m, n \in 1..N : m < n => kept[m] < kept[n]
      /\ \A k \in K : \E n \in 1..N : kept[n] = k
  BY <1>2, InOrderFacts DEF kept, N
<1>7. DOMAIN new = 1..N /\ \A n \in 1..N : kept[n] \in K /\ new[n] = Yields[e][kept[n]]
  BY <1>4, <1>6
<1>8. new \in Seq(Disposers)
  <2>1. new = [n \in 1..N |-> Yields[e][kept[n]]]
    BY <1>4, <1>6
  <2> QED
    BY <1>3, <1>6, <1>7, <2>1
<1>9. ToSet(new) = {Yields[e][k] : k \in K}
  <2>1. ASSUME NEW k \in K PROVE Yields[e][k] \in ToSet(new)
    <3>1. PICK n \in 1..N : kept[n] = k
      BY <1>6
    <3> QED
      BY <1>7, <3>1 DEF ToSet
  <2>2. ASSUME NEW d \in ToSet(new) PROVE d \in {Yields[e][k] : k \in K}
    BY <1>7 DEF ToSet
  <2> QED
    BY <2>1, <2>2
<1>10. Once(new)
  <2>1. ASSUME NEW m \in 1..N, NEW n \in 1..N, m < n PROVE new[m] # new[n]
    <3>1. kept[m] \in K /\ kept[n] \in K /\ kept[m] < kept[n]
      BY <1>6, <1>7, <2>1
    <3>2. /\ kept[m] \in 1..Len(Yields[e]) /\ kept[n] \in 1..Len(Yields[e])
          /\ kept[m] # kept[n]
      <4>1. \A a, b \in K : a < b => a # b
        BY <1>2
      <4> QED
        BY <1>2, <3>1, <4>1
    <3> QED
      BY <1>7, <3>2, ShapeAssumption
  <2> QED
    BY <1>6, <1>7, <2>1 DEF Once
<1> QED
  BY <1>5, <1>8, <1>9, <1>10 DEF new

----------------------------------------------------------------------------
(* Queues of disposers *)

LEMMA ReverseOnce ==
  ASSUME NEW S, NEW seq \in Seq(S), Once(seq)
  PROVE  Once(Reverse(seq))
<1>1. DOMAIN Reverse(seq) = 1..Len(seq) /\ DOMAIN seq = 1..Len(seq)
  BY DEF Reverse
<1>2. \A i \in 1..Len(seq) : (Len(seq) - i) + 1 \in 1..Len(seq)
  OBVIOUS
<1>3. \A i \in 1..Len(seq) : Reverse(seq)[i] = seq[(Len(seq) - i) + 1]
  BY DEF Reverse
<1>4. \A i, j \in 1..Len(seq) : i # j => (Len(seq) - i) + 1 # (Len(seq) - j) + 1
  OBVIOUS
<1> QED
  BY <1>1, <1>2, <1>3, <1>4 DEF Once

LEMMA ConcatSet ==
  ASSUME NEW S, NEW s \in Seq(S), NEW t \in Seq(S)
  PROVE  /\ s \o t \in Seq(S)
         /\ ToSet(s \o t) = ToSet(s) \cup ToSet(t)
         /\ Once(s) /\ Once(t) /\ ToSet(s) \cap ToSet(t) = {} => Once(s \o t)
<1>1. /\ s \o t \in Seq(S) /\ DOMAIN (s \o t) = 1..(Len(s) + Len(t))
      /\ DOMAIN s = 1..Len(s) /\ DOMAIN t = 1..Len(t) /\ Len(s) \in Nat /\ Len(t) \in Nat
      /\ \A i \in 1..Len(s) : (s \o t)[i] = s[i]
      /\ \A i \in 1..Len(t) : (s \o t)[Len(s) + i] = t[i]
  OBVIOUS
<1> DEFINE u == s \o t
<1> HIDE DEF u
<1>2. \A i \in 1..(Len(s) + Len(t)) :
        \/ i \in 1..Len(s) /\ u[i] = s[i]
        \/ i - Len(s) \in 1..Len(t) /\ u[i] = t[i - Len(s)]
  <2> SUFFICES ASSUME NEW i \in 1..(Len(s) + Len(t)), i \notin 1..Len(s)
               PROVE  i - Len(s) \in 1..Len(t) /\ u[i] = t[i - Len(s)]
    BY <1>1 DEF u
  <2>1. i - Len(s) \in 1..Len(t) /\ Len(s) + (i - Len(s)) = i
    BY <1>1
  <2> QED
    BY <1>1, <2>1 DEF u
<1>3. ToSet(u) = ToSet(s) \cup ToSet(t)
  <2>1. \A i \in 1..Len(s) : i \in 1..(Len(s) + Len(t))
    BY <1>1
  <2>2. \A i \in 1..Len(t) : Len(s) + i \in 1..(Len(s) + Len(t))
    BY <1>1
  <2>3. ToSet(s) \cup ToSet(t) \subseteq ToSet(u)
    BY <1>1, <2>1, <2>2 DEF ToSet, u
  <2>4. ToSet(u) \subseteq ToSet(s) \cup ToSet(t)
    BY <1>1, <1>2 DEF ToSet, u
  <2> QED
    BY <2>3, <2>4
<1>4. ASSUME Once(s), Once(t), ToSet(s) \cap ToSet(t) = {},
             NEW i \in 1..(Len(s) + Len(t)), NEW j \in 1..(Len(s) + Len(t)), i # j
      PROVE  u[i] # u[j]
  <2>1. \A k \in 1..Len(s), l \in 1..Len(t) : s[k] # t[l]
    BY <1>1, <1>4 DEF ToSet
  <2>2. i - Len(s) # j - Len(s)
    BY <1>1, <1>4
  <2>3. CASE i \in 1..Len(s) /\ u[i] = s[i]
    <3>1. CASE j \in 1..Len(s) /\ u[j] = s[j]
      BY <1>1, <1>4, <2>3, <3>1 DEF Once
    <3>2. CASE j - Len(s) \in 1..Len(t) /\ u[j] = t[j - Len(s)]
      BY <2>1, <2>3, <3>2
    <3> QED
      BY <1>2, <3>1, <3>2
  <2>4. CASE i - Len(s) \in 1..Len(t) /\ u[i] = t[i - Len(s)]
    <3>1. CASE j \in 1..Len(s) /\ u[j] = s[j]
      BY <2>1, <2>4, <3>1
    <3>2. CASE j - Len(s) \in 1..Len(t) /\ u[j] = t[j - Len(s)]
      BY <1>1, <1>4, <2>2, <2>4, <3>2 DEF Once
    <3> QED
      BY <1>2, <3>1, <3>2
  <2> QED
    BY <1>2, <2>3, <2>4
<1> QED
  BY <1>1, <1>3, <1>4 DEF Once, u

\* A queue and what is taken from its front.
LEMMA Split ==
  ASSUME NEW S, NEW seq \in Seq(S), NEW n \in 0..Len(seq)
  PROVE  LET front == SubSeq(seq, 1, n)
             rest  == SubSeq(seq, n + 1, Len(seq))
         IN  /\ front \in Seq(S) /\ rest \in Seq(S)
             /\ Len(rest) = Len(seq) - n
             /\ \A i \in 1..(Len(seq) - n) : rest[i] = seq[n + i]
             /\ ToSet(front) = {seq[i] : i \in 1..n}
             /\ ToSet(seq) = ToSet(front) \cup ToSet(rest)
             /\ Once(seq) => Once(rest) /\ ToSet(front) \cap ToSet(rest) = {}
<1> DEFINE front == SubSeq(seq, 1, n)
           rest  == SubSeq(seq, n + 1, Len(seq))
<1>1. /\ front \in Seq(S) /\ DOMAIN front = 1..n
      /\ \A i \in 1..n : front[i] = seq[i]
  OBVIOUS
<1>2. /\ rest \in Seq(S) /\ Len(rest) = Len(seq) - n /\ DOMAIN rest = 1..(Len(seq) - n)
      /\ \A i \in 1..(Len(seq) - n) : rest[i] = seq[n + i]
  OBVIOUS
<1> HIDE DEF front, rest
<1>3. ToSet(front) = {seq[i] : i \in 1..n}
  BY <1>1 DEF ToSet
<1>4. \A i \in 1..(Len(seq) - n) : n + i \in 1..Len(seq) /\ n + i \notin 1..n
  OBVIOUS
<1>5. \A i \in 1..Len(seq) : i \in 1..n \/ (i - n \in 1..(Len(seq) - n) /\ n + (i - n) = i)
  OBVIOUS
<1>6. ToSet(seq) = ToSet(front) \cup ToSet(rest)
  <2>1. ToSet(front) \cup ToSet(rest) \subseteq ToSet(seq)
    <3>1. ASSUME NEW i \in 1..n PROVE front[i] \in ToSet(seq)
      <4>1. i \in 1..Len(seq)
        OBVIOUS
      <4> QED
        BY <1>1, <4>1, Elements
    <3>2. ASSUME NEW i \in 1..(Len(seq) - n) PROVE rest[i] \in ToSet(seq)
      BY <1>2, <1>4, Elements
    <3> QED
      BY <1>1, <1>2, <3>1, <3>2 DEF ToSet
  <2>2. ToSet(seq) \subseteq ToSet(front) \cup ToSet(rest)
    <3>1. ASSUME NEW i \in 1..Len(seq) PROVE seq[i] \in ToSet(front) \cup ToSet(rest)
      <4>1. CASE i \in 1..n
        BY <1>3, <4>1
      <4>2. CASE i - n \in 1..(Len(seq) - n) /\ n + (i - n) = i
        <5>1. rest[i - n] = seq[i]
          BY <1>2, <4>2
        <5> QED
          BY <1>2, <4>2, <5>1 DEF ToSet
      <4> QED
        BY <1>5, <4>1, <4>2
    <3>2. DOMAIN seq = 1..Len(seq)
      OBVIOUS
    <3> QED
      BY <3>1, <3>2 DEF ToSet
  <2> QED
    BY <2>1, <2>2
<1>7. ASSUME Once(seq) PROVE Once(rest) /\ ToSet(front) \cap ToSet(rest) = {}
  <2>1. \A i, j \in 1..(Len(seq) - n) : i # j => n + i # n + j
    OBVIOUS
  <2>2. \A i \in 1..n : i \in 1..Len(seq)
    OBVIOUS
  <2>3. DOMAIN seq = 1..Len(seq)
    OBVIOUS
  <2>4. Once(rest)
    <3>1. ASSUME NEW i \in 1..(Len(seq) - n), NEW j \in 1..(Len(seq) - n), i # j
          PROVE  rest[i] # rest[j]
      <4>1. n + i # n + j /\ n + i \in 1..Len(seq) /\ n + j \in 1..Len(seq)
        BY <1>4, <2>1, <3>1
      <4> QED
        BY <1>2, <1>7, <2>3, <4>1 DEF Once
    <3> QED
      BY <1>2, <3>1 DEF Once
  <2>5. ASSUME NEW i \in 1..n, NEW j \in 1..(Len(seq) - n) PROVE seq[i] # seq[n + j]
    BY <1>4, <1>7, <2>2, <2>3 DEF Once
  <2>6. ASSUME NEW y \in ToSet(front), y \in ToSet(rest) PROVE FALSE
    <3>1. PICK i \in 1..n : y = seq[i]
      BY <1>3
    <3>2. PICK j \in 1..(Len(seq) - n) : y = rest[j]
      BY <1>2, <2>6 DEF ToSet
    <3> QED
      BY <1>2, <2>5, <3>1, <3>2
  <2> QED
    BY <2>4, <2>6
<1> QED
  BY <1>1, <1>2, <1>3, <1>6, <1>7 DEF front, rest

\* A set of positions that is not empty has a first one.
LEMMA First ==
  ASSUME NEW P, P \subseteq Nat, P # {}
  PROVE  \E n \in P : \A m \in P : n <= m
<1> DEFINE less == OpToRel(<, Nat)
<1>1. IsWellFoundedOn(less, Nat)
  BY NatLessThanWellFounded
<1> HIDE DEF less
<1>2. PICK n \in P : \A m \in P : ~ (<<m, n>> \in less)
  BY <1>1, WFMin
<1>3. ASSUME NEW m \in P PROVE n <= m
  <2>1. <<m, n>> \in Nat \X Nat /\ <<m, n>>[1] = m /\ <<m, n>>[2] = n
    OBVIOUS
  <2>2. ~(m < n)
    BY <1>2, <2>1 DEF less, OpToRel
  <2> QED
    BY <2>2
<1> QED
  BY <1>3

\* _iter_batches: a batch is one disposer, or a run of coroutine functions.
LEMMA BatchFacts ==
  ASSUME NEW queue \in Seq(Disposers), queue # <<>>
  PROVE  /\ BatchLength(queue) \in 1..Len(queue)
         /\ Kind[queue[1]] # "async" => BatchLength(queue) = 1
         /\ Kind[queue[1]] = "async" =>
              \A i \in 1..BatchLength(queue) : Kind[queue[i]] = "async"
<1> DEFINE Batch(n) ==
             /\ Kind[queue[1]] # "async" => n = 1
             /\ Kind[queue[1]] = "async" =>
                  /\ \A i \in 1..n : Kind[queue[i]] = "async"
                  /\ n < Len(queue) => Kind[queue[n + 1]] # "async"
<1>1. Len(queue) \in Nat /\ Len(queue) > 0
  OBVIOUS
<1>2. \E n \in 1..Len(queue) : Batch(n)
  <2>1. CASE Kind[queue[1]] # "async"
    BY <1>1, <2>1
  <2>2. CASE \A i \in 1..Len(queue) : Kind[queue[i]] = "async"
    BY <1>1, <2>2
  <2>3. CASE Kind[queue[1]] = "async" /\ \E i \in 1..Len(queue) : Kind[queue[i]] # "async"
    <3> DEFINE stops == {i \in 1..Len(queue) : Kind[queue[i]] # "async"}
    <3>1. PICK n \in stops : \A m \in stops : n <= m
      <4>1. stops \subseteq Nat /\ stops # {}
        BY <2>3
      <4> HIDE DEF stops
      <4> QED
        BY <4>1, First
    <3>2. n \in 1..Len(queue) /\ n # 1 /\ Kind[queue[n]] # "async"
      BY <2>3
    <3>3. n - 1 \in 1..Len(queue) /\ (n - 1) + 1 = n
      BY <3>2
    <3>4. ASSUME NEW i \in 1..(n - 1) PROVE Kind[queue[i]] = "async"
      <4>1. i \in 1..Len(queue) /\ ~(n <= i)
        BY <3>2
      <4> QED
        BY <3>1, <4>1
    <3>5. Batch(n - 1)
      BY <2>3, <3>2, <3>3, <3>4
    <3> QED
      BY <3>3, <3>5
  <2> QED
    BY <2>1, <2>2, <2>3
<1>3. BatchLength(queue) = CHOOSE n \in 1..Len(queue) : Batch(n)
  BY DEF BatchLength
<1> HIDE DEF Batch
<1>4. BatchLength(queue) \in 1..Len(queue) /\ Batch(BatchLength(queue))
  BY <1>2, <1>3
<1> QED
  BY <1>4 DEF Batch

----------------------------------------------------------------------------
(* What the parts of a step do to records and jobs *)

NewItems(e, j) ==
  {Yields[e][k] : k \in (yielded[e] + 1)..j} \ ({None} \cup ids[Owner[e]])

LEMMA RecordStep ==
  ASSUME WorkTypes, NEW e \in Effects, NEW j \in Nat,
         yielded[e] <= j, j <= Len(Yields[e]), Record(e, j)
  PROVE  /\ disposers' \in [Effects -> Seq(Disposers)]
         /\ Rec(e)' = Rec(e) \cup NewItems(e, j)
         /\ \A x \in Effects \ {e} : disposers'[x] = disposers[x]
         /\ Once(disposers[e]) /\ Rec(e) \cap NewItems(e, j) = {} => Once(disposers'[e])
         /\ ids' \in [Scopes -> SUBSET Disposers]
         /\ ids'[Owner[e]] = ids[Owner[e]] \cup NewItems(e, j)
         /\ \A s \in Scopes \ {Owner[e]} : ids'[s] = ids[s]
         /\ held' \in SUBSET Disposers /\ held' = held \cup NewItems(e, j)
         /\ yielded' \in [Effects -> Nat] /\ yielded'[e] = j
         /\ \A x \in Effects \ {e} : yielded'[x] = yielded[x]
         /\ \A x \in Effects : yielded'[x] <= Len(Yields[x])
<1> DEFINE new == Recorded(e, yielded[e] + 1, j)
<1>1. yielded[e] \in Nat /\ yielded[e] + 1 \in Nat \ {0} /\ j \in 0..Len(Yields[e])
  <2>1. Len(Yields[e]) \in Nat
    BY ShapeAssumption
  <2> QED
    BY <2>1 DEF WorkTypes
<1>2. new \in Seq(Disposers) /\ ToSet(new) = NewItems(e, j) /\ Once(new)
  BY <1>1, RecordedFacts DEF NewItems
<1> HIDE DEF new
<1>3. /\ disposers' = [disposers EXCEPT ![e] = @ \o new]
      /\ ids' = [ids EXCEPT ![Owner[e]] = @ \cup ToSet(new)]
      /\ held' = held \cup ToSet(new)
      /\ yielded' = [yielded EXCEPT ![e] = j]
  BY DEF Record, new
<1>4. Owner[e] \in Scopes /\ disposers[e] \in Seq(Disposers) /\ ids[Owner[e]] \in SUBSET Disposers
  BY ShapeAssumption DEF WorkTypes
<1>5. ToSet(new) \in SUBSET Disposers
  BY <1>2 DEF ToSet
<1>6. /\ disposers[e] \o new \in Seq(Disposers)
      /\ ToSet(disposers[e] \o new) = Rec(e) \cup NewItems(e, j)
      /\ Once(disposers[e]) /\ Rec(e) \cap NewItems(e, j) = {} => Once(disposers[e] \o new)
  BY <1>2, <1>4, ConcatSet DEF Rec
<1> DEFINE sum == disposers[e] \o new
<1>7. disposers' = [disposers EXCEPT ![e] = sum]
  BY <1>3
<1>8. sum \in Seq(Disposers) /\ ToSet(sum) = Rec(e) \cup NewItems(e, j)
      /\ (Once(disposers[e]) /\ Rec(e) \cap NewItems(e, j) = {} => Once(sum))
  BY <1>6
<1> HIDE DEF sum
<1>9. disposers' \in [Effects -> Seq(Disposers)] /\ disposers'[e] = sum
      /\ \A x \in Effects \ {e} : disposers'[x] = disposers[x]
  BY <1>7, <1>8 DEF WorkTypes
<1>10. Rec(e)' = ToSet(sum)
  BY <1>9 DEF Rec
<1>11. /\ ids' \in [Scopes -> SUBSET Disposers]
       /\ ids'[Owner[e]] = ids[Owner[e]] \cup NewItems(e, j)
       /\ \A s \in Scopes \ {Owner[e]} : ids'[s] = ids[s]
  BY <1>2, <1>3, <1>4, <1>5 DEF WorkTypes
<1>12. held' \in SUBSET Disposers /\ held' = held \cup NewItems(e, j)
  BY <1>2, <1>3, <1>5 DEF WorkTypes
<1>13. /\ yielded' \in [Effects -> Nat] /\ yielded'[e] = j
       /\ \A x \in Effects \ {e} : yielded'[x] = yielded[x]
       /\ \A x \in Effects : yielded'[x] <= Len(Yields[x])
  BY <1>3 DEF WorkTypes
<1> QED
  BY <1>8, <1>9, <1>10, <1>11, <1>12, <1>13

LEMMA RollbackStep ==
  ASSUME WorkTypes, NEW e \in Effects, NEW own \in Seq(Disposers), Rollback(e, own)
  PROVE  /\ disposers' \in [Effects -> Seq(Disposers)] /\ disposers'[e] = <<>>
         /\ \A x \in Effects \ {e} : disposers'[x] = disposers[x]
         /\ ids' \in [Scopes -> SUBSET Disposers]
         /\ ids'[Owner[e]] = ids[Owner[e]] \ ToSet(own)
         /\ \A s \in Scopes \ {Owner[e]} : ids'[s] = ids[s]
         /\ held' \in SUBSET Disposers
         /\ held' = (held \cup ToSet(own)) \ {d \in ToSet(own) : Kind[d] = "plain"}
<1>1. ToSet(own) \in SUBSET Disposers
  BY DEF ToSet
<1> DEFINE given == ToSet(own)
<1>2. given \in SUBSET Disposers /\ Owner[e] \in Scopes
  BY <1>1, ShapeAssumption
<1>3. /\ disposers' = [disposers EXCEPT ![e] = <<>>]
      /\ ids' = [ids EXCEPT ![Owner[e]] = @ \ given]
      /\ held' = (held \cup given) \ {d \in given : Kind[d] = "plain"}
  BY DEF Rollback
<1> HIDE DEF given
<1>4. /\ disposers' \in [Effects -> Seq(Disposers)] /\ disposers'[e] = <<>>
      /\ \A x \in Effects \ {e} : disposers'[x] = disposers[x]
  BY <1>3 DEF WorkTypes
<1>5. /\ ids' \in [Scopes -> SUBSET Disposers]
      /\ ids'[Owner[e]] = ids[Owner[e]] \ given
      /\ \A s \in Scopes \ {Owner[e]} : ids'[s] = ids[s]
  BY <1>2, <1>3 DEF WorkTypes
<1>6. held' \in SUBSET Disposers
  BY <1>2, <1>3 DEF WorkTypes
<1> QED
  BY <1>3, <1>4, <1>5, <1>6 DEF given

LEMMA TakeStep ==
  ASSUME WorkTypes, NEW r \in Runners, NEW e \in Effects, Take(r, e)
  PROVE  /\ job' \in JobType
         /\ job'[r].queue = Reverse(disposers[e]) /\ job'[r].inflight = job[r].inflight
         /\ \A x \in Runners \ {r} : job'[x] = job[x]
         /\ disposed' \in [Effects -> BOOLEAN] /\ disposed'[e]
         /\ \A x \in Effects \ {e} : disposed'[x] = disposed[x]
         /\ disposers' \in [Effects -> Seq(Disposers)] /\ disposers'[e] = <<>>
         /\ \A x \in Effects \ {e} : disposers'[x] = disposers[x]
<1>1. Reverse(disposers[e]) \in Seq(Disposers)
  BY ReverseIsSeq DEF WorkTypes
<1> DEFINE queue == Reverse(disposers[e])
<1>2. queue \in Seq(Disposers) /\ job' = [job EXCEPT ![r].queue = queue]
  BY <1>1 DEF Take, InReverse
<1> HIDE DEF queue
<1>3. /\ job' \in JobType
      /\ job'[r].queue = queue /\ job'[r].inflight = job[r].inflight
      /\ \A x \in Runners \ {r} : job'[x] = job[x]
  BY <1>2 DEF WorkTypes, JobType
<1>4. /\ disposed' \in [Effects -> BOOLEAN] /\ disposed'[e]
      /\ \A x \in Effects \ {e} : disposed'[x] = disposed[x]
      /\ disposers' \in [Effects -> Seq(Disposers)] /\ disposers'[e] = <<>>
      /\ \A x \in Effects \ {e} : disposers'[x] = disposers[x]
  BY DEF Take, WorkTypes
<1> QED
  BY <1>3, <1>4 DEF queue

\* A runner goes on: what it has given back is no longer in its job, and what it
\* awaits still is.
LEMMA RunStep ==
  ASSUME WorkTypes, Single, NEW r \in Runners, Running(r)
  PROVE  \E gone \in SUBSET InJob(r) :
           /\ job' \in JobType
           /\ InJob(r)' = InJob(r) \ gone
           /\ \A x \in Runners \ {r} : job'[x] = job[x]
           /\ Once(job'[r].queue) /\ ToSet(job'[r].queue) \cap job'[r].inflight = {}
           /\ held' = held \ gone
           /\ errors' \in [Runners -> SUBSET Disposers]
           /\ loop' \in Runners \cup {None}
<1> DEFINE queue == job[r].queue
           n     == BatchLength(queue)
           rest  == SubSeq(queue, n + 1, Len(queue))
           front == SubSeq(queue, 1, n)
<1>1. /\ job[r] \in [queue : Seq(Disposers), inflight : SUBSET Disposers]
      /\ Once(queue) /\ ToSet(queue) \cap job[r].inflight = {}
      /\ queue \in Seq(Disposers)
  BY DEF WorkTypes, JobType, Single
<1>2. CASE \E d \in Disposers : DisposerDone(r, d)
  <2>1. PICK d \in Disposers : DisposerDone(r, d)
    BY <1>2
  <2> DEFINE now == [job[r] EXCEPT !.inflight = @ \ {d}]
  <2>2. /\ job' = [job EXCEPT ![r] = now] /\ now.queue = queue
        /\ now.inflight = job[r].inflight \ {d} /\ d \in job[r].inflight
        /\ now \in [queue : Seq(Disposers), inflight : SUBSET Disposers]
        /\ held' = held \ {d} /\ loop' = loop
    BY <1>1, <2>1 DEF DisposerDone
  <2>3. errors' \in [Runners -> SUBSET Disposers]
    <3>1. PICK raised \in {{}, {d}} : errors' = [errors EXCEPT ![r] = @ \cup raised]
      BY <2>1 DEF DisposerDone
    <3> QED
      BY <3>1 DEF WorkTypes
  <2> HIDE DEF now, queue
  <2>4. job' \in JobType /\ job'[r] = now /\ \A x \in Runners \ {r} : job'[x] = job[x]
    BY <2>2 DEF WorkTypes, JobType
  <2>5. InJob(r)' = ToSet(now.queue) \cup now.inflight /\ InJob(r) = ToSet(queue) \cup job[r].inflight
    BY <2>4 DEF InJob, queue
  <2>6. InJob(r)' = InJob(r) \ {d} /\ {d} \in SUBSET InJob(r)
    BY <1>1, <2>2, <2>5
  <2> QED
    BY <1>1, <2>2, <2>3, <2>4, <2>6 DEF WorkTypes
<1>3. CASE CallBatch(r)
  <2>1. queue # <<>> /\ job[r].inflight = {}
    BY <1>3 DEF CallBatch, Ready
  <2>2. /\ n \in 1..Len(queue)
        /\ Kind[queue[1]] # "async" => n = 1
    BY <1>1, <2>1, BatchFacts
  <2>3. /\ front \in Seq(Disposers) /\ rest \in Seq(Disposers)
        /\ ToSet(front) = {queue[i] : i \in 1..n}
        /\ ToSet(queue) = ToSet(front) \cup ToSet(rest)
        /\ Once(rest) /\ ToSet(front) \cap ToSet(rest) = {}
    <3>1. n \in 0..Len(queue)
      BY <2>2
    <3> HIDE DEF n, queue
    <3> QED
      BY <1>1, <3>1, Split
  <2>4. ToSet(front) \in SUBSET Disposers
    BY <2>3 DEF ToSet
  <2>5. CASE Kind[queue[1]] = "plain"
    <3> DEFINE d   == queue[1]
               now == [job[r] EXCEPT !.queue = rest]
    <3>1. /\ job' = [job EXCEPT ![r] = now] /\ now.queue = rest /\ now.inflight = {}
          /\ now \in [queue : Seq(Disposers), inflight : SUBSET Disposers]
          /\ held' = held \ {d} /\ loop' = r
      BY <1>1, <1>3, <2>1, <2>3, <2>5 DEF CallBatch
    <3>2. d \in Disposers
      BY <1>1, <2>1
    <3>3. errors' \in [Runners -> SUBSET Disposers]
      <4>1. PICK raised \in {{}, {d}} : errors' = [errors EXCEPT ![r] = @ \cup raised]
        BY <1>3, <2>5 DEF CallBatch
      <4> QED
        BY <3>2, <4>1 DEF WorkTypes
    <3>4. ToSet(front) = {d}
      BY <2>2, <2>3, <2>5
    <3> HIDE DEF now, queue, rest, front, n, d
    <3>5. job' \in JobType /\ job'[r] = now /\ \A x \in Runners \ {r} : job'[x] = job[x]
      BY <3>1 DEF WorkTypes, JobType
    <3>6. InJob(r)' = ToSet(rest) /\ InJob(r) = ToSet(queue)
      BY <2>1, <3>1, <3>5 DEF InJob, queue
    <3>7. InJob(r)' = InJob(r) \ {d} /\ {d} \in SUBSET InJob(r)
      <4>1. ToSet(queue) = {d} \cup ToSet(rest) /\ d \notin ToSet(rest)
        <5>1. ToSet(queue) = ToSet(front) \cup ToSet(rest)
          BY <2>3
        <5>2. ToSet(front) \cap ToSet(rest) = {}
          BY <2>3
        <5>3. d \in ToSet(front)
          BY <3>4
        <5>4. d \notin ToSet(rest)
          BY <5>2, <5>3
        <5> QED
          BY <3>4, <5>1, <5>4
      <4>2. ToSet(rest) = ToSet(queue) \ {d} /\ d \in ToSet(queue)
        BY <4>1
      <4> QED
        BY <3>6, <4>2
    <3> QED
      BY <2>3, <3>1, <3>3, <3>5, <3>7
  <2>6. CASE Kind[queue[1]] # "plain"
    <3> DEFINE now == [queue |-> rest, inflight |-> ToSet(front)]
    <3>1. /\ job' = [job EXCEPT ![r] = now] /\ now.queue = rest /\ now.inflight = ToSet(front)
          /\ now \in [queue : Seq(Disposers), inflight : SUBSET Disposers]
          /\ UNCHANGED <<held, errors>> /\ loop' = None
      BY <1>3, <2>3, <2>4, <2>6 DEF CallBatch
    <3> HIDE DEF now, queue, rest, front, n
    <3>2. job' \in JobType /\ job'[r] = now /\ \A x \in Runners \ {r} : job'[x] = job[x]
      BY <3>1 DEF WorkTypes, JobType
    <3>3. InJob(r)' = ToSet(rest) \cup ToSet(front) /\ InJob(r) = ToSet(queue)
      BY <2>1, <3>1, <3>2 DEF InJob, queue
    <3>4. /\ job' \in JobType
          /\ InJob(r)' = InJob(r) \ {}
          /\ \A x \in Runners \ {r} : job'[x] = job[x]
      BY <2>3, <3>2, <3>3
    <3>5. Once(job'[r].queue) /\ ToSet(job'[r].queue) \cap job'[r].inflight = {}
      BY <2>3, <3>1, <3>2
    <3>6. /\ held' = held \ {}
          /\ errors' \in [Runners -> SUBSET Disposers] /\ loop' \in Runners \cup {None}
      BY <3>1 DEF WorkTypes
    <3> WITNESS {} \in SUBSET InJob(r)
    <3> QED
      BY <3>4, <3>5, <3>6
  <2> QED
    BY <2>5, <2>6
<1> QED
  BY <1>2, <1>3 DEF Running

----------------------------------------------------------------------------
(* What the parts of a step do to what is held *)

LEMMA Sets ==
  ASSUME WorkTypes
  PROVE  /\ \A e \in Effects : Rec(e) \subseteq Disposers /\ HandedOver(e) \subseteq ToSet(Yields[e])
         /\ \A r \in Runners : InJob(r) \subseteq Disposers
<1>1. ASSUME NEW e \in Effects PROVE Rec(e) \subseteq Disposers
  BY DEF WorkTypes, Rec, ToSet
<1>2. ASSUME NEW e \in Effects PROVE HandedOver(e) \subseteq ToSet(Yields[e])
  <2>1. Len(Yields[e]) \in Nat /\ DOMAIN Yields[e] = 1..Len(Yields[e])
    BY ShapeAssumption
  <2>2. yielded[e] \in Nat /\ yielded[e] <= Len(Yields[e])
    BY DEF WorkTypes
  <2> QED
    BY <2>1, <2>2 DEF HandedOver, ToSet
<1>3. ASSUME NEW r \in Runners PROVE InJob(r) \subseteq Disposers
  <2>1. job[r].queue \in Seq(Disposers) /\ job[r].inflight \in SUBSET Disposers
    BY DEF WorkTypes, JobType
  <2> QED
    BY <2>1 DEF InJob, ToSet
<1> QED
  BY <1>1, <1>2, <1>3

\* What two effects have handed over, they share.
LEMMA Shared ==
  ASSUME WorkTypes, SharedPlainly, NEW e \in Effects, NEW f \in Effects, e # f,
         NEW d \in Disposers, d \in ToSet(Yields[e]), d \in ToSet(Yields[f])
  PROVE  Owner[e] = Owner[f] /\ e \notin Handled /\ f \notin Handled
  BY DEF SharedPlainly

\* What is new was not handed over before.
LEMMA NewIsNew ==
  ASSUME WorkTypes, NEW e \in Effects, NEW j \in Nat, j <= Len(Yields[e])
  PROVE  /\ NewItems(e, j) \cap HandedOver(e) = {}
         /\ NewItems(e, j) \subseteq Disposers
         /\ NewItems(e, j) \subseteq ToSet(Yields[e])
         /\ NewItems(e, j) \cap ids[Owner[e]] = {}
<1>1. /\ Len(Yields[e]) \in Nat /\ yielded[e] \in Nat
      /\ Yields[e] \in Seq(Disposers \cup {None}) /\ DOMAIN Yields[e] = 1..Len(Yields[e])
  BY ShapeAssumption DEF WorkTypes
<1>2. \A k \in (yielded[e] + 1)..j : k \in 1..Len(Yields[e]) /\ k \notin 1..yielded[e]
  BY <1>1
<1>3. ASSUME NEW d \in NewItems(e, j)
      PROVE  d \in Disposers /\ d \in ToSet(Yields[e]) /\ d \notin HandedOver(e)
  <2>1. PICK k \in (yielded[e] + 1)..j : d = Yields[e][k]
    BY DEF NewItems
  <2>2. k \in 1..Len(Yields[e]) /\ k \notin 1..yielded[e]
    BY <1>2
  <2>3. d # None
    BY DEF NewItems
  <2>4. Yields[e][k] \in Disposers \cup {None}
    BY <1>1, <2>2
  <2>5. \A m \in 1..yielded[e] : m \in 1..Len(Yields[e]) /\ m # k
    BY <1>1, <2>2 DEF WorkTypes
  <2>6. \A m \in 1..yielded[e] : Yields[e][m] # d
    BY <2>1, <2>2, <2>5, ShapeAssumption
  <2> QED
    BY <1>1, <2>1, <2>2, <2>3, <2>4, <2>6 DEF HandedOver, ToSet
<1> QED
  BY <1>3 DEF NewItems

\* The steps that leave records and jobs alone.
LEMMA ItemsAside ==
  ASSUME Items, UNCHANGED <<yielded, disposers, disposed, job, held>>,
         \A s \in Scopes : unwind'[s].pc # "done" => unwind[s].pc # "done" /\ ids'[s] = ids[s],
         \A e \in Effects : setup[e] = "failed" => setup'[e] = "failed"
  PROVE  Items'
<1>1. /\ \A e \in Effects : Rec(e)' = Rec(e) /\ HandedOver(e)' = HandedOver(e)
      /\ \A r : InJob(r)' = InJob(r)
  BY DEF Rec, HandedOver, InJob
<1>2. Sourced'
  BY <1>1 DEF Items, Sourced
<1>3. Listed'
  BY <1>1 DEF Items, Listed
<1>4. Alone'
  BY <1>1, ShapeAssumption DEF Items, Alone
<1>5. Single' /\ Kept' /\ Tracked'
  BY <1>1 DEF Items, Single, Kept, Tracked
<1> QED
  BY <1>2, <1>3, <1>4, <1>5 DEF Items

\* A setup hands over more.
LEMMA ItemsRecord ==
  ASSUME Whereabouts, Idle, NEW e \in Effects, NEW j \in Nat,
         yielded[e] <= j, j <= Len(Yields[e]), Record(e, j),
         UNCHANGED <<disposed, job, unwind>>,
         \A x \in Effects : setup[x] = "failed" => setup'[x] = "failed"
  PROVE  Items'
<1> DEFINE N == NewItems(e, j)
           s == Owner[e]
<1>1. s \in Scopes /\ s \in Runners /\ \A x \in Effects : Owner[x] \in Scopes
  BY ShapeAssumption DEF Runners
<1>2. /\ N \cap HandedOver(e) = {} /\ N \subseteq Disposers /\ N \cap ids[s] = {}
  BY NewIsNew DEF Whereabouts
<1>3. Rec(e) \subseteq HandedOver(e) /\ InJob(e) \subseteq HandedOver(e)
  BY DEF Whereabouts, Items, Sourced
<1>4. /\ Rec(e)' = Rec(e) \cup N
      /\ \A x \in Effects \ {e} : disposers'[x] = disposers[x]
      /\ Once(disposers'[e])
      /\ ids'[s] = ids[s] \cup N
      /\ \A x \in Scopes \ {s} : ids'[x] = ids[x]
      /\ held' = held \cup N
      /\ yielded' \in [Effects -> Nat] /\ yielded'[e] = j
      /\ \A x \in Effects \ {e} : yielded'[x] = yielded[x]
  <2>1. Rec(e) \cap N = {} /\ Once(disposers[e])
    BY <1>2, <1>3 DEF Whereabouts, Items, Single
  <2> QED
    BY <2>1, RecordStep DEF Whereabouts
<1>5. /\ \A x \in Effects \ {e} : Rec(x)' = Rec(x) /\ HandedOver(x)' = HandedOver(x)
      /\ \A r : InJob(r)' = InJob(r)
  BY <1>4 DEF Rec, HandedOver, InJob
<1>6. HandedOver(e) \subseteq HandedOver(e)' /\ N \subseteq HandedOver(e)'
  <2>1. /\ yielded[e] \in Nat
        /\ \A k \in 1..yielded[e] : k \in 1..j
        /\ \A k \in (yielded[e] + 1)..j : k \in 1..j
    BY DEF Whereabouts, WorkTypes
  <2> QED
    BY <1>4, <2>1 DEF HandedOver, NewItems
<1> HIDE DEF N, s
<1>7. N \cap InJob(e) = {} /\ N \cap InJob(s) = {}
  <2>1. CASE unwind[s].pc = "done"
    <3>1. InJob(s) = {}
      BY <1>1, <2>1 DEF Idle, NoJob, InJob, ToSet
    <3> QED
      BY <1>2, <1>3, <3>1
  <2>2. CASE unwind[s].pc # "done"
    <3>1. InJob(s) \subseteq ids[s]
      BY <1>1, <2>2 DEF Whereabouts, Items, Listed
    <3> QED
      BY <1>2, <1>3, <3>1
  <2> QED
    BY <2>1, <2>2
<1>8. ASSUME NEW f \in Effects, Owner[f] = s, unwind[s].pc # "done" PROVE N \cap Rec(f) = {}
  BY <1>1, <1>2, <1>8 DEF Whereabouts, Items, Listed
<1>9. Sourced'
  <2>1. \A x \in Effects : HandedOver(x) \subseteq HandedOver(x)'
    BY <1>5, <1>6
  <2>2. \A x \in Effects : Rec(x)' \subseteq HandedOver(x)'
    BY <1>3, <1>4, <1>5, <1>6 DEF Whereabouts, Items, Sourced
  <2>3. \A x \in Effects :
          InJob(x)' \subseteq HandedOver(x)' /\ (InJob(x)' # {} => x \in Handled /\ disposed'[x])
    BY <1>5, <2>1 DEF Whereabouts, Items, Sourced
  <2>4. ASSUME NEW x \in Scopes, NEW d \in InJob(x)'
        PROVE  \E f \in Effects : Owner[f] = x /\ disposed'[f] /\ d \in HandedOver(f)'
    BY <1>5, <2>1 DEF Whereabouts, Items, Sourced
  <2> QED
    BY <2>2, <2>3, <2>4 DEF Sourced
<1>10. Listed'
  <2> SUFFICES ASSUME NEW x \in Scopes, unwind[x].pc # "done"
               PROVE  /\ InJob(x)' \subseteq ids'[x]
                      /\ \A f \in Effects : Owner[f] = x => Rec(f)' \subseteq ids'[x]
    BY DEF Listed
  <2>1. /\ InJob(x) \subseteq ids[x] /\ ids[x] \subseteq ids'[x]
        /\ \A f \in Effects : Owner[f] = x => Rec(f) \subseteq ids[x]
    BY <1>4 DEF Whereabouts, Items, Listed
  <2>2. ASSUME NEW f \in Effects, Owner[f] = x PROVE Rec(f)' \subseteq ids'[x]
    <3>1. CASE f = e
      BY <1>4, <2>1, <2>2, <3>1 DEF s
    <3>2. CASE f # e
      BY <1>5, <2>1, <2>2, <3>2
    <3> QED
      BY <3>1, <3>2
  <2> QED
    BY <1>5, <2>1, <2>2
<1>11. Alone'
  <2> SUFFICES ASSUME NEW x \in Effects
               PROVE  /\ Rec(x)' \cap InJob(Owner[x])' = {}
                      /\ Rec(x)' \cap InJob(x)' = {}
                      /\ InJob(x)' \cap InJob(Owner[x])' = {}
                      /\ \A f \in Effects :
                           x # f /\ Owner[x] = Owner[f] /\ unwind[Owner[x]].pc # "done"
                             => Rec(x)' \cap Rec(f)' = {}
    BY DEF Alone
  <2>1. /\ Rec(x) \cap InJob(Owner[x]) = {}
        /\ Rec(x) \cap InJob(x) = {}
        /\ InJob(x) \cap InJob(Owner[x]) = {}
        /\ \A f \in Effects :
             x # f /\ Owner[x] = Owner[f] /\ unwind[Owner[x]].pc # "done" => Rec(x) \cap Rec(f) = {}
    BY DEF Whereabouts, Items, Alone
  <2>2. CASE x = e
    <3>1. ASSUME NEW f \in Effects, f # e, Owner[e] = Owner[f], unwind[Owner[e]].pc # "done"
          PROVE  Rec(e)' \cap Rec(f)' = {}
      <4>1. Rec(f)' = Rec(f) /\ N \cap Rec(f) = {} /\ Rec(e) \cap Rec(f) = {}
        BY <1>5, <1>8, <2>1, <2>2, <3>1 DEF s
      <4> QED
        BY <1>4, <4>1
    <3> QED
      BY <1>4, <1>5, <1>7, <2>1, <2>2, <3>1 DEF s
  <2>3. CASE x # e
    <3>1. Rec(x)' = Rec(x)
      BY <1>5, <2>3
    <3>2. ASSUME NEW f \in Effects, x # f, Owner[x] = Owner[f], unwind[Owner[x]].pc # "done"
          PROVE  Rec(x) \cap Rec(f)' = {}
      <4>1. CASE f = e
        <5>1. Rec(x) \cap Rec(e) = {} /\ N \cap Rec(x) = {}
          BY <1>8, <2>1, <3>2, <4>1 DEF s
        <5> QED
          BY <1>4, <4>1, <5>1
      <4>2. CASE f # e
        BY <1>5, <2>1, <3>2, <4>2
      <4> QED
        BY <4>1, <4>2
    <3> QED
      BY <1>5, <2>1, <3>1, <3>2
  <2> QED
    BY <2>2, <2>3
<1>12. Single'
  BY <1>4 DEF Whereabouts, Items, Single
<1>13. Kept'
  BY <1>4, <1>5 DEF Whereabouts, Items, Kept
<1>14. Tracked'
  BY <1>4, <1>5 DEF Whereabouts, Items, Tracked
<1> QED
  BY <1>9, <1>10, <1>11, <1>12, <1>13, <1>14 DEF Items

\* A setup fails: what it handed over is called, or closed, and forgotten.
LEMMA ItemsRollback ==
  ASSUME Whereabouts, SharedPlainly, NEW e \in Effects, NEW own \in Seq(Disposers),
         Rollback(e, own), UNCHANGED <<disposed, job, unwind>>,
         Rec(e) \subseteq ToSet(own), ToSet(own) \subseteq ToSet(Yields[e]),
         ToSet(own) \cap InJob(e) = {}, ToSet(own) \cap InJob(Owner[e]) = {},
         \A f \in Effects \ {e} : Owner[f] = Owner[e] /\ unwind[Owner[e]].pc # "done" =>
           ToSet(own) \cap Rec(f) = {},
         yielded' \in [Effects -> Nat], yielded[e] <= yielded'[e],
         \A x \in Effects \ {e} : yielded'[x] = yielded[x],
         setup'[e] = "failed", \A x \in Effects \ {e} : setup'[x] = setup[x]
  PROVE  Items'
<1> DEFINE s == Owner[e]
           O == ToSet(own)
<1>1. s \in Scopes /\ s \in Runners /\ \A x \in Effects : Owner[x] \in Scopes
  BY ShapeAssumption DEF Runners
<1>2. /\ disposers'[e] = <<>>
      /\ \A x \in Effects \ {e} : disposers'[x] = disposers[x]
      /\ ids'[s] = ids[s] \ O
      /\ \A x \in Scopes \ {s} : ids'[x] = ids[x]
      /\ held' = (held \cup O) \ {d \in O : Kind[d] = "plain"}
  BY RollbackStep DEF Whereabouts
<1>3. /\ Rec(e)' = {}
      /\ \A x \in Effects \ {e} : Rec(x)' = Rec(x) /\ HandedOver(x)' = HandedOver(x)
      /\ \A r : InJob(r)' = InJob(r)
  <2>1. Rec(e)' = {}
    BY <1>2 DEF Rec, ToSet
  <2> QED
    BY <1>2, <2>1 DEF Rec, HandedOver, InJob
<1>4. HandedOver(e) \subseteq HandedOver(e)'
  <2>1. \A k \in 1..yielded[e] : k \in 1..yielded'[e]
    BY DEF Whereabouts, WorkTypes
  <2> QED
    BY <2>1 DEF HandedOver
<1>5. O \subseteq Disposers
  BY DEF ToSet
<1>6. ASSUME NEW f \in Effects, f # e, ~disposed[f] PROVE O \cap Rec(f) = {}
  <2> SUFFICES ASSUME NEW d \in O, d \in Rec(f) PROVE FALSE
    OBVIOUS
  <2>1. d \in ToSet(Yields[e]) /\ d \in ToSet(Yields[f]) /\ d \in Disposers
    BY <1>5, Sets DEF Whereabouts, Items, Sourced
  <2>2. Owner[f] = Owner[e]
    BY <1>6, <2>1, Shared DEF Whereabouts
  <2>3. setup[f] \notin {"none", "failed"}
    <3>1. disposers[f] # <<>>
      BY DEF Rec, ToSet
    <3> QED
      BY <3>1 DEF Whereabouts, Staged
  <2>4. unwind[Owner[e]].pc # "done"
    <3>1. ToUnwind(f)
      BY <1>6, <2>3 DEF Whereabouts, WorkTypes, Enlisted
    <3> QED
      BY <2>2, <3>1 DEF ToUnwind
  <2> QED
    BY <1>6, <2>2, <2>4
<1>7. ASSUME NEW r \in Runners PROVE O \cap InJob(r) = {}
  <2> SUFFICES ASSUME NEW d \in O, d \in InJob(r) PROVE FALSE
    OBVIOUS
  <2>1. d \in ToSet(Yields[e]) /\ d \in Disposers
    BY <1>5
  <2>2. CASE r \in Effects
    <3>1. d \in ToSet(Yields[r]) /\ r \in Handled
      BY <2>2, Sets DEF Whereabouts, Items, Sourced
    <3> QED
      BY <2>1, <2>2, <3>1, Shared DEF Whereabouts
  <2>3. CASE r \in Scopes
    <3>1. PICK f \in Effects : Owner[f] = r /\ d \in HandedOver(f)
      BY <2>3 DEF Whereabouts, Items, Sourced
    <3>2. d \in ToSet(Yields[f])
      BY <3>1, Sets DEF Whereabouts
    <3>3. Owner[f] = Owner[e]
      BY <2>1, <3>2, Shared DEF Whereabouts
    <3> QED
      BY <3>1, <3>3
  <2> QED
    BY <2>2, <2>3 DEF Runners
<1> HIDE DEF O, s
<1>8. Sourced'
  <2>1. \A x \in Effects : HandedOver(x) \subseteq HandedOver(x)'
    BY <1>3, <1>4
  <2>2. \A x \in Effects : Rec(x)' \subseteq HandedOver(x)'
    BY <1>3 DEF Whereabouts, Items, Sourced
  <2>3. \A x \in Effects :
          InJob(x)' \subseteq HandedOver(x)' /\ (InJob(x)' # {} => x \in Handled /\ disposed'[x])
    BY <1>3, <2>1 DEF Whereabouts, Items, Sourced
  <2>4. ASSUME NEW x \in Scopes, NEW d \in InJob(x)'
        PROVE  \E f \in Effects : Owner[f] = x /\ disposed'[f] /\ d \in HandedOver(f)'
    BY <1>3, <2>1 DEF Whereabouts, Items, Sourced
  <2> QED
    BY <2>2, <2>3, <2>4 DEF Sourced
<1>9. Listed'
  <2> SUFFICES ASSUME NEW x \in Scopes, unwind[x].pc # "done"
               PROVE  /\ InJob(x)' \subseteq ids'[x]
                      /\ \A f \in Effects : Owner[f] = x => Rec(f)' \subseteq ids'[x]
    BY DEF Listed
  <2>1. /\ InJob(x) \subseteq ids[x]
        /\ \A f \in Effects : Owner[f] = x => Rec(f) \subseteq ids[x]
    BY DEF Whereabouts, Items, Listed
  <2>2. CASE x # s
    BY <1>2, <1>3, <2>1, <2>2 DEF s
  <2>3. CASE x = s
    <3>1. O \cap InJob(x) = {} /\ \A f \in Effects \ {e} : Owner[f] = x => O \cap Rec(f) = {}
      BY <2>3 DEF O, s
    <3>2. ids'[x] = ids[x] \ O
      BY <1>2, <2>3
    <3>3. ASSUME NEW f \in Effects, Owner[f] = x PROVE Rec(f)' \subseteq ids'[x]
      BY <1>3, <2>1, <3>1, <3>2, <3>3
    <3> QED
      BY <1>3, <2>1, <3>1, <3>2, <3>3
  <2> QED
    BY <2>2, <2>3
<1>10. Alone'
  BY <1>3 DEF Whereabouts, Items, Alone
<1>11. Single'
  <2>1. Once(disposers'[e])
    BY <1>2 DEF Once
  <2> QED
    BY <1>2, <2>1 DEF Whereabouts, Items, Single
<1>12. Kept'
  <2>1. \A f \in Effects : ~disposed[f] => Rec(f)' \subseteq held'
    BY <1>2, <1>3, <1>6 DEF Whereabouts, Items, Kept
  <2>2. \A r \in Runners : InJob(r)' \subseteq held'
    BY <1>2, <1>3, <1>7 DEF Whereabouts, Items, Kept
  <2> QED
    BY <2>1, <2>2 DEF Kept
<1>13. Tracked'
  <2> SUFFICES ASSUME NEW d \in held'
               PROVE  \/ \E x \in Effects : d \in Rec(x)'
                      \/ \E r \in Runners : d \in InJob(r)'
                      \/ /\ Kind[d] # "plain"
                         /\ \E x \in Effects : setup'[x] = "failed" /\ d \in ToSet(Yields[x])
    BY DEF Tracked
  <2>1. CASE d \in O
    BY <1>2, <2>1 DEF O
  <2>2. CASE d \notin O
    <3>1. d \in held /\ d \notin Rec(e)
      BY <1>2, <2>2 DEF O
    <3> QED
      BY <1>3, <3>1 DEF Whereabouts, Items, Tracked
  <2> QED
    BY <2>1, <2>2
<1> QED
  BY <1>8, <1>9, <1>10, <1>11, <1>12, <1>13 DEF Items

\* The call of a handle, or the walk of its scope, takes over a record.
LEMMA ItemsTake ==
  ASSUME Whereabouts, SharedPlainly, NEW e \in Effects, NEW r \in Runners, Take(r, e),
         ~disposed[e], InJob(r) = {},
         \/ r = e /\ e \in Handled /\ ids' = [ids EXCEPT ![Owner[e]] = @ \ Rec(e)]
         \/ r = Owner[e] /\ ids' = ids,
         UNCHANGED <<yielded, setup, held>>,
         \A s \in Scopes : unwind'[s].pc = unwind[s].pc
  PROVE  Items'
<1> DEFINE s == Owner[e]
<1>1. s \in Scopes /\ s \in Runners /\ e \in Runners /\ s # e /\ \A x \in Effects : Owner[x] \in Scopes
  BY ShapeAssumption DEF Runners
<1>2. /\ job'[r].queue = Reverse(disposers[e]) /\ job'[r].inflight = job[r].inflight
      /\ \A x \in Runners \ {r} : job'[x] = job[x]
      /\ disposed'[e]
      /\ \A x \in Effects \ {e} : disposed'[x] = disposed[x]
      /\ disposers'[e] = <<>>
      /\ \A x \in Effects \ {e} : disposers'[x] = disposers[x]
  BY TakeStep DEF Whereabouts
<1>3. job[r].inflight = {}
  BY DEF InJob
<1>4. disposers[e] \in Seq(Disposers)
  BY DEF Whereabouts, WorkTypes
<1>5. /\ Rec(e)' = {}
      /\ \A x \in Effects \ {e} : Rec(x)' = Rec(x)
      /\ \A x \in Effects : HandedOver(x)' = HandedOver(x)
      /\ \A x \in Runners \ {r} : InJob(x)' = InJob(x)
      /\ InJob(r)' = Rec(e)
  <2>1. Rec(e)' = {}
    BY <1>2 DEF Rec, ToSet
  <2>2. InJob(r)' = ToSet(Reverse(disposers[e]))
    BY <1>2, <1>3 DEF InJob
  <2>3. InJob(r)' = Rec(e)
    BY <1>4, <2>2, ReverseIsSeq DEF Rec
  <2> QED
    BY <1>2, <2>1, <2>3 DEF Rec, HandedOver, InJob
<1>6. /\ Rec(e) \subseteq HandedOver(e)
      /\ InJob(e) = {}
      /\ Rec(e) \cap InJob(s) = {}
      /\ Rec(e) \subseteq held
  BY DEF Whereabouts, Items, Sourced, Alone, Kept
<1>8. ASSUME NEW f \in Effects, f # e PROVE Rec(e) \cap InJob(f) = {}
  <2> SUFFICES ASSUME NEW d \in Rec(e), d \in InJob(f) PROVE FALSE
    OBVIOUS
  <2>1. d \in Disposers /\ d \in ToSet(Yields[e]) /\ d \in ToSet(Yields[f]) /\ f \in Handled
    BY Sets DEF Whereabouts, Items, Sourced
  <2> QED
    BY <1>8, <2>1, Shared DEF Whereabouts
<1> HIDE DEF s
<1>9. ASSUME NEW f \in Effects, Owner[f] = s, f # e PROVE Rec(e) \cap Rec(f) = {}
  <2>1. CASE unwind[s].pc # "done"
    BY <1>9, <2>1 DEF Whereabouts, Items, Alone, s
  <2>2. CASE unwind[s].pc = "done"
    <3>1. ~ToUnwind(e)
      BY <2>2 DEF ToUnwind, s
    <3>2. setup[e] \in {"none", "failed"}
      BY <3>1 DEF Whereabouts, WorkTypes, Enlisted
    <3>3. Rec(e) = {}
      BY <3>2 DEF Whereabouts, Staged, Rec, ToSet
    <3> QED
      BY <3>3
  <2> QED
    BY <2>1, <2>2
<1>10. Sourced'
  <2>1. \A x \in Effects : Rec(x)' \subseteq HandedOver(x)'
    BY <1>5 DEF Whereabouts, Items, Sourced
  <2>2. ASSUME NEW x \in Effects
        PROVE  InJob(x)' \subseteq HandedOver(x)' /\ (InJob(x)' # {} => x \in Handled /\ disposed'[x])
    <3>1. CASE x = r
      <4>1. r = e /\ e \in Handled
        BY <1>1, <3>1, ShapeAssumption DEF s
      <4> QED
        BY <1>2, <1>5, <1>6, <3>1, <4>1
    <3>2. CASE x # r
      BY <1>2, <1>5, <3>2 DEF Whereabouts, Items, Sourced, Runners
    <3> QED
      BY <3>1, <3>2
  <2>3. ASSUME NEW x \in Scopes, NEW d \in InJob(x)'
        PROVE  \E f \in Effects : Owner[f] = x /\ disposed'[f] /\ d \in HandedOver(f)'
    <3>1. CASE x = r
      <4>1. x = Owner[e] /\ d \in HandedOver(e)'
        BY <1>5, <1>6, <2>3, <3>1, ShapeAssumption
      <4> QED
        BY <1>2, <4>1
    <3>2. CASE x # r
      BY <1>2, <1>5, <3>2 DEF Whereabouts, Items, Sourced, Runners
    <3> QED
      BY <3>1, <3>2
  <2> QED
    BY <2>1, <2>2, <2>3 DEF Sourced
<1>11. Listed'
  <2> SUFFICES ASSUME NEW x \in Scopes, unwind[x].pc # "done"
               PROVE  /\ InJob(x)' \subseteq ids'[x]
                      /\ \A f \in Effects : Owner[f] = x => Rec(f)' \subseteq ids'[x]
    BY DEF Listed
  <2>1. /\ InJob(x) \subseteq ids[x]
        /\ \A f \in Effects : Owner[f] = x => Rec(f) \subseteq ids[x]
    BY DEF Whereabouts, Items, Listed
  <2>2. CASE r = Owner[e] /\ ids' = ids
    BY <1>5, <2>1, <2>2 DEF Runners
  <2>3. CASE r = e /\ e \in Handled /\ ids' = [ids EXCEPT ![Owner[e]] = @ \ Rec(e)]
    <3>1. InJob(x)' = InJob(x)
      BY <1>5, <2>3, ShapeAssumption DEF Runners
    <3>2. ids'[x] = IF x = s THEN ids[x] \ Rec(e) ELSE ids[x]
      BY <2>3 DEF Whereabouts, WorkTypes, s
    <3>3. x = s => Rec(e) \cap InJob(x) = {}
      BY <1>6
    <3>4. ASSUME NEW f \in Effects, Owner[f] = x PROVE Rec(f)' \subseteq ids'[x]
      <4>1. CASE f = e
        BY <1>5, <4>1
      <4>2. CASE f # e
        BY <1>5, <1>9, <2>1, <3>2, <3>4, <4>2
      <4> QED
        BY <4>1, <4>2
    <3> QED
      BY <2>1, <3>1, <3>2, <3>3, <3>4
  <2> QED
    BY <2>2, <2>3
<1>12. Alone'
  <2> SUFFICES ASSUME NEW x \in Effects
               PROVE  /\ Rec(x)' \cap InJob(Owner[x])' = {}
                      /\ Rec(x)' \cap InJob(x)' = {}
                      /\ InJob(x)' \cap InJob(Owner[x])' = {}
                      /\ \A f \in Effects :
                           x # f /\ Owner[x] = Owner[f] /\ unwind[Owner[x]].pc # "done"
                             => Rec(x)' \cap Rec(f)' = {}
    BY <1>1 DEF Alone
  <2>1. /\ Rec(x) \cap InJob(Owner[x]) = {}
        /\ Rec(x) \cap InJob(x) = {}
        /\ InJob(x) \cap InJob(Owner[x]) = {}
        /\ \A f \in Effects :
             x # f /\ Owner[x] = Owner[f] /\ unwind[Owner[x]].pc # "done" => Rec(x) \cap Rec(f) = {}
    BY DEF Whereabouts, Items, Alone
  <2>2. \A f \in Effects :
          x # f /\ Owner[x] = Owner[f] /\ unwind[Owner[x]].pc # "done" => Rec(x)' \cap Rec(f)' = {}
    BY <1>5, <2>1
  <2>3. x \in Runners /\ Owner[x] \in Runners /\ Owner[x] \in Scopes /\ x # Owner[x]
        /\ Owner[x] # e /\ (Owner[e] = x => FALSE)
    BY <1>1, ShapeAssumption DEF Runners
  <2>4. CASE x = e
    <3>1. Rec(x)' = {}
      BY <1>5, <2>4
    <3>2. InJob(x)' \cap InJob(Owner[x])' = {}
      <4>1. CASE r = e
        BY <1>5, <1>6, <2>3, <2>4, <4>1 DEF s
      <4>2. CASE r = Owner[e]
        BY <1>5, <1>6, <2>3, <2>4, <4>2
      <4> QED
        BY <4>1, <4>2
    <3> QED
      BY <2>2, <3>1, <3>2
  <2>5. CASE x # e
    <3>1. Rec(x)' = Rec(x) /\ InJob(x)' = InJob(x)
      <4>1. x # r
        BY <2>3, <2>5
      <4> QED
        BY <1>5, <2>3, <2>5, <4>1
    <3>2. CASE Owner[x] # r
      BY <1>5, <2>1, <2>2, <2>3, <3>1, <3>2
    <3>3. CASE Owner[x] = r
      <4>1. r = Owner[e] /\ InJob(Owner[x])' = Rec(e) /\ Owner[x] = s
        BY <1>5, <2>3, <3>3 DEF s
      <4>2. Rec(x) \cap Rec(e) = {} /\ InJob(x) \cap Rec(e) = {}
        BY <1>8, <1>9, <2>5, <4>1
      <4> QED
        BY <2>1, <2>2, <3>1, <4>1, <4>2
    <3> QED
      BY <3>2, <3>3
  <2> QED
    BY <2>4, <2>5
<1>13. Single'
  <2>1. Once(disposers'[e])
    BY <1>2 DEF Once
  <2>2. Once(job'[r].queue)
    BY <1>2, <1>4, ReverseOnce DEF Whereabouts, Items, Single
  <2>3. ToSet(job'[r].queue) \cap job'[r].inflight = {}
    BY <1>2, <1>3
  <2> QED
    BY <1>2, <2>1, <2>2, <2>3 DEF Whereabouts, Items, Single
<1>14. Kept'
  BY <1>2, <1>5, <1>6 DEF Whereabouts, Items, Kept
<1>15. Tracked'
  <2> SUFFICES ASSUME NEW d \in held
               PROVE  \/ \E x \in Effects : d \in Rec(x)'
                      \/ \E x \in Runners : d \in InJob(x)'
                      \/ /\ Kind[d] # "plain"
                         /\ \E x \in Effects : setup[x] = "failed" /\ d \in ToSet(Yields[x])
    BY DEF Tracked
  <2> QED
    BY <1>5 DEF Whereabouts, Items, Tracked
<1> QED
  BY <1>10, <1>11, <1>12, <1>13, <1>14, <1>15 DEF Items

\* A runner runs disposers: what it gives back it was the only one to hold.
LEMMA ItemsRun ==
  ASSUME Whereabouts, SharedPlainly, NEW r \in Runners, Running(r),
         UNCHANGED <<ids, setup, yielded, disposers, disposed, unwind>>
  PROVE  Items'
<1>1. PICK gone \in SUBSET InJob(r) :
        /\ InJob(r)' = InJob(r) \ gone
        /\ \A x \in Runners \ {r} : job'[x] = job[x]
        /\ Once(job'[r].queue) /\ ToSet(job'[r].queue) \cap job'[r].inflight = {}
        /\ held' = held \ gone
  BY RunStep DEF Whereabouts, Items
<1>2. /\ \A x \in Effects : Rec(x)' = Rec(x) /\ HandedOver(x)' = HandedOver(x)
      /\ \A x \in Runners \ {r} : InJob(x)' = InJob(x)
      /\ \A x \in Runners : InJob(x)' \subseteq InJob(x)
  BY <1>1 DEF Rec, HandedOver, InJob
<1>3. \A x \in Effects : Owner[x] \in Scopes /\ x \in Runners /\ Owner[x] \in Runners
  BY ShapeAssumption DEF Runners
<1>4. Sourced' /\ Listed' /\ Alone' /\ Single'
  <2>1. Sourced'
    BY <1>2 DEF Whereabouts, Items, Sourced, Runners
  <2>2. Listed'
    BY <1>2 DEF Whereabouts, Items, Listed, Runners
  <2>3. Alone'
    BY <1>2, <1>3 DEF Whereabouts, Items, Alone
  <2>4. Single'
    BY <1>1 DEF Whereabouts, Items, Single
  <2> QED
    BY <2>1, <2>2, <2>3, <2>4
<1>5. ASSUME NEW f \in Effects, ~disposed[f] PROVE gone \cap Rec(f) = {}
  <2> SUFFICES ASSUME NEW d \in InJob(r), d \in Rec(f) PROVE FALSE
    OBVIOUS
  <2>1. d \in Disposers /\ d \in ToSet(Yields[f])
    BY Sets DEF Whereabouts, Items, Sourced
  <2>2. CASE r \in Effects
    <3>1. d \in ToSet(Yields[r]) /\ r \in Handled
      BY <2>2, Sets DEF Whereabouts, Items, Sourced
    <3>2. r = f
      BY <2>1, <2>2, <3>1, Shared DEF Whereabouts
    <3> QED
      BY <3>2 DEF Whereabouts, Items, Alone
  <2>3. CASE r \in Scopes
    <3>1. PICK x \in Effects : Owner[x] = r /\ d \in HandedOver(x)
      BY <2>3 DEF Whereabouts, Items, Sourced
    <3>2. d \in ToSet(Yields[x])
      BY <3>1, Sets DEF Whereabouts
    <3>3. Owner[f] = r
      BY <2>1, <3>1, <3>2, Shared DEF Whereabouts
    <3> QED
      BY <3>3 DEF Whereabouts, Items, Alone
  <2> QED
    BY <2>2, <2>3 DEF Runners
<1>6. ASSUME NEW x \in Runners, x # r PROVE gone \cap InJob(x) = {}
  <2> SUFFICES ASSUME NEW d \in InJob(r), d \in InJob(x) PROVE FALSE
    OBVIOUS
  <2>1. d \in Disposers
    BY Sets DEF Whereabouts
  <2>2. ASSUME NEW f \in Effects, NEW y \in Runners, d \in InJob(f), d \in InJob(y), y # f
        PROVE  FALSE
    <3>1. d \in ToSet(Yields[f]) /\ f \in Handled
      BY <2>2, Sets DEF Whereabouts, Items, Sourced
    <3>2. CASE y \in Effects
      BY <2>1, <2>2, <3>1, <3>2, Sets, Shared DEF Whereabouts, Items, Sourced
    <3>3. CASE y \in Scopes
      <4>1. PICK g \in Effects : Owner[g] = y /\ d \in HandedOver(g)
        BY <2>2, <3>3 DEF Whereabouts, Items, Sourced
      <4>2. d \in ToSet(Yields[g])
        BY <4>1, Sets DEF Whereabouts
      <4>3. g = f
        BY <2>1, <3>1, <4>2, Shared DEF Whereabouts
      <4> QED
        BY <2>2, <4>1, <4>3 DEF Whereabouts, Items, Alone
    <3> QED
      BY <3>2, <3>3 DEF Runners
  <2>3. CASE r \in Scopes /\ x \in Scopes
    <3>1. PICK f \in Effects : Owner[f] = r /\ d \in HandedOver(f)
      BY <2>3 DEF Whereabouts, Items, Sourced
    <3>2. PICK g \in Effects : Owner[g] = x /\ d \in HandedOver(g)
      BY <2>3 DEF Whereabouts, Items, Sourced
    <3>3. d \in ToSet(Yields[f]) /\ d \in ToSet(Yields[g])
      BY <3>1, <3>2, Sets DEF Whereabouts
    <3>4. Owner[f] = Owner[g]
      BY <2>1, <3>3, Shared DEF Whereabouts
    <3> QED
      BY <1>6, <3>1, <3>2, <3>4
  <2> QED
    BY <1>6, <2>2, <2>3 DEF Runners
<1>7. Kept'
  <2>1. \A f \in Effects : ~disposed[f] => Rec(f)' \subseteq held'
    BY <1>1, <1>2, <1>5 DEF Whereabouts, Items, Kept
  <2>2. \A x \in Runners : InJob(x)' \subseteq held'
    BY <1>1, <1>2, <1>6 DEF Whereabouts, Items, Kept
  <2> QED
    BY <2>1, <2>2 DEF Kept
<1>8. Tracked'
  <2> SUFFICES ASSUME NEW d \in held, d \notin gone
               PROVE  \/ \E x \in Effects : d \in Rec(x)'
                      \/ \E x \in Runners : d \in InJob(x)'
                      \/ /\ Kind[d] # "plain"
                         /\ \E x \in Effects : setup[x] = "failed" /\ d \in ToSet(Yields[x])
    BY <1>1 DEF Tracked
  <2> QED
    BY <1>1, <1>2 DEF Whereabouts, Items, Tracked
<1> QED
  BY <1>4, <1>7, <1>8 DEF Items

----------------------------------------------------------------------------
(* The invariant is kept *)

LEMMA WithoutSubset ==
  ASSUME NEW S, NEW seq \in Seq(S), NEW x
  PROVE  ToSet(Without(seq, x)) \subseteq ToSet(seq)
<1>1. CASE x \notin ToSet(seq)
  BY <1>1 DEF Without
<1>2. CASE x \in ToSet(seq)
  <2> DEFINE at    == CHOOSE i \in DOMAIN seq : seq[i] = x
             front == SubSeq(seq, 1, at - 1)
             back  == SubSeq(seq, at + 1, Len(seq))
  <2>1. at \in 1..Len(seq)
    BY <1>2 DEF ToSet
  <2>2. Without(seq, x) = front \o back
    BY <1>2 DEF Without, RemoveAt
  <2>3. at - 1 \in 0..Len(seq) /\ at \in 0..Len(seq)
    BY <2>1
  <2> HIDE DEF at
  <2>4. front \in Seq(S) /\ ToSet(front) \subseteq ToSet(seq)
    BY <2>3, Split
  <2>5. back \in Seq(S) /\ ToSet(back) \subseteq ToSet(seq)
    BY <2>3, Split
  <2> HIDE DEF front, back
  <2> QED
    BY <2>2, <2>4, <2>5, ConcatSet
<1> QED
  BY <1>1, <1>2

\* What is to unwind stays to unwind, on a step that hands nothing over and runs
\* nothing.
LEMMA QuietStep ==
  ASSUME Whereabouts, UNCHANGED <<setup, yielded, disposers, disposed, job, held>>,
         loop' \in Runners \cup {None}, errors' \in [Runners -> SUBSET Disposers],
         order' \in Seq(Effects \cup Scopes), ids' \in [Scopes -> SUBSET Disposers],
         \A s \in Scopes : unwind'[s].pc # "done" => unwind[s].pc # "done" /\ ids'[s] = ids[s],
         \A s \in Scopes, e \in Effects : e \in Listing(s)' => e \in Listing(s),
         \A e \in Effects : ~disposed[e] /\ ToUnwind(e) => ToUnwind(e)',
         \A s \in Scopes : unwind'[s].pc = "child" => Head(unwind'[s].todo) \in Scopes
  PROVE  Whereabouts'
<1>1. WorkTypes'
  BY DEF Whereabouts, WorkTypes
<1>2. Staged'
  BY DEF Whereabouts, Staged
<1>3. Enlisted'
  BY DEF Whereabouts, Enlisted
<1>4. Items'
  BY ItemsAside DEF Whereabouts
<1> QED
  BY <1>1, <1>2, <1>3, <1>4 DEF Whereabouts

LEMMA ChildKeeps == ASSUME IInv, Whereabouts, NEW s \in Scopes, Child(s) PROVE Whereabouts'
<1>1. /\ ParentOf[s] \in Scopes /\ unwind[s].pc = "absent" /\ unwind[ParentOf[s]].pc = "open"
      /\ entries' = [entries EXCEPT ![ParentOf[s]] = Append(@, s)]
      /\ entries \in [Scopes -> Seq(Effects \cup Scopes)]
  BY ShapeAssumption DEF IInv, Shapes, TreeTypes, Child, Active
<1>2. /\ unwind'[s].pc = "open" /\ unwind'[s].todo = unwind[s].todo
      /\ \A x \in Scopes \ {s} : unwind'[x] = unwind[x]
  BY DEF Child, IInv, TreeTypes, UnwindType
<1> DEFINE S   == Effects \cup Scopes
           seq == entries[ParentOf[s]]
<1>3. seq \in Seq(S) /\ s \in S
  BY <1>1
<1>4. ToSet(Append(seq, s)) = ToSet(seq) \cup {s}
  <2> HIDE DEF S, seq
  <2> QED
    BY <1>3, AppendSet
<1>5. \A x \in Scopes, e \in Effects : e \in ToSet(entries'[x]) <=> e \in ToSet(entries[x])
  <2>1. s \notin Effects
    BY ShapeAssumption
  <2> QED
    BY <1>1, <1>4, <2>1
<1>6. \A e \in Effects : ToUnwind(e) => ToUnwind(e)'
  BY <1>1, <1>2, <1>5, ShapeAssumption DEF ToUnwind
<1>7. \A x \in Scopes, e \in Effects : e \in Listing(x)' => e \in Listing(x)
  BY <1>2, <1>5 DEF Listing
<1>8. order' \in Seq(Effects \cup Scopes)
  BY DEF Child, Whereabouts, WorkTypes
<1>9. UNCHANGED <<setup, yielded, disposers, disposed, job, held, loop, errors, ids>>
  BY DEF Child
<1>10. loop' \in Runners \cup {None} /\ errors' \in [Runners -> SUBSET Disposers]
      /\ ids' \in [Scopes -> SUBSET Disposers]
  BY <1>9 DEF Whereabouts, WorkTypes
<1>11. \A x \in Scopes : unwind'[x].pc # "done" => unwind[x].pc # "done" /\ ids'[x] = ids[x]
  BY <1>1, <1>2, <1>9
<1>12. \A x \in Scopes : unwind'[x].pc = "child" => Head(unwind'[x].todo) \in Scopes
  BY <1>2 DEF Whereabouts, Enlisted
<1> QED
  BY <1>6, <1>7, <1>8, <1>9, <1>10, <1>11, <1>12, QuietStep

LEMMA UnwindingKeeps ==
  ASSUME IInv, Whereabouts, NEW s \in Scopes,
         BeginUnwind(s) \/ UnwindChild(s) \/ ChildUnwound(s) \/ EndUnwind(s)
  PROVE  Whereabouts'
<1>1. UNCHANGED <<setup, yielded, disposers, disposed, job, held, order>>
  BY DEF BeginUnwind, UnwindChild, ChildUnwound, EndUnwind
<1>2. /\ loop' \in Runners \cup {None} /\ order' \in Seq(Effects \cup Scopes)
      /\ ids' \in [Scopes -> SUBSET Disposers]
  <2>1. loop' \in {None, s} /\ s \in Runners
    BY DEF BeginUnwind, UnwindChild, ChildUnwound, EndUnwind, Runners
  <2>2. ids' = ids \/ ids' = [ids EXCEPT ![s] = {}]
    BY DEF BeginUnwind, UnwindChild, ChildUnwound, EndUnwind
  <2> QED
    BY <1>1, <2>1, <2>2 DEF Whereabouts, WorkTypes
<1>3. unwind \in UnwindType /\ entries \in [Scopes -> Seq(Effects \cup Scopes)]
  BY DEF IInv, TreeTypes
<1>4. \A e \in Effects : Owner[e] \in Scopes /\ e \notin Scopes
  BY ShapeAssumption
<1>5. CASE BeginUnwind(s)
  <2> DEFINE seq == entries[s]
  <2>1. Reverse(seq) \in Seq(Effects \cup Scopes) /\ ToSet(Reverse(seq)) = ToSet(seq)
    BY <1>3, ReverseIsSeq
  <2>2. /\ unwind'[s].pc = "walk" /\ unwind'[s].todo = Reverse(seq)
        /\ \A x \in Scopes \ {s} : unwind'[x] = unwind[x]
    BY <1>3, <1>5, <2>1, Moved DEF BeginUnwind, InReverse
  <2>3. /\ unwind[s].pc = "spawned" /\ errors' = errors /\ ids' = ids
        /\ entries' = [entries EXCEPT ![s] = <<>>]
    BY <1>5 DEF BeginUnwind
  <2>4. entries'[s] = <<>> /\ \A x \in Scopes \ {s} : entries'[x] = entries[x]
    BY <1>3, <2>3
  <2>5. \A x \in Scopes : Listing(x)' \subseteq Listing(x)
    <3>1. ToSet(entries'[s]) = {}
      BY <2>4 DEF ToSet
    <3> QED
      BY <2>1, <2>2, <2>4, <3>1 DEF Listing
  <2> HIDE DEF seq
  <2>6. \A e \in Effects : ToUnwind(e) => ToUnwind(e)'
    BY <1>4, <2>1, <2>2, <2>3, <2>4 DEF ToUnwind, seq
  <2>7. \A x \in Scopes :
          /\ unwind'[x].pc # "done" => unwind[x].pc # "done" /\ ids'[x] = ids[x]
          /\ unwind'[x].pc = "child" => Head(unwind'[x].todo) \in Scopes
    BY <2>2, <2>3 DEF Whereabouts, Enlisted
  <2>8. errors' \in [Runners -> SUBSET Disposers]
    BY <2>3 DEF Whereabouts, WorkTypes
  <2> QED
    BY <1>1, <1>2, <2>5, <2>6, <2>7, <2>8, QuietStep
<1>6. CASE UnwindChild(s)
  <2> DEFINE c == Head(unwind[s].todo)
  <2>1. /\ unwind[s].pc = "walk" /\ c \in Scopes
        /\ UNCHANGED <<entries, errors, ids>>
    BY <1>6 DEF UnwindChild, AtEntry
  <2>2. unwind' = CalledChildOf(unwind, s, c)
    BY <1>6 DEF UnwindChild, CalledChildOf
  <2> HIDE DEF c
  <2>3. \A x \in Scopes :
          /\ unwind'[x].todo = unwind[x].todo
          /\ \/ unwind'[x].pc = unwind[x].pc
             \/ unwind[x].pc = "open" /\ unwind'[x].pc = "spawned"
             \/ x = s /\ unwind'[x].pc = "child"
    BY <1>3, <2>1, <2>2, CalledChild
  <2>4. \A e \in Effects : ToUnwind(e) => ToUnwind(e)'
    BY <1>4, <2>1, <2>3 DEF ToUnwind
  <2>5. \A x \in Scopes :
          /\ unwind'[x].pc # "done" => unwind[x].pc # "done" /\ ids'[x] = ids[x]
          /\ unwind'[x].pc = "child" => Head(unwind'[x].todo) \in Scopes
    BY <2>1, <2>3 DEF Whereabouts, Enlisted, c
  <2>6. errors' \in [Runners -> SUBSET Disposers]
    BY <2>1 DEF Whereabouts, WorkTypes
  <2>7. \A x \in Scopes : Listing(x)' = Listing(x)
    BY <2>1, <2>3 DEF Listing
  <2> QED
    BY <1>1, <1>2, <2>4, <2>5, <2>6, <2>7, QuietStep
<1>7. CASE ChildUnwound(s)
  <2> DEFINE c   == Head(unwind[s].todo)
             seq == unwind[s].todo
  <2>1. /\ unwind[s].pc = "child" /\ c \in Scopes /\ seq # <<>>
        /\ seq \in Seq(Effects \cup Scopes)
        /\ UNCHANGED <<entries, ids>>
        /\ errors' = [errors EXCEPT ![s] = @ \cup errors[c]]
        /\ unwind' = [unwind EXCEPT ![s] = [pc |-> "walk", todo |-> Tail(seq)]]
    BY <1>3, <1>7 DEF ChildUnwound, Whereabouts, Enlisted, IInv, Shapes, UnwindType
  <2>2. Tail(seq) \in Seq(Effects \cup Scopes) /\ ToSet(seq) = {c} \cup ToSet(Tail(seq))
    BY <2>1, TailSet
  <2>3. /\ unwind'[s].pc = "walk" /\ unwind'[s].todo = Tail(seq)
        /\ \A x \in Scopes \ {s} : unwind'[x] = unwind[x]
    BY <1>3, <2>1, <2>2, Moved
  <2> HIDE DEF c
  <2>4. errors' \in [Runners -> SUBSET Disposers]
    BY <2>1 DEF Whereabouts, WorkTypes, Runners
  <2>5. \A x \in Scopes : Listing(x)' \subseteq Listing(x)
    BY <2>1, <2>2, <2>3 DEF Listing
  <2>6. \A e \in Effects : e \in ToSet(seq) => e \in ToSet(Tail(seq))
    BY <1>4, <2>1, <2>2
  <2> HIDE DEF seq
  <2>7. \A e \in Effects : ToUnwind(e) => ToUnwind(e)'
    BY <1>4, <2>1, <2>3, <2>6 DEF ToUnwind, seq
  <2>8. \A x \in Scopes :
          /\ unwind'[x].pc # "done" => unwind[x].pc # "done" /\ ids'[x] = ids[x]
          /\ unwind'[x].pc = "child" => Head(unwind'[x].todo) \in Scopes
    BY <2>1, <2>3 DEF Whereabouts, Enlisted
  <2> QED
    BY <1>1, <1>2, <2>4, <2>7, <2>8, <2>5, QuietStep
<1>8. CASE EndUnwind(s)
  <2>1. /\ unwind[s].pc = "walk" /\ unwind[s].todo = <<>>
        /\ unwind' = [unwind EXCEPT ![s].pc = "done"]
        /\ ids' = [ids EXCEPT ![s] = {}]
        /\ UNCHANGED <<entries, errors>>
    BY <1>8 DEF EndUnwind, AtEntry
  <2>2. /\ unwind'[s].pc = "done"
        /\ \A x \in Scopes \ {s} : unwind'[x] = unwind[x] /\ ids'[x] = ids[x]
    BY <1>3, <2>1 DEF UnwindType, Whereabouts, WorkTypes
  <2>3. \A e \in Effects : ToUnwind(e) => Owner[e] # s
    BY <2>1 DEF ToUnwind, ToSet
  <2>4. \A e \in Effects : ToUnwind(e) => ToUnwind(e)'
    BY <1>4, <2>1, <2>2, <2>3 DEF ToUnwind
  <2>5. \A x \in Scopes :
          /\ unwind'[x].pc # "done" => unwind[x].pc # "done" /\ ids'[x] = ids[x]
          /\ unwind'[x].pc = "child" => Head(unwind'[x].todo) \in Scopes
    BY <2>2 DEF Whereabouts, Enlisted
  <2>6. errors' \in [Runners -> SUBSET Disposers]
    BY <2>1 DEF Whereabouts, WorkTypes
  <2>7. \A x \in Scopes : Listing(x)' = Listing(x)
    <3>1. \A x \in Scopes : unwind'[x].todo = unwind[x].todo
      BY <1>3, <2>1 DEF UnwindType
    <3> QED
      BY <2>1, <3>1 DEF Listing
  <2> QED
    BY <1>1, <1>2, <2>4, <2>5, <2>6, <2>7, QuietStep
<1> QED
  BY <1>5, <1>6, <1>7, <1>8

LEMMA CallerKeeps ==
  ASSUME IInv, Whereabouts, NEW c \in Callers,
         Cancel(c) \/ DisposeReturns(c) \/ \E s \in Scopes : Dispose(c, s)
  PROVE  Whereabouts'
<1>1. UNCHANGED <<loop, entries, ids, setup, yielded, disposers, disposed, job, errors, held, order>>
  BY DEF Cancel, DisposeReturns, Dispose
<1>2. \A x \in Scopes :
        /\ unwind'[x].todo = unwind[x].todo
        /\ unwind'[x].pc = unwind[x].pc \/ (unwind[x].pc = "open" /\ unwind'[x].pc = "spawned")
  <2>1. CASE Cancel(c) \/ DisposeReturns(c)
    BY <2>1 DEF Cancel, DisposeReturns
  <2>2. CASE \E s \in Scopes : Dispose(c, s)
    BY <2>2, Closed DEF Dispose, IInv, TreeTypes
  <2> QED
    BY <2>1, <2>2
<1>3. \A e \in Effects : ToUnwind(e) => ToUnwind(e)'
  BY <1>1, <1>2, ShapeAssumption DEF ToUnwind
<1>4. \A x \in Scopes :
        /\ unwind'[x].pc # "done" => unwind[x].pc # "done" /\ ids'[x] = ids[x]
        /\ unwind'[x].pc = "child" => Head(unwind'[x].todo) \in Scopes
  BY <1>1, <1>2 DEF Whereabouts, Enlisted
<1>5. /\ loop' \in Runners \cup {None} /\ errors' \in [Runners -> SUBSET Disposers]
      /\ order' \in Seq(Effects \cup Scopes) /\ ids' \in [Scopes -> SUBSET Disposers]
  BY <1>1 DEF Whereabouts, WorkTypes
<1>6. \A x \in Scopes : Listing(x)' = Listing(x)
  BY <1>1, <1>2 DEF Listing
<1> QED
  BY <1>1, <1>3, <1>4, <1>5, <1>6, QuietStep

\* An effect is registered, or the setup of a registered one goes on: what is
\* listed stays listed.
LEMMA SetupStep ==
  ASSUME Whereabouts, WorkTypes', Items', NEW e \in Effects, UNCHANGED <<disposed, unwind>>,
         \A x \in Effects \ {e} :
           UNCHANGED <<setup[x], yielded[x], disposers[x]>>,
         setup'[e] # "none", setup'[e] = "failed" => disposers'[e] = <<>>,
         \A s \in Scopes : ToSet(entries'[s]) \subseteq ToSet(entries[s]) \cup {e},
         \A s \in Scopes : e \in ToSet(entries'[s]) => s = Owner[e],
         \A x \in Effects \ {e} : \A s \in Scopes :
           x \in ToSet(entries[s]) => x \in ToSet(entries'[s]),
         \A s \in Scopes : e \in ToSet(unwind[s].todo) => s = Owner[e],
         setup'[e] # "failed" /\ ~disposed[e] => ToUnwind(e)'
  PROVE  Whereabouts'
<1>1. Staged'
  <2>1. ASSUME NEW x \in Effects
        PROVE  /\ setup'[x] = "none" => yielded'[x] = 0 /\ ~disposed'[x]
               /\ setup'[x] \in {"none", "failed"} => disposers'[x] = <<>>
    BY DEF Whereabouts, Staged
  <2>2. ASSUME NEW x \in Effects, NEW s \in Scopes, x \in Listing(s)'
        PROVE  Owner[x] = s /\ setup'[x] # "none"
    BY <2>2 DEF Listing, Whereabouts, Staged
  <2> QED
    BY <2>1, <2>2 DEF Staged
<1>2. Enlisted'
  <2>1. ASSUME NEW x \in Effects, setup'[x] \in {"running", "done"}, ~disposed[x]
        PROVE  ToUnwind(x)'
    <3>1. CASE x = e
      BY <2>1, <3>1
    <3>2. CASE x # e
      <4>1. ToUnwind(x)
        BY <2>1, <3>2 DEF Whereabouts, Enlisted
      <4> QED
        BY <3>2, <4>1, ShapeAssumption DEF ToUnwind
    <3> QED
      BY <3>1, <3>2
  <2> QED
    BY <2>1 DEF Whereabouts, Enlisted
<1> QED
  BY <1>1, <1>2 DEF Whereabouts

\* What is added to the list of a scope.
LEMMA Joins ==
  ASSUME IInv, NEW e \in Effects, entries' = [entries EXCEPT ![Owner[e]] = Append(@, e)]
  PROVE  /\ ToSet(entries'[Owner[e]]) = ToSet(entries[Owner[e]]) \cup {e}
         /\ \A s \in Scopes \ {Owner[e]} : entries'[s] = entries[s]
<1> DEFINE S   == Effects \cup Scopes
           seq == entries[Owner[e]]
<1>1. Owner[e] \in Scopes /\ entries \in [Scopes -> Seq(S)]
  BY ShapeAssumption DEF IInv, TreeTypes
<1>2. seq \in Seq(S) /\ e \in S
  BY <1>1
<1>3. ToSet(Append(seq, e)) = ToSet(seq) \cup {e}
  <2> HIDE DEF S, seq
  <2> QED
    BY <1>2, AppendSet
<1> QED
  BY <1>1, <1>3

\* And what is taken from it.
LEMMA Leaves ==
  ASSUME IInv, NEW e \in Effects, entries' = [entries EXCEPT ![Owner[e]] = Without(@, e)]
  PROVE  /\ ToSet(entries'[Owner[e]]) \subseteq ToSet(entries[Owner[e]])
         /\ \A x : x # e /\ x \in ToSet(entries[Owner[e]]) => x \in ToSet(entries'[Owner[e]])
         /\ \A s \in Scopes \ {Owner[e]} : entries'[s] = entries[s]
<1>1. Owner[e] \in Scopes /\ entries \in [Scopes -> Seq(Effects \cup Scopes)]
  BY ShapeAssumption DEF IInv, TreeTypes
<1>2. entries[Owner[e]] \in Seq(Effects \cup Scopes)
  BY <1>1
<1>3. /\ ToSet(Without(entries[Owner[e]], e)) \subseteq ToSet(entries[Owner[e]])
      /\ \A x : x # e /\ x \in ToSet(entries[Owner[e]]) => x \in ToSet(Without(entries[Owner[e]], e))
  BY <1>2, WithoutSubset, WithoutSet
<1>4. entries'[Owner[e]] = Without(entries[Owner[e]], e)
      /\ \A s \in Scopes \ {Owner[e]} : entries'[s] = entries[s]
  BY <1>1
<1> QED
  BY <1>3, <1>4

LEMMA RegisteringKeeps ==
  ASSUME IInv, Idle, Whereabouts, SharedPlainly, NEW e \in Effects, Registering(e)
  PROVE  Whereabouts'
<1>1. /\ Owner[e] \in Scopes /\ unwind[Owner[e]].pc = "open" /\ setup[e] = "none"
      /\ UNCHANGED <<disposed, unwind, job, errors, loop>>
  BY ShapeAssumption DEF Registering, RegisterSync, RegisterRaises, RegisterAsync, Register, Active
<1>2. /\ yielded[e] = 0 /\ disposers[e] = <<>> /\ ~disposed[e]
      /\ \A s \in Scopes : e \notin ToSet(entries[s]) /\ e \notin ToSet(unwind[s].todo)
  BY <1>1 DEF Whereabouts, Staged, Listing
<1>3. Len(Yields[e]) \in Nat /\ yielded[e] <= Len(Yields[e])
  BY ShapeAssumption DEF Whereabouts, WorkTypes
<1>4. order' = Append(order, e) \/ order' = order
  BY DEF Registering, RegisterSync, RegisterRaises, RegisterAsync
<1>5. order' \in Seq(Effects \cup Scopes)
  <2>1. order \in Seq(Effects \cup Scopes) /\ e \in Effects \cup Scopes
    BY DEF Whereabouts, WorkTypes
  <2> QED
    BY ONLY <1>4, <2>1
<1>6. CASE RegisterSync(e)
  <2>1. /\ Record(e, Len(Yields[e])) /\ setup' = [setup EXCEPT ![e] = "done"]
        /\ entries' = [entries EXCEPT ![Owner[e]] = Append(@, e)]
    BY <1>6 DEF RegisterSync
  <2>2. Items'
    <3>1. \A x \in Effects : setup[x] = "failed" => setup'[x] = "failed"
      BY <1>1, <2>1 DEF Whereabouts, WorkTypes
    <3> QED
      BY <1>1, <1>3, <2>1, <3>1, ItemsRecord
  <2>3. WorkTypes'
    BY <1>1, <1>3, <1>5, <2>1, RecordStep DEF Whereabouts, WorkTypes
  <2>4. \A x \in Effects \ {e} : UNCHANGED <<setup[x], yielded[x], disposers[x]>>
    BY <1>3, <2>1, RecordStep DEF Whereabouts
  <2>5. setup'[e] = "done"
    BY <2>1 DEF Whereabouts, WorkTypes
  <2>6. /\ ToSet(entries'[Owner[e]]) = ToSet(entries[Owner[e]]) \cup {e}
        /\ \A s \in Scopes \ {Owner[e]} : entries'[s] = entries[s]
    BY <2>1, Joins
  <2>7. ToUnwind(e)'
    BY <1>1, <2>6 DEF ToUnwind
  <2> QED
    BY <1>1, <1>2, <2>2, <2>3, <2>4, <2>5, <2>6, <2>7, SetupStep
<1>7. CASE RegisterRaises(e)
  <2>1. PICK n \in 0..Len(Yields[e]) :
          /\ Rollback(e, Recorded(e, 1, n))
          /\ yielded' = [yielded EXCEPT ![e] = n]
    BY <1>7 DEF RegisterRaises
  <2> DEFINE own == Recorded(e, 1, n)
  <2>2. setup' = [setup EXCEPT ![e] = "failed"] /\ entries' = entries
    BY <1>7 DEF RegisterRaises
  <2>3. /\ own \in Seq(Disposers)
        /\ ToSet(own) = {Yields[e][k] : k \in 1..n} \ ({None} \cup ids[Owner[e]])
    BY RecordedFacts
  <2>4. ToSet(own) \subseteq ToSet(Yields[e])
    <3>1. DOMAIN Yields[e] = 1..Len(Yields[e]) /\ \A k \in 1..n : k \in 1..Len(Yields[e])
      BY <1>3, ShapeAssumption
    <3> QED
      BY <2>3, <3>1 DEF ToSet
  <2>5. /\ Rec(e) = {} /\ InJob(e) = {}
        /\ ToSet(own) \cap InJob(Owner[e]) = {}
        /\ \A f \in Effects \ {e} : Owner[f] = Owner[e] => ToSet(own) \cap Rec(f) = {}
    <3>1. ToSet(own) \cap ids[Owner[e]] = {}
      BY <2>3
    <3>2. /\ InJob(Owner[e]) \subseteq ids[Owner[e]]
          /\ \A f \in Effects : Owner[f] = Owner[e] => Rec(f) \subseteq ids[Owner[e]]
      BY <1>1 DEF Whereabouts, Items, Listed
    <3>3. InJob(e) = {} /\ Rec(e) = {}
      BY <1>2 DEF Whereabouts, Items, Sourced, Rec, ToSet
    <3> HIDE DEF own
    <3> QED
      BY <3>1, <3>2, <3>3
  <2> HIDE DEF own
  <2>6. Rollback(e, own)
    BY <2>1 DEF own
  <2>7. /\ yielded' \in [Effects -> Nat] /\ yielded[e] <= yielded'[e]
        /\ \A x \in Effects \ {e} : yielded'[x] = yielded[x]
        /\ \A x \in Effects : yielded'[x] <= Len(Yields[x])
    BY <1>2, <1>3, <2>1 DEF Whereabouts, WorkTypes
  <2>8. setup'[e] = "failed" /\ \A x \in Effects \ {e} : setup'[x] = setup[x]
    BY <2>2 DEF Whereabouts, WorkTypes
  <2>9. Items'
    BY <1>1, <2>3, <2>4, <2>5, <2>6, <2>7, <2>8, ItemsRollback
  <2>10. /\ disposers' \in [Effects -> Seq(Disposers)] /\ disposers'[e] = <<>>
         /\ \A x \in Effects \ {e} : disposers'[x] = disposers[x]
         /\ ids' \in [Scopes -> SUBSET Disposers] /\ held' \in SUBSET Disposers
    BY <2>3, <2>6, RollbackStep DEF Whereabouts
  <2>11. WorkTypes'
    BY <1>1, <1>5, <2>2, <2>7, <2>10 DEF Whereabouts, WorkTypes
  <2> QED
    BY <1>1, <1>2, <2>2, <2>7, <2>8, <2>9, <2>10, <2>11, SetupStep
<1>8. CASE RegisterAsync(e)
  <2>1. /\ setup' = [setup EXCEPT ![e] = "running"]
        /\ entries' = [entries EXCEPT ![Owner[e]] = Append(@, e)]
        /\ UNCHANGED <<ids, yielded, disposers, held>>
    BY <1>8 DEF RegisterAsync
  <2>2. setup'[e] = "running" /\ \A x \in Effects \ {e} : setup'[x] = setup[x]
    BY <2>1 DEF Whereabouts, WorkTypes
  <2>3. Items'
    BY <1>1, <2>1, <2>2, ItemsAside DEF Whereabouts
  <2>4. WorkTypes'
    BY <1>1, <1>5, <2>1 DEF Whereabouts, WorkTypes
  <2>5. /\ ToSet(entries'[Owner[e]]) = ToSet(entries[Owner[e]]) \cup {e}
        /\ \A s \in Scopes \ {Owner[e]} : entries'[s] = entries[s]
    BY <2>1, Joins
  <2>6. ToUnwind(e)'
    BY <1>1, <2>5 DEF ToUnwind
  <2> QED
    BY <1>1, <1>2, <2>1, <2>2, <2>3, <2>4, <2>5, <2>6, SetupStep
<1> QED
  BY <1>6, <1>7, <1>8 DEF Registering

LEMMA SettingKeeps ==
  ASSUME IInv, Idle, Whereabouts, SharedPlainly, NEW e \in Effects, Setting(e)
  PROVE  Whereabouts'
<1>1. /\ Owner[e] \in Scopes /\ setup[e] = "running"
      /\ UNCHANGED <<disposed, unwind, job, errors, loop, order>>
  BY ShapeAssumption DEF Setting, SetupYields, SetupDone, SetupRaises
<1>2. \A s \in Scopes : e \in ToSet(entries[s]) \/ e \in ToSet(unwind[s].todo) => s = Owner[e]
  BY DEF Whereabouts, Staged, Listing
<1>3. ~disposed[e] => ToUnwind(e)
  BY <1>1 DEF Whereabouts, Enlisted
<1>4. Len(Yields[e]) \in Nat /\ yielded[e] \in Nat /\ yielded[e] <= Len(Yields[e])
  BY ShapeAssumption DEF Whereabouts, WorkTypes
<1>5. CASE SetupYields(e)
  <2>1. entries' = entries /\ setup' = setup
    BY <1>5 DEF SetupYields
  <2> DEFINE j == IF Shape[e] = "iterator" THEN yielded[e] + 1 ELSE Len(Yields[e])
  <2>2. Record(e, j) /\ j \in Nat /\ yielded[e] <= j /\ j <= Len(Yields[e])
    BY <1>4, <1>5 DEF SetupYields
  <2> HIDE DEF j
  <2>3. Items'
    BY <1>1, <2>1, <2>2, ItemsRecord
  <2>4. WorkTypes'
    BY <1>1, <2>1, <2>2, RecordStep DEF Whereabouts, WorkTypes
  <2>5. \A x \in Effects \ {e} : yielded'[x] = yielded[x] /\ disposers'[x] = disposers[x]
    BY <2>2, RecordStep DEF Whereabouts
  <2>6. ToUnwind(e) => ToUnwind(e)'
    BY <1>1, <2>1 DEF ToUnwind
  <2> QED
    BY <1>1, <1>2, <1>3, <2>1, <2>3, <2>4, <2>5, <2>6, SetupStep
<1>6. CASE SetupDone(e)
  <2>1. setup' = [setup EXCEPT ![e] = "done"]
        /\ UNCHANGED <<entries, ids, yielded, disposers, held>>
    BY <1>6 DEF SetupDone
  <2>2. setup'[e] = "done" /\ \A x \in Effects \ {e} : setup'[x] = setup[x]
    BY <2>1 DEF Whereabouts, WorkTypes
  <2>3. Items'
    BY <1>1, <2>1, <2>2, ItemsAside DEF Whereabouts
  <2>4. WorkTypes'
    BY <1>1, <2>1 DEF Whereabouts, WorkTypes
  <2>5. ToUnwind(e) => ToUnwind(e)'
    BY <1>1, <2>1 DEF ToUnwind
  <2> QED
    BY <1>1, <1>2, <1>3, <2>1, <2>2, <2>3, <2>4, <2>5, SetupStep
<1>7. CASE SetupRaises(e)
  <2>1. /\ Rollback(e, disposers[e]) /\ yielded' = yielded
        /\ setup' = [setup EXCEPT ![e] = "failed"]
        /\ entries' = [entries EXCEPT ![Owner[e]] = Without(@, e)]
    BY <1>7 DEF SetupRaises
  <2>2. setup'[e] = "failed" /\ \A x \in Effects \ {e} : setup'[x] = setup[x]
    BY <2>1 DEF Whereabouts, WorkTypes
  <2>3. /\ disposers[e] \in Seq(Disposers) /\ ToSet(disposers[e]) = Rec(e)
        /\ Rec(e) \subseteq ToSet(Yields[e])
        /\ Rec(e) \cap InJob(e) = {} /\ Rec(e) \cap InJob(Owner[e]) = {}
        /\ \A f \in Effects \ {e} : Owner[f] = Owner[e] /\ unwind[Owner[e]].pc # "done" =>
             Rec(e) \cap Rec(f) = {}
    <3>1. disposers[e] \in Seq(Disposers) /\ ToSet(disposers[e]) = Rec(e)
      BY DEF Whereabouts, WorkTypes, Rec
    <3>2. Rec(e) \subseteq ToSet(Yields[e])
      BY Sets DEF Whereabouts, Items, Sourced
    <3> QED
      BY <3>1, <3>2 DEF Whereabouts, Items, Alone
  <2>4. yielded' \in [Effects -> Nat] /\ yielded[e] <= yielded'[e]
    BY <1>4, <2>1 DEF Whereabouts, WorkTypes
  <2>5. Items'
    BY <1>1, <2>1, <2>2, <2>3, <2>4, ItemsRollback
  <2>6. /\ disposers' \in [Effects -> Seq(Disposers)] /\ disposers'[e] = <<>>
        /\ \A x \in Effects \ {e} : disposers'[x] = disposers[x]
        /\ ids' \in [Scopes -> SUBSET Disposers] /\ held' \in SUBSET Disposers
    BY <2>1, <2>3, RollbackStep DEF Whereabouts
  <2>7. WorkTypes'
    BY <1>1, <2>1, <2>6 DEF Whereabouts, WorkTypes
  <2>8. /\ ToSet(entries'[Owner[e]]) \subseteq ToSet(entries[Owner[e]])
        /\ \A x : x # e /\ x \in ToSet(entries[Owner[e]]) => x \in ToSet(entries'[Owner[e]])
        /\ \A s \in Scopes \ {Owner[e]} : entries'[s] = entries[s]
    BY <2>1, Leaves
  <2> QED
    BY <1>1, <1>2, <2>1, <2>2, <2>5, <2>6, <2>7, <2>8, SetupStep
<1> QED
  BY <1>5, <1>6, <1>7 DEF Setting

LEMMA HandleKeeps ==
  ASSUME IInv, Whereabouts, SharedPlainly, NEW e \in Effects, CallHandle(e)
  PROVE  Whereabouts'
<1>1. /\ e \in Handled /\ setup[e] \in {"running", "done"} /\ ~disposed[e] /\ Take(e, e)
      /\ entries' = [entries EXCEPT ![Owner[e]] = Without(@, e)]
      /\ ids' = [ids EXCEPT ![Owner[e]] = @ \ Rec(e)]
      /\ loop' \in {None, e}
      /\ UNCHANGED <<setup, yielded, unwind, errors, held, order>>
  BY DEF CallHandle, Rec
<1>2. e \in Runners /\ Owner[e] \in Scopes
  BY ShapeAssumption DEF Runners
<1>3. InJob(e) = {}
  BY <1>1 DEF Whereabouts, Items, Sourced
<1>4. Items'
  BY <1>1, <1>2, <1>3, ItemsTake
<1>5. /\ job' \in JobType
      /\ disposed' \in [Effects -> BOOLEAN] /\ disposed'[e]
      /\ \A x \in Effects \ {e} : disposed'[x] = disposed[x]
      /\ disposers' \in [Effects -> Seq(Disposers)] /\ disposers'[e] = <<>>
      /\ \A x \in Effects \ {e} : disposers'[x] = disposers[x]
  BY <1>1, <1>2, TakeStep DEF Whereabouts
<1>6. WorkTypes'
  BY <1>1, <1>2, <1>5 DEF Whereabouts, WorkTypes
<1>7. /\ ToSet(entries'[Owner[e]]) \subseteq ToSet(entries[Owner[e]])
      /\ \A x : x # e /\ x \in ToSet(entries[Owner[e]]) => x \in ToSet(entries'[Owner[e]])
      /\ \A s \in Scopes \ {Owner[e]} : entries'[s] = entries[s]
  BY <1>1, Leaves
<1>8. Staged'
  BY <1>1, <1>5, <1>7 DEF Whereabouts, Staged, Listing
<1>9. Enlisted'
  <2>1. ASSUME NEW x \in Effects, setup[x] \in {"running", "done"}, ~disposed'[x]
        PROVE  ToUnwind(x)'
    <3>1. x # e /\ ToUnwind(x)
      BY <1>5, <2>1 DEF Whereabouts, Enlisted
    <3> QED
      BY <1>1, <1>7, <3>1, ShapeAssumption DEF ToUnwind
  <2> QED
    BY <1>1, <2>1 DEF Whereabouts, Enlisted
<1> QED
  BY <1>4, <1>6, <1>8, <1>9 DEF Whereabouts

LEMMA WalkKeeps ==
  ASSUME IInv, Whereabouts, SharedPlainly, NEW s \in Scopes, UnwindEffect(s)
  PROVE  Whereabouts'
<1> DEFINE e   == Head(unwind[s].todo)
           seq == unwind[s].todo
<1>1. /\ unwind[s].pc = "walk" /\ job[s] = NoJob /\ seq # <<>> /\ e \in Effects
      /\ unwind' = [unwind EXCEPT ![s].todo = Tail(@)] /\ loop' = s
      /\ UNCHANGED <<entries, ids, setup, yielded, errors, held, order>>
  BY DEF UnwindEffect, AtEntry
<1>2. \/ disposed[e] /\ UNCHANGED <<disposed, job, disposers>>
      \/ ~disposed[e] /\ Take(s, e)
  BY DEF UnwindEffect
<1>3. unwind \in UnwindType /\ s \in Runners /\ \A x \in Effects : Owner[x] \in Scopes
  BY ShapeAssumption DEF IInv, TreeTypes, Runners
<1>4. seq \in Seq(Effects \cup Scopes)
  BY <1>3 DEF UnwindType
<1>5. ToSet(seq) = {e} \cup ToSet(Tail(seq))
  BY <1>1, <1>4, TailSet
<1>6. /\ \A x \in Scopes : unwind'[x].pc = unwind[x].pc
      /\ unwind'[s].todo = Tail(seq) /\ \A x \in Scopes \ {s} : unwind'[x] = unwind[x]
  BY <1>1, <1>3 DEF UnwindType
<1> HIDE DEF e, seq
<1>7. Owner[e] = s
  <2>1. e \in Listing(s)
    BY <1>5 DEF Listing, seq
  <2> QED
    BY <1>1, <2>1 DEF Whereabouts, Staged
<1>8. \A x \in Scopes : Listing(x)' \subseteq Listing(x)
  BY <1>1, <1>5, <1>6 DEF Listing, seq
<1>9. \A x \in Effects \ {e} : ToUnwind(x) => ToUnwind(x)'
  BY <1>1, <1>3, <1>5, <1>6 DEF ToUnwind, seq
<1>10. \A x \in Scopes : unwind'[x].pc = "child" => Head(unwind'[x].todo) \in Scopes
  BY <1>1, <1>6 DEF Whereabouts, Enlisted
<1>11. CASE disposed[e] /\ UNCHANGED <<disposed, job, disposers>>
  <2>1. /\ loop' \in Runners \cup {None} /\ errors' \in [Runners -> SUBSET Disposers]
        /\ order' \in Seq(Effects \cup Scopes) /\ ids' \in [Scopes -> SUBSET Disposers]
    BY <1>1, <1>3 DEF Whereabouts, WorkTypes
  <2>2. \A x \in Scopes : unwind'[x].pc # "done" => unwind[x].pc # "done" /\ ids'[x] = ids[x]
    BY <1>1, <1>6
  <2>3. \A x \in Effects : ~disposed[x] /\ ToUnwind(x) => ToUnwind(x)'
    BY <1>9, <1>11
  <2> QED
    BY <1>1, <1>8, <1>10, <1>11, <2>1, <2>2, <2>3, QuietStep
<1>12. CASE ~disposed[e] /\ Take(s, e)
  <2>1. InJob(s) = {}
    BY <1>1 DEF InJob, NoJob, ToSet
  <2>2. Items'
    BY <1>1, <1>3, <1>6, <1>7, <1>12, <2>1, ItemsTake
  <2>3. /\ job' \in JobType
        /\ disposed' \in [Effects -> BOOLEAN] /\ disposed'[e]
        /\ \A x \in Effects \ {e} : disposed'[x] = disposed[x]
        /\ disposers' \in [Effects -> Seq(Disposers)] /\ disposers'[e] = <<>>
        /\ \A x \in Effects \ {e} : disposers'[x] = disposers[x]
    BY <1>1, <1>3, <1>12, TakeStep DEF Whereabouts
  <2>4. WorkTypes'
    BY <1>1, <1>3, <2>3 DEF Whereabouts, WorkTypes
  <2>5. setup[e] # "none"
    BY <1>1, <1>5, <1>7 DEF Whereabouts, Staged, Listing, seq
  <2>6. Staged'
    BY <1>1, <1>8, <2>3, <2>5 DEF Whereabouts, Staged
  <2>7. Enlisted'
    BY <1>1, <1>9, <1>10, <2>3 DEF Whereabouts, Enlisted
  <2> QED
    BY <2>2, <2>4, <2>6, <2>7 DEF Whereabouts
<1> QED
  BY <1>2, <1>11, <1>12

LEMMA RunningKeeps ==
  ASSUME Whereabouts, SharedPlainly, NEW r \in Runners, Running(r)
  PROVE  Whereabouts'
<1>1. UNCHANGED <<entries, ids, setup, yielded, disposers, disposed, unwind, order>>
  BY DEF Running, CallBatch, DisposerDone
<1>2. Items'
  BY <1>1, ItemsRun
<1>3. /\ job' \in JobType /\ errors' \in [Runners -> SUBSET Disposers]
      /\ loop' \in Runners \cup {None} /\ held' \in SUBSET Disposers
  BY RunStep DEF Whereabouts, WorkTypes, Items
<1>4. WorkTypes'
  BY <1>1, <1>3 DEF Whereabouts, WorkTypes
<1>5. Staged' /\ Enlisted'
  BY <1>1 DEF Whereabouts, Staged, Listing, Enlisted, ToUnwind
<1> QED
  BY <1>2, <1>4, <1>5 DEF Whereabouts

LEMMA StepWhereabouts ==
  ASSUME SharedPlainly, IInv, Idle, Whereabouts, [Next]_vars
  PROVE  Whereabouts'
<1>1. ASSUME UNCHANGED <<entries, ids, setup, yielded, disposers, disposed, unwind, job, errors,
                         held, order>>,
             loop' \in Runners \cup {None}
      PROVE  Whereabouts'
  <2>1. /\ \A s \in Scopes : Listing(s)' = Listing(s)
        /\ \A e \in Effects : ToUnwind(e)' = ToUnwind(e)
    BY <1>1 DEF Listing, ToUnwind
  <2>2. /\ errors' \in [Runners -> SUBSET Disposers] /\ order' \in Seq(Effects \cup Scopes)
        /\ ids' \in [Scopes -> SUBSET Disposers]
    BY <1>1 DEF Whereabouts, WorkTypes
  <2>3. \A s \in Scopes : unwind'[s].pc = "child" => Head(unwind'[s].todo) \in Scopes
    BY <1>1 DEF Whereabouts, Enlisted
  <2> QED
    BY <1>1, <2>1, <2>2, <2>3, QuietStep
<1>2. ASSUME NEW s \in Scopes, Child(s) \/ Unwinding(s) PROVE Whereabouts'
  BY <1>2, ChildKeeps, UnwindingKeeps, WalkKeeps DEF Unwinding
<1>3. ASSUME NEW e \in Effects, Registering(e) \/ Setting(e) \/ CallHandle(e) PROVE Whereabouts'
  BY <1>3, RegisteringKeeps, SettingKeeps, HandleKeeps
<1>4. ASSUME NEW e \in Effects, HandleReturns(e) PROVE Whereabouts'
  BY <1>1, <1>4 DEF HandleReturns
<1>5. ASSUME NEW r \in Runners, Running(r) PROVE Whereabouts'
  BY <1>5, RunningKeeps
<1>6. ASSUME NEW c \in Callers,
             Cancel(c) \/ DisposeReturns(c) \/ \E s \in Scopes : Dispose(c, s)
      PROVE  Whereabouts'
  BY <1>6, CallerKeeps
<1>7. CASE UNCHANGED vars
  BY <1>1, <1>7 DEF vars, Whereabouts, WorkTypes
<1> QED
  BY <1>2, <1>3, <1>4, <1>5, <1>6, <1>7 DEF Next

LEMMA InitWhereabouts == Init => Whereabouts
<1> SUFFICES ASSUME Init PROVE Whereabouts
  OBVIOUS
<1>1. /\ \A e \in Effects : disposers[e] = <<>> /\ setup[e] = "none" /\ yielded[e] = 0 /\ ~disposed[e]
      /\ \A s \in Scopes : entries[s] = <<>> /\ unwind[s].todo = <<>>
                           /\ unwind[s].pc \in {"open", "absent"}
      /\ \A r \in Runners : job[r] = [queue |-> <<>>, inflight |-> {}]
      /\ held = {}
  BY DEF Init, NoJob
<1>2. ToSet(<<>>) = {} /\ Once(<<>>)
  BY DEF ToSet, Once
<1>3. (\A e \in Effects : Rec(e) = {}) /\ (\A r \in Runners : InJob(r) = {})
  BY <1>1, <1>2 DEF Rec, InJob
<1>4. WorkTypes
  <2>1. \A e \in Effects : Len(Yields[e]) \in Nat
    BY ShapeAssumption
  <2>2. job \in JobType
    BY DEF Init, NoJob, JobType
  <2> QED
    BY <2>1, <2>2 DEF Init, WorkTypes
<1>5. Staged /\ Enlisted
  BY <1>1, <1>2 DEF Staged, Listing, Enlisted
<1>6. Items
  <2>1. \A e \in Effects : e \in Runners /\ Owner[e] \in Runners
    BY ShapeAssumption DEF Runners
  <2>2. Sourced /\ Listed
    BY <1>3, <2>1 DEF Sourced, Listed, Runners
  <2>3. Alone
    BY <1>3, <2>1 DEF Alone
  <2>4. Single /\ Kept /\ Tracked
    BY <1>1, <1>2, <1>3 DEF Single, Kept, Tracked
  <2> QED
    BY <2>2, <2>3, <2>4 DEF Items
<1> QED
  BY <1>4, <1>5, <1>6 DEF Whereabouts

LEMMA AlwaysWhereabouts ==
  ASSUME SharedPlainly
  PROVE  Spec => []Whereabouts
<1>1. IInv /\ Reports /\ Whereabouts /\ [Next]_vars => Whereabouts'
  BY StepWhereabouts DEF Reports
<1> QED
  BY <1>1, InitWhereabouts, Invariant, AlwaysReports, PTL DEF Spec

----------------------------------------------------------------------------
(* What the whereabouts of the disposers say of teardown *)

\* Only the effects of a scope that is not done yet have records to unwind.
LEMMA Unwinds ==
  ASSUME Whereabouts, NEW e \in Effects, ~disposed[e], Rec(e) # {}
  PROVE  unwind[Owner[e]].pc # "done"
<1>1. setup[e] \notin {"none", "failed"}
  <2>1. ToSet(<<>>) = {}
    BY DEF ToSet
  <2> QED
    BY <2>1 DEF Whereabouts, Staged, Rec
<1>2. setup[e] \in {"running", "done"}
  BY <1>1 DEF Whereabouts, WorkTypes
<1> QED
  BY <1>2 DEF Whereabouts, Enlisted, ToUnwind

\* What an effect holds, in its record or in the call of its handle, its setup
\* hands over.
LEMMA Handed ==
  ASSUME Whereabouts, NEW e \in Effects, NEW d, d \in Rec(e) \/ d \in InJob(e)
  PROVE  d \in ToSet(Yields[e])
  BY Sets DEF Whereabouts, Items, Sourced

\* SEM-003: a disposer runs at most once for each time it was recorded.  In a
\* scope it waits in one place only, and what waits has not been released
\* already, however handle calls, setups and the unwind interleave.
THEOREM OwedOnceHolds ==
  ASSUME SharedPlainly
  PROVE  Spec => []OwedOnce
<1>1. ASSUME Whereabouts, NEW s \in Scopes, NEW d \in Disposers
      PROVE  /\ Cardinality(Places(s, d)) <= 1
             /\ Places(s, d) # {} => d \in held
  <2>1. /\ \A p \in Places(s, d) : p = s \/ (p \in Effects /\ Owner[p] = s)
        /\ s \notin Effects
        /\ s \in Places(s, d) => d \in InJob(s)
        /\ \A p \in Places(s, d) \cap Effects : (~disposed[p] /\ d \in Rec(p)) \/ d \in InJob(p)
    BY ShapeAssumption DEF Places, Rec
  <2>2. ASSUME NEW p \in Places(s, d) \cap Effects, NEW q \in Places(s, d) \cap Effects, p # q
        PROVE  FALSE
    <3>1. /\ Owner[p] = s /\ Owner[q] = s
          /\ d \in ToSet(Yields[p]) /\ d \in ToSet(Yields[q])
      BY <1>1, <2>1, <2>2, Handed
    <3>2. p \notin Handled /\ q \notin Handled
      BY <1>1, <2>2, <3>1, Shared DEF Whereabouts
    <3>3. InJob(p) = {} /\ InJob(q) = {}
      BY <1>1, <3>2 DEF Whereabouts, Items, Sourced
    <3>4. ~disposed[p] /\ d \in Rec(p) /\ d \in Rec(q)
      BY <2>1, <3>3
    <3>5. unwind[s].pc # "done"
      BY <1>1, <3>1, <3>4, Unwinds
    <3> QED
      BY <1>1, <2>2, <3>1, <3>4, <3>5 DEF Whereabouts, Items, Alone
  <2>3. ASSUME NEW p \in Places(s, d) \cap Effects, s \in Places(s, d)
        PROVE  FALSE
    <3>1. Owner[p] = s /\ d \in InJob(s) /\ (d \in Rec(p) \/ d \in InJob(p))
      BY <2>1, <2>3
    <3> QED
      BY <1>1, <3>1 DEF Whereabouts, Items, Alone
  <2>4. Cardinality(Places(s, d)) <= 1
    <3>1. \A p, q \in Places(s, d) : p = q
      BY <2>1, <2>2, <2>3
    <3>2. CASE Places(s, d) = {}
      BY <3>2, FS_EmptySet
    <3>3. CASE Places(s, d) # {}
      <4>1. PICK p : Places(s, d) = {p}
        BY <3>1, <3>3
      <4>2. Cardinality({p}) = 1
        BY FS_Singleton
      <4> QED
        BY <4>1, <4>2
    <3> QED
      BY <3>2, <3>3
  <2>5. ASSUME NEW p \in Places(s, d) PROVE d \in held
    <3>1. p \in Runners /\ ((p \in Effects /\ ~disposed[p] /\ d \in Rec(p)) \/ d \in InJob(p))
      BY <2>1 DEF Runners
    <3> QED
      BY <1>1, <3>1 DEF Whereabouts, Items, Kept
  <2> QED
    BY <2>4, <2>5
<1>2. Whereabouts => OwedOnce
  BY <1>1 DEF OwedOnce
<1> QED
  BY <1>2, AlwaysWhereabouts, PTL

\* SEM-005: however many disposers raise, an unwind that is done left nothing of
\* its scope behind except what the call of a handle is still releasing, what a
\* rollback could not await, and what a setup recorded after its record had been
\* disposed.
THEOREM NothingStrandedHolds ==
  ASSUME SharedPlainly
  PROVE  Spec => []NothingStranded
<1>1. ASSUME IInv, Idle, Whereabouts, NEW s \in Scopes, unwind[s].pc = "done",
             NEW d \in held \cap Sound(s)
      PROVE  \E e \in Effects : /\ Owner[e] = s
                                /\ d \in InJob(e) \/ (disposed[e] /\ d \in ToSet(disposers[e]))
  <2>1. PICK x \in Effects : Owner[x] = s /\ d \in ToSet(Yields[x])
    BY DEF Sound
  <2>2. ASSUME NEW e \in Effects, setup[e] = "failed" PROVE d \notin ToSet(Yields[e])
    <3>1. ToSet(Yields[e]) \in {ToSet(Yields[f]) : f \in {y \in Effects : setup[y] = "failed"}}
      BY <2>2
    <3> QED
      BY <3>1 DEF Sound
  <2>3. d \in Disposers
    BY <1>1 DEF Whereabouts, WorkTypes
  <2>4. \A e \in Effects : d \in ToSet(Yields[e]) => Owner[e] = s
    BY <1>1, <2>1, <2>3, Shared DEF Whereabouts
  <2>5. CASE \E e \in Effects : d \in Rec(e)
    <3>1. PICK e \in Effects : d \in Rec(e)
      BY <2>5
    <3>2. Owner[e] = s
      BY <1>1, <2>4, <3>1, Handed
    <3>3. disposed[e]
      BY <1>1, <3>1, <3>2, Unwinds
    <3> QED
      BY <3>1, <3>2, <3>3 DEF Rec
  <2>6. CASE \E r \in Runners : d \in InJob(r)
    <3>1. PICK r \in Runners : d \in InJob(r)
      BY <2>6
    <3>2. CASE r \in Effects
      <4>1. Owner[r] = s
        BY <1>1, <2>4, <3>1, <3>2, Handed
      <4> QED
        BY <3>1, <3>2, <4>1
    <3>3. CASE r \in Scopes
      <4>1. PICK e \in Effects : Owner[e] = r /\ d \in HandedOver(e)
        BY <1>1, <3>1, <3>3 DEF Whereabouts, Items, Sourced
      <4>2. d \in ToSet(Yields[e])
        BY <1>1, <4>1, Sets DEF Whereabouts
      <4>3. r = s
        BY <2>4, <4>1, <4>2
      <4>4. job[s] = NoJob
        BY <1>1 DEF Idle
      <4> QED
        BY <3>1, <4>3, <4>4 DEF InJob, NoJob, ToSet
    <3> QED
      BY <3>2, <3>3 DEF Runners
  <2> QED
    BY <1>1, <2>2, <2>5, <2>6 DEF Whereabouts, Items, Tracked
<1>2. IInv /\ Reports /\ Whereabouts => NothingStranded
  BY <1>1 DEF NothingStranded, Reports
<1> QED
  BY <1>2, AlwaysWhereabouts, AlwaysReports, Invariant, PTL

\* What is not in a sequence is not taken from it.
LEMMA WithoutNothing ==
  ASSUME NEW seq, NEW x, x \notin ToSet(seq)
  PROVE  Without(seq, x) = seq
  BY DEF Without

\* SEM-004: a setup that raises, at once or later, takes back its own
\* registration only: no other record and no other resource, and nothing of it
\* stays in the scope.
THEOREM RollbackIsLocalHolds ==
  ASSUME SharedPlainly
  PROVE  Spec => RollbackIsLocal
<1> DEFINE Local(e) ==
             /\ \A x \in Effects \ {e} : disposers'[x] = disposers[x]
             /\ disposers'[e] = <<>>
             /\ entries' = [s \in Scopes |-> Without(entries[s], e)]
             /\ \A d \in held \ held' : d \in ToSet(disposers[e])
<1>1. ASSUME IInv, Whereabouts, NEW e \in Effects, RegisterRaises(e)
      PROVE  setup' = [setup EXCEPT ![e] = "failed"] /\ Local(e)
  <2>1. PICK n \in 0..Len(Yields[e]) : Rollback(e, Recorded(e, 1, n))
    BY <1>1 DEF RegisterRaises
  <2> DEFINE own == Recorded(e, 1, n)
  <2>2. /\ setup[e] = "none" /\ unwind[Owner[e]].pc = "open"
        /\ entries' = entries /\ setup' = [setup EXCEPT ![e] = "failed"]
    BY <1>1 DEF RegisterRaises, Register, Active
  <2>3. /\ own \in Seq(Disposers)
        /\ ToSet(own) = {Yields[e][k] : k \in 1..n} \ ({None} \cup ids[Owner[e]])
    BY <1>1, RecordedFacts DEF Whereabouts
  <2>4. \A d \in ToSet(own) :
          d \in Disposers /\ d \notin ids[Owner[e]] /\ d \in ToSet(Yields[e])
    <3>1. /\ Yields[e] \in Seq(Disposers \cup {None}) /\ DOMAIN Yields[e] = 1..Len(Yields[e])
          /\ Len(Yields[e]) \in Nat
      BY ShapeAssumption
    <3>2. \A k \in 1..n : k \in DOMAIN Yields[e] /\ Yields[e][k] \in Disposers \cup {None}
      BY <3>1
    <3> QED
      BY <2>3, <3>2 DEF ToSet
  <2> HIDE DEF own
  <2>5. Rollback(e, own)
    BY <2>1 DEF own
  <2>6. /\ disposers'[e] = <<>>
        /\ \A x \in Effects \ {e} : disposers'[x] = disposers[x]
        /\ held' = (held \cup ToSet(own)) \ {d \in ToSet(own) : Kind[d] = "plain"}
    BY <1>1, <2>3, <2>5, RollbackStep DEF Whereabouts
  <2>7. ~disposed[e] /\ Rec(e) = {} /\ \A s \in Scopes : e \notin ToSet(entries[s])
    <3>1. ToSet(<<>>) = {}
      BY DEF ToSet
    <3> QED
      BY <1>1, <2>2, <3>1 DEF Whereabouts, Staged, Listing, Rec
  <2>8. ASSUME NEW d \in held \ held' PROVE FALSE
    <3>1. d \in ToSet(own) /\ Kind[d] = "plain"
      BY <2>6
    <3>2. d \in Disposers /\ d \notin ids[Owner[e]] /\ d \in ToSet(Yields[e])
      BY <2>4, <3>1
    <3>3. /\ InJob(Owner[e]) \subseteq ids[Owner[e]]
          /\ \A x \in Effects : Owner[x] = Owner[e] => Rec(x) \subseteq ids[Owner[e]]
      <4>1. Owner[e] \in Scopes
        BY ShapeAssumption
      <4> QED
        BY <1>1, <2>2, <4>1 DEF Whereabouts, Items, Listed
    <3>4. ASSUME NEW x \in Effects, d \in Rec(x) PROVE FALSE
      <4>1. d \in ToSet(Yields[x]) /\ x # e
        BY <1>1, <2>7, <3>4, Handed
      <4>2. Owner[x] = Owner[e]
        BY <1>1, <3>2, <4>1, Shared DEF Whereabouts
      <4> QED
        BY <3>2, <3>3, <3>4, <4>2
    <3>5. ASSUME NEW x \in Effects, d \in InJob(x) PROVE FALSE
      <4>1. d \in ToSet(Yields[x]) /\ x \in Handled /\ disposed[x]
        BY <1>1, <3>5, Handed DEF Whereabouts, Items, Sourced
      <4>2. x # e
        BY <2>7, <4>1
      <4> QED
        BY <1>1, <3>2, <4>1, <4>2, Shared DEF Whereabouts
    <3>6. ASSUME NEW s \in Scopes, d \in InJob(s) PROVE FALSE
      <4>1. PICK x \in Effects : Owner[x] = s /\ disposed[x] /\ d \in HandedOver(x)
        BY <1>1, <3>6 DEF Whereabouts, Items, Sourced
      <4>2. d \in ToSet(Yields[x]) /\ x # e
        BY <1>1, <2>7, <4>1, Sets DEF Whereabouts
      <4>3. s = Owner[e]
        BY <1>1, <3>2, <4>1, <4>2, Shared DEF Whereabouts
      <4> QED
        BY <3>2, <3>3, <3>6, <4>3
    <3> QED
      BY <1>1, <3>1, <3>4, <3>5, <3>6 DEF Whereabouts, Items, Tracked, Runners
  <2>9. entries' = [s \in Scopes |-> Without(entries[s], e)]
    <3>1. entries = [s \in Scopes |-> entries[s]]
      BY <1>1 DEF IInv, TreeTypes
    <3>2. \A s \in Scopes : Without(entries[s], e) = entries[s]
      BY <2>7, WithoutNothing
    <3> QED
      BY <2>2, <3>1, <3>2
  <2> QED
    BY <2>2, <2>6, <2>8, <2>9
<1>2. ASSUME IInv, Whereabouts, NEW e \in Effects, SetupRaises(e)
      PROVE  setup' = [setup EXCEPT ![e] = "failed"] /\ Local(e)
  <2>1. /\ Rollback(e, disposers[e]) /\ setup' = [setup EXCEPT ![e] = "failed"]
        /\ entries' = [entries EXCEPT ![Owner[e]] = Without(@, e)]
    BY <1>2 DEF SetupRaises
  <2>2. disposers[e] \in Seq(Disposers)
    BY <1>2 DEF Whereabouts, WorkTypes
  <2>3. /\ disposers'[e] = <<>>
        /\ \A x \in Effects \ {e} : disposers'[x] = disposers[x]
        /\ held' = (held \cup Rec(e)) \ {d \in Rec(e) : Kind[d] = "plain"}
    BY <1>2, <2>1, <2>2, RollbackStep DEF Whereabouts, Rec
  <2>4. \A d \in held \ held' : d \in Rec(e)
    BY <2>3
  <2>5. entries' = [s \in Scopes |-> Without(entries[s], e)]
    <3>1. entries = [s \in Scopes |-> entries[s]]
      BY <1>2 DEF IInv, TreeTypes
    <3>2. \A s \in Scopes \ {Owner[e]} : Without(entries[s], e) = entries[s]
      <4>1. \A s \in Scopes \ {Owner[e]} : e \notin ToSet(entries[s])
        BY <1>2 DEF Whereabouts, Staged, Listing
      <4> QED
        BY <4>1, WithoutNothing
    <3> QED
      BY <2>1, <3>1, <3>2
  <2> QED
    BY <2>1, <2>3, <2>4, <2>5 DEF Rec
<1>3. ASSUME [Next]_vars
      PROVE  \/ \E e \in Effects : RegisterRaises(e) \/ SetupRaises(e)
             \/ \E e \in Effects : \E now \in {"running", "done"} : setup' = [setup EXCEPT ![e] = now]
             \/ setup' = setup
  <2>1. ASSUME NEW e \in Effects, RegisterSync(e) \/ RegisterAsync(e) \/ Setting(e)
        PROVE  \/ SetupRaises(e)
               \/ \E now \in {"running", "done"} : setup' = [setup EXCEPT ![e] = now]
               \/ setup' = setup
    BY <2>1 DEF RegisterSync, RegisterAsync, Setting, SetupYields, SetupDone
  <2>2. ASSUME NEW s \in Scopes, Child(s) \/ Unwinding(s) PROVE setup' = setup
    BY <2>2 DEF Child, Unwinding, BeginUnwind, UnwindEffect, UnwindChild, ChildUnwound, EndUnwind
  <2>3. ASSUME NEW e \in Effects, CallHandle(e) \/ HandleReturns(e) PROVE setup' = setup
    BY <2>3 DEF CallHandle, HandleReturns
  <2>4. ASSUME NEW r \in Runners, Running(r) PROVE setup' = setup
    BY <2>4 DEF Running, CallBatch, DisposerDone
  <2>5. ASSUME NEW c \in Callers,
               Cancel(c) \/ DisposeReturns(c) \/ \E s \in Scopes : Dispose(c, s)
        PROVE  setup' = setup
    BY <2>5 DEF Cancel, DisposeReturns, Dispose
  <2> QED
    BY <1>3, <2>1, <2>2, <2>3, <2>4, <2>5 DEF Next, Registering, vars
<1>4. ASSUME IInv, Whereabouts, [Next]_vars, NEW e \in Effects,
             setup[e] # "failed", setup'[e] = "failed"
      PROVE  Local(e)
  <2>1. setup \in [Effects -> {"none", "running", "done", "failed"}]
    BY <1>4 DEF Whereabouts, WorkTypes
  <2>2. PICK x \in Effects : RegisterRaises(x) \/ SetupRaises(x)
    BY <1>3, <1>4, <2>1
  <2>3. setup' = [setup EXCEPT ![x] = "failed"] /\ Local(x)
    BY <1>1, <1>2, <1>4, <2>2
  <2>4. x = e
    BY <1>4, <2>1, <2>3
  <2> QED
    BY <2>3, <2>4
<1>5. IInv /\ Whereabouts /\ [Next]_vars =>
        [\A e \in Effects : setup[e] # "failed" /\ setup'[e] = "failed" => Local(e)]_vars
  BY <1>4
<1> QED
  BY <1>5, AlwaysWhereabouts, Invariant, PTL DEF Spec, RollbackIsLocal

----------------------------------------------------------------------------
(* In which order a walk gets to disposers *)

\* The effects that share no disposer with another one.
Sole ==
  {e \in Effects : \A f \in Effects :
     e # f => ToSet(Yields[e]) \cap ToSet(Yields[f]) \cap Disposers = {}}

\* What is registered is registered once.
Registered ==
  /\ Once(order)
  /\ \A e \in Effects : e \in ToSet(order) => setup[e] # "none"
  /\ \A s \in Scopes : s \in ToSet(order) => unwind[s].pc # "absent"

\* A sequence in the order of registration, and one in the opposite order.
Chronological(seq) == \A i, j \in DOMAIN seq : i < j => Before(seq[i], seq[j])
Backward(seq) == \A i, j \in DOMAIN seq : i < j => Before(seq[j], seq[i])

\* A scope lists what was registered in it in the order of registration, and its
\* walk the other way round.
Arranged ==
  \A s \in Scopes :
    /\ ToSet(entries[s]) \subseteq ToSet(order)
    /\ Chronological(entries[s]) /\ Backward(unwind[s].todo)

\* What a sequence has of the disposers of e is in the order the setup handed
\* them over, or in the opposite one.
Ascends(e, seq) ==
  \A m, n \in DOMAIN seq, i, j \in 1..Len(Yields[e]) :
    m < n /\ Yields[e][i] = seq[m] /\ Yields[e][j] = seq[n] => i < j
Descends(e, seq) ==
  \A m, n \in DOMAIN seq, i, j \in 1..Len(Yields[e]) :
    m < n /\ Yields[e][i] = seq[m] /\ Yields[e][j] = seq[n] => j < i

\* With a disposer of e, the set has all that e handed over before it.
Reaches(e, S) ==
  \A i, j \in 1..Len(Yields[e]) :
    i < j /\ Yields[e][j] \in S /\ Yields[e][i] # None => Yields[e][i] \in S

\* A record has in order, and until it is disposed without a gap, what was handed
\* over, because nobody else has handed over any of it.
Recording ==
  \A e \in Sole :
    /\ Ascends(e, disposers[e])
    /\ ~disposed[e] /\ setup[e] # "failed" => HandedOver(e) \ {None} \subseteq Rec(e)
    /\ \A k \in 1..Len(Yields[e]) : k > yielded[e] => Yields[e][k] \notin ids[Owner[e]]

\* A walk works on one record at a time, backwards, and what it has still to look
\* at was registered before the effect of that record.
Walking ==
  \A e \in Sole :
    /\ Descends(e, job[Owner[e]].queue) /\ Reaches(e, ToSet(job[Owner[e]].queue))
    /\ InJob(Owner[e]) \cap ToSet(Yields[e]) # {} =>
         \A x \in ToSet(unwind[Owner[e]].todo) : Before(x, e)

Order == Registered /\ Arranged /\ Recording /\ Walking

LEMMA BeforeGrows ==
  ASSUME order \in Seq(Effects \cup Scopes), NEW z \in Effects \cup Scopes,
         order' = Append(order, z) \/ order' = order
  PROVE  /\ \A x, y : Before(x, y) => Before(x, y)'
         /\ ToSet(order) \subseteq ToSet(order')
         /\ order' = Append(order, z) =>
              /\ ToSet(order') = ToSet(order) \cup {z}
              /\ \A x \in ToSet(order) : Before(x, z)'
              /\ Once(order) /\ z \notin ToSet(order) => Once(order')
<1>1. Len(order) \in Nat /\ DOMAIN order = 1..Len(order)
  OBVIOUS
<1>2. CASE order' = order
  <2>1. order' # Append(order, z)
    BY <1>2
  <2> QED
    BY <1>2, <2>1 DEF Before
<1>3. CASE order' = Append(order, z)
  <2>1. /\ DOMAIN order' = 1..(Len(order) + 1) /\ order'[Len(order) + 1] = z
        /\ \A i \in DOMAIN order : i \in DOMAIN order' /\ order'[i] = order[i] /\ i < Len(order) + 1
    BY <1>1, <1>3
  <2>2. \A i \in DOMAIN order' : i \in DOMAIN order \/ i = Len(order) + 1
    BY <1>1, <2>1
  <2>3. Len(order) + 1 \in DOMAIN order'
    BY <1>1, <2>1
  <2> HIDE <1>3
  <2>4. \A x, y : Before(x, y) => Before(x, y)'
    BY <2>1 DEF Before
  <2>5. ToSet(order') = ToSet(order) \cup {z}
    BY <2>1, <2>2, <2>3 DEF ToSet
  <2>6. \A x \in ToSet(order) : Before(x, z)'
    BY <2>1, <2>3 DEF Before, ToSet
  <2>7. Once(order) /\ z \notin ToSet(order) => Once(order')
    BY <2>1, <2>2 DEF Once, ToSet
  <2> QED
    BY <2>4, <2>5, <2>6, <2>7
<1> QED
  BY <1>2, <1>3

LEMMA NotBoth ==
  ASSUME order \in Seq(Effects \cup Scopes), Once(order), NEW x, NEW y, Before(x, y), Before(y, x)
  PROVE  FALSE
<1>1. PICK i, j \in DOMAIN order : i < j /\ order[i] = x /\ order[j] = y
  BY DEF Before
<1>2. PICK k, l \in DOMAIN order : k < l /\ order[k] = y /\ order[l] = x
  BY DEF Before
<1>3. i = l /\ j = k
  BY <1>1, <1>2 DEF Once
<1>4. i \in Nat /\ j \in Nat
  OBVIOUS
<1> QED
  BY <1>1, <1>2, <1>3, <1>4

\* What is left of a sequence without x is in the order it was in.
LEMMA WithoutOrder ==
  ASSUME NEW S, NEW seq \in Seq(S), NEW x, NEW i \in DOMAIN Without(seq, x),
         NEW j \in DOMAIN Without(seq, x), i < j
  PROVE  \E k, l \in DOMAIN seq :
           k < l /\ Without(seq, x)[i] = seq[k] /\ Without(seq, x)[j] = seq[l]
<1>1. CASE x \notin ToSet(seq)
  BY <1>1 DEF Without
<1>2. CASE x \in ToSet(seq)
  <2> DEFINE at    == CHOOSE k \in DOMAIN seq : seq[k] = x
             front == SubSeq(seq, 1, at - 1)
             back  == SubSeq(seq, at + 1, Len(seq))
             out   == front \o back
  <2>1. at \in 1..Len(seq) /\ Len(seq) \in Nat
    BY <1>2 DEF ToSet
  <2>2. Without(seq, x) = out
    BY <1>2 DEF Without, RemoveAt
  <2> HIDE DEF at
  <2>3. front \in Seq(S) /\ Len(front) = at - 1 /\ \A k \in 1..(at - 1) : front[k] = seq[k]
    BY <2>1
  <2>4. /\ back \in Seq(S) /\ Len(back) = Len(seq) - at
        /\ \A k \in 1..(Len(seq) - at) : back[k] = seq[at + k]
    BY <2>1
  <2> HIDE DEF front, back
  <2>5. /\ DOMAIN out = 1..(Len(seq) - 1)
        /\ \A k \in DOMAIN out : out[k] = IF k <= at - 1 THEN front[k] ELSE back[k - (at - 1)]
    <3>1. /\ Len(out) = Len(front) + Len(back) /\ out \in Seq(S)
          /\ \A k \in 1..Len(front) + Len(back) :
               out[k] = IF k <= Len(front) THEN front[k] ELSE back[k - Len(front)]
      BY <2>3, <2>4, ConcatProperties
    <3> HIDE DEF out
    <3>2. Len(out) = Len(seq) - 1 /\ DOMAIN out = 1..Len(out)
      BY <2>1, <2>3, <2>4, <3>1
    <3> QED
      BY <2>3, <2>4, <3>1, <3>2
  <2> HIDE DEF out
  <2> DEFINE old(k) == IF k <= at - 1 THEN k ELSE k + 1
  <2>6. ASSUME NEW k \in DOMAIN out PROVE old(k) \in DOMAIN seq /\ out[k] = seq[old(k)]
    <3>1. CASE k <= at - 1
      BY <2>1, <2>3, <2>5, <3>1
    <3>2. CASE ~(k <= at - 1)
      <4>1. k - (at - 1) \in 1..(Len(seq) - at) /\ at + (k - (at - 1)) = k + 1
        BY <2>1, <2>5, <3>2
      <4>2. k + 1 \in DOMAIN seq
        BY <2>1, <2>5
      <4> QED
        BY <2>4, <2>5, <3>2, <4>1, <4>2
    <3> QED
      BY <3>1, <3>2
  <2>7. i \in DOMAIN out /\ j \in DOMAIN out
    BY <2>2
  <2>8. old(i) < old(j)
    BY <2>1, <2>5, <2>7
  <2> QED
    BY <2>2, <2>6, <2>7, <2>8
<1> QED
  BY <1>1, <1>2

LEMMA ReverseAt ==
  ASSUME NEW S, NEW seq \in Seq(S)
  PROVE  /\ DOMAIN Reverse(seq) = DOMAIN seq
         /\ \A i \in DOMAIN seq : (Len(seq) - i) + 1 \in DOMAIN seq
                                  /\ Reverse(seq)[i] = seq[(Len(seq) - i) + 1]
         /\ \A i, j \in DOMAIN seq : i < j => (Len(seq) - j) + 1 < (Len(seq) - i) + 1
<1>1. Len(seq) \in Nat /\ DOMAIN seq = 1..Len(seq)
  OBVIOUS
<1> QED
  BY <1>1 DEF Reverse

\* What a setup hands over is recorded in the order it is handed over.
LEMMA RecordedOrder ==
  ASSUME NEW e \in Effects, NEW i \in Nat \ {0}, NEW j \in 0..Len(Yields[e]),
         NEW m \in DOMAIN Recorded(e, i, j), NEW n \in DOMAIN Recorded(e, i, j), m < n
  PROVE  \E k, l \in i..j :
           k < l /\ Recorded(e, i, j)[m] = Yields[e][k] /\ Recorded(e, i, j)[n] = Yields[e][l]
<1> DEFINE K    == {k \in i..j : Yields[e][k] \notin {None} \cup ids[Owner[e]]}
           kept == InOrder(K)
           N    == Cardinality(K)
<1>1. Recorded(e, i, j) = [k \in DOMAIN kept |-> Yields[e][kept[k]]]
  BY DEF Recorded
<1>2. K \in SUBSET Nat /\ IsFiniteSet(K)
  <2>1. Len(Yields[e]) \in Nat
    BY ShapeAssumption
  <2>2. K \in SUBSET (i..j) /\ IsFiniteSet(i..j)
    <3>1. i \in Int /\ j \in Int
      BY <2>1
    <3> QED
      BY <3>1, FS_Interval
  <2> QED
    BY <2>1, <2>2, FS_Subset
<1>3. K \subseteq i..j
  OBVIOUS
<1> HIDE DEF K
<1>4. /\ N \in Nat /\ kept \in [1..N -> K]
      /\ \A a, b \in 1..N : a < b => kept[a] < kept[b]
  BY <1>2, InOrderFacts
<1> HIDE DEF kept, N
<1>5. m \in 1..N /\ n \in 1..N
  BY <1>1, <1>4
<1>6. /\ kept[m] \in i..j /\ kept[n] \in i..j /\ kept[m] < kept[n]
      /\ DOMAIN kept = 1..N
  BY <1>3, <1>4, <1>5
<1>7. Recorded(e, i, j)[m] = Yields[e][kept[m]] /\ Recorded(e, i, j)[n] = Yields[e][kept[n]]
  BY <1>1, <1>5, <1>6
<1> QED
  BY <1>6, <1>7

LEMMA JoinsInOrder ==
  ASSUME IInv, WorkTypes, Arranged, NEW s \in Scopes, NEW z \in Effects \cup Scopes,
         entries' = [entries EXCEPT ![s] = Append(@, z)], order' = Append(order, z),
         \A t \in Scopes : unwind'[t].todo = unwind[t].todo
  PROVE  Arranged'
<1>1. /\ \A x, y : Before(x, y) => Before(x, y)'
      /\ ToSet(order') = ToSet(order) \cup {z} /\ \A x \in ToSet(order) : Before(x, z)'
  BY BeforeGrows DEF WorkTypes
<1>2. ASSUME NEW t \in Scopes, t # s PROVE entries'[t] = entries[t]
  BY <1>2 DEF IInv, TreeTypes
<1>3. /\ entries'[s] = Append(entries[s], z) /\ entries[s] \in Seq(Effects \cup Scopes)
      /\ ToSet(entries[s]) \subseteq ToSet(order)
  BY DEF IInv, TreeTypes, Arranged
<1>4. ToSet(entries'[s]) \subseteq ToSet(order')
  BY <1>1, <1>3, AppendSet
<1>5. Chronological(entries[s])'
  <2> DEFINE list == entries[s]
  <2>1. /\ list \in Seq(Effects \cup Scopes) /\ DOMAIN list = 1..Len(list) /\ Len(list) \in Nat
        /\ DOMAIN entries'[s] = 1..(Len(list) + 1) /\ entries'[s][Len(list) + 1] = z
        /\ \A i \in 1..Len(list) : entries'[s][i] = list[i]
    BY <1>3
  <2>2. \A i \in 1..Len(list) : list[i] \in ToSet(order)
    BY <1>3, <2>1, Elements
  <2>3. \A i, j \in 1..Len(list) : i < j => Before(list[i], list[j])
    BY <2>1 DEF Arranged, Chronological
  <2> HIDE DEF list
  <2>4. ASSUME NEW i \in 1..(Len(list) + 1), NEW j \in 1..(Len(list) + 1), i < j
        PROVE  \E p, q \in DOMAIN order' :
                 p < q /\ order'[p] = entries'[s][i] /\ order'[q] = entries'[s][j]
    <3>1. CASE j = Len(list) + 1
      <4>1. i \in 1..Len(list)
        BY <2>1, <2>4, <3>1
      <4>2. list[i] \in ToSet(order) /\ entries'[s][i] = list[i] /\ entries'[s][j] = z
        BY <2>1, <2>2, <3>1, <4>1
      <4>3. \E p, q \in DOMAIN order' :
              p < q /\ order'[p] = list[i] /\ order'[q] = z
        <5> DEFINE x == list[i]
        <5>1. x \in ToSet(order)
          BY <4>2
        <5> HIDE DEF x
        <5>2. \E p, q \in DOMAIN order' : p < q /\ order'[p] = x /\ order'[q] = z
          BY <1>1, <5>1 DEF Before
        <5> QED
          BY <5>2 DEF x
      <4> QED
        BY <4>2, <4>3
    <3>2. CASE j # Len(list) + 1
      <4>1. i \in 1..Len(list) /\ j \in 1..Len(list)
        BY <2>1, <2>4, <3>2
      <4>2. /\ entries'[s][i] = list[i] /\ entries'[s][j] = list[j]
            /\ Before(list[i], list[j])
        BY <2>1, <2>3, <2>4, <4>1
      <4> DEFINE x == list[i]
                 y == list[j]
      <4>3. Before(x, y)
        BY <4>2
      <4> HIDE DEF x, y
      <4>4. \E p, q \in DOMAIN order' : p < q /\ order'[p] = x /\ order'[q] = y
        BY <1>1, <4>3 DEF Before
      <4> QED
        BY <4>2, <4>4 DEF x, y
    <3> QED
      BY <3>1, <3>2
  <2>5. \A i, j \in DOMAIN entries'[s] : i < j =>
          \E p, q \in DOMAIN order' :
            p < q /\ order'[p] = entries'[s][i] /\ order'[q] = entries'[s][j]
    <3> TAKE i, j \in DOMAIN entries'[s]
    <3> HAVE i < j
    <3>1. i \in 1..(Len(list) + 1) /\ j \in 1..(Len(list) + 1)
      BY <2>1
    <3> QED
      BY <2>4, <3>1
  <2> QED
    BY <2>5 DEF Chronological, Before
<1>6. ASSUME NEW t \in Scopes
      PROVE  /\ ToSet(entries'[t]) \subseteq ToSet(order')
             /\ Chronological(entries[t])' /\ Backward(unwind[t].todo)'
  <2>1. Backward(unwind[t].todo)'
    BY <1>1 DEF Arranged, Backward, Before
  <2>2. CASE t # s
    BY <1>1, <1>2, <2>1, <2>2 DEF Arranged, Chronological, Before
  <2> QED
    BY <1>4, <1>5, <2>1, <2>2
<1> QED
  BY <1>6 DEF Arranged

LEMMA LeavesInOrder ==
  ASSUME IInv, WorkTypes, Arranged, NEW s \in Scopes, NEW z,
         entries' = [entries EXCEPT ![s] = Without(@, z)], order' = order,
         \A t \in Scopes : unwind'[t].todo = unwind[t].todo
  PROVE  Arranged'
<1>1. /\ entries'[s] = Without(entries[s], z) /\ entries[s] \in Seq(Effects \cup Scopes)
      /\ \A t \in Scopes \ {s} : entries'[t] = entries[t]
  BY DEF IInv, TreeTypes
<1>2. ToSet(entries'[s]) \subseteq ToSet(order)
  BY <1>1, WithoutSubset DEF Arranged
<1>3. Chronological(entries'[s])
  <2> SUFFICES ASSUME NEW i \in DOMAIN entries'[s], NEW j \in DOMAIN entries'[s], i < j
               PROVE  Before(entries'[s][i], entries'[s][j])
    BY DEF Chronological
  <2>1. PICK k, l \in DOMAIN entries[s] :
          k < l /\ entries'[s][i] = entries[s][k] /\ entries'[s][j] = entries[s][l]
    BY <1>1, WithoutOrder
  <2> QED
    BY <2>1 DEF Arranged, Chronological
<1>4. ASSUME NEW t \in Scopes
      PROVE  ToSet(entries'[t]) \subseteq ToSet(order) /\ Chronological(entries'[t])
             /\ Backward(unwind'[t].todo)
  BY <1>1, <1>2, <1>3 DEF Arranged
<1> QED
  BY <1>4 DEF Arranged, Chronological, Backward, Before

\* Neither adds to the lists, and the walks go on or stay.
LEMMA RestInOrder ==
  ASSUME IInv, Arranged, UNCHANGED <<entries, order>>,
         \A t \in Scopes : \/ unwind'[t].todo = unwind[t].todo
                           \/ unwind[t].todo # <<>> /\ unwind'[t].todo = Tail(unwind[t].todo)
  PROVE  Arranged'
<1>1. ASSUME NEW t \in Scopes, unwind[t].todo # <<>>, unwind'[t].todo = Tail(unwind[t].todo)
      PROVE  Backward(unwind'[t].todo)
  <2> DEFINE list == unwind[t].todo
  <2>1. list \in Seq(Effects \cup Scopes) /\ list # <<>> /\ Backward(list)
    BY <1>1 DEF IInv, TreeTypes, UnwindType, Arranged
  <2> HIDE DEF list
  <2>2. \A i \in DOMAIN Tail(list) : i + 1 \in DOMAIN list /\ Tail(list)[i] = list[i + 1] /\ i \in Nat
    BY <2>1
  <2>3. \A i, j \in DOMAIN Tail(list) : i < j => Before(Tail(list)[j], Tail(list)[i])
    <3> TAKE i, j \in DOMAIN Tail(list)
    <3> HAVE i < j
    <3>1. i + 1 < j + 1
      BY <2>2
    <3> QED
      BY <2>1, <2>2, <3>1 DEF Backward
  <2> QED
    BY <1>1, <2>3 DEF Backward, list
<1>2. ASSUME NEW t \in Scopes
      PROVE  ToSet(entries'[t]) \subseteq ToSet(order) /\ Chronological(entries'[t])
             /\ Backward(unwind'[t].todo)
  BY <1>1 DEF Arranged
<1> QED
  BY <1>2 DEF Arranged, Chronological, Backward, Before

LEMMA BeginInOrder ==
  ASSUME IInv, Arranged, NEW s \in Scopes, BeginUnwind(s)
  PROVE  Arranged'
<1>1. /\ order' = order /\ entries'[s] = <<>> /\ \A t \in Scopes \ {s} : entries'[t] = entries[t]
      /\ unwind'[s].todo = Reverse(entries[s])
      /\ \A t \in Scopes \ {s} : unwind'[t].todo = unwind[t].todo
  BY DEF BeginUnwind, InReverse, IInv, TreeTypes, UnwindType
<1>2. Backward(Reverse(entries[s]))
  <2> DEFINE list == entries[s]
  <2>1. list \in Seq(Effects \cup Scopes) /\ Chronological(list)
    BY DEF IInv, TreeTypes, Arranged
  <2> HIDE DEF list
  <2>2. /\ DOMAIN Reverse(list) = DOMAIN list
        /\ \A i \in DOMAIN list : /\ (Len(list) - i) + 1 \in DOMAIN list
                                  /\ Reverse(list)[i] = list[(Len(list) - i) + 1]
        /\ \A i, j \in DOMAIN list : i < j => (Len(list) - j) + 1 < (Len(list) - i) + 1
    BY <2>1, ReverseAt
  <2> QED
    BY <2>1, <2>2 DEF Chronological, Backward, list
<1>3. ToSet(<<>>) = {} /\ Chronological(<<>>)
  BY DEF ToSet, Chronological
<1>4. ASSUME NEW t \in Scopes
      PROVE  ToSet(entries'[t]) \subseteq ToSet(order) /\ Chronological(entries'[t])
             /\ Backward(unwind'[t].todo)
  BY <1>1, <1>2, <1>3 DEF Arranged
<1> QED
  BY <1>1, <1>4 DEF Arranged, Chronological, Backward, Before

\* Each step registers one thing more, takes one from a list, or goes on in a walk.
LEMMA StepArranged ==
  ASSUME IInv, Whereabouts, Registered, Arranged, [Next]_vars
  PROVE  Registered' /\ Arranged'
<1> USE DEF Whereabouts
<1>1. /\ unwind \in UnwindType /\ setup \in [Effects -> {"none", "running", "done", "failed"}]
      /\ order \in Seq(Effects \cup Scopes)
  BY DEF IInv, TreeTypes, WorkTypes
<1>2. ASSUME order' = order,
             \A e \in Effects : setup[e] # "none" => setup'[e] # "none",
             \A s \in Scopes : unwind[s].pc # "absent" => unwind'[s].pc # "absent"
      PROVE  Registered'
  BY <1>2 DEF Registered, Once
<1>3. ASSUME NEW s \in Scopes, Child(s) PROVE Registered' /\ Arranged'
  <2>1. /\ order' = Append(order, s) /\ setup' = setup /\ ParentOf[s] \in Scopes
        /\ unwind[s].pc = "absent" /\ unwind' = [unwind EXCEPT ![s].pc = "open"]
        /\ entries' = [entries EXCEPT ![ParentOf[s]] = Append(@, s)]
    <3>1. ParentOf[s] # None
      BY <1>3 DEF Child, IInv, Shapes
    <3> QED
      BY <1>3, <3>1, ShapeAssumption DEF Child
  <2>2. /\ unwind'[s].pc = "open" /\ \A t \in Scopes \ {s} : unwind'[t] = unwind[t]
        /\ \A t \in Scopes : unwind'[t].todo = unwind[t].todo
    BY <1>1, <2>1 DEF UnwindType
  <2>3. Arranged'
    BY <2>1, <2>2, JoinsInOrder
  <2>4. ToSet(order') = ToSet(order) \cup {s} /\ Once(order')
    BY <1>1, <2>1, BeforeGrows DEF Registered
  <2>5. Registered'
    BY <2>1, <2>2, <2>4, ShapeAssumption DEF Registered
  <2> QED
    BY <2>3, <2>5
<1>4. ASSUME NEW e \in Effects, RegisterSync(e) \/ RegisterAsync(e)
      PROVE  Registered' /\ Arranged'
  <2>1. /\ order' = Append(order, e) /\ unwind' = unwind /\ setup[e] = "none"
        /\ entries' = [entries EXCEPT ![Owner[e]] = Append(@, e)] /\ Owner[e] \in Scopes
        /\ setup'[e] # "none" /\ \A x \in Effects \ {e} : setup'[x] = setup[x]
    BY <1>1, <1>4, ShapeAssumption DEF RegisterSync, RegisterAsync, Register
  <2>2. Arranged'
    BY <2>1, JoinsInOrder
  <2>3. ToSet(order') = ToSet(order) \cup {e} /\ Once(order')
    BY <1>1, <2>1, BeforeGrows DEF Registered
  <2>4. Registered'
    BY <2>1, <2>3, ShapeAssumption DEF Registered
  <2> QED
    BY <2>2, <2>4
<1>5. ASSUME NEW e \in Effects, RegisterRaises(e) \/ SetupYields(e) \/ SetupDone(e) \/ HandleReturns(e)
      PROVE  Registered' /\ Arranged'
  <2>1. /\ UNCHANGED <<order, unwind, entries>>
        /\ \A x \in Effects : setup[x] # "none" => setup'[x] # "none"
    BY <1>1, <1>5 DEF RegisterRaises, SetupYields, SetupDone, HandleReturns
  <2> QED
    BY <1>2, <2>1, RestInOrder
<1>6. ASSUME NEW e \in Effects, SetupRaises(e) \/ CallHandle(e) PROVE Registered' /\ Arranged'
  <2>1. /\ UNCHANGED <<order, unwind>> /\ Owner[e] \in Scopes
        /\ entries' = [entries EXCEPT ![Owner[e]] = Without(@, e)]
        /\ \A x \in Effects : setup[x] # "none" => setup'[x] # "none"
    BY <1>1, <1>6, ShapeAssumption DEF SetupRaises, CallHandle
  <2> QED
    BY <1>2, <2>1, LeavesInOrder
<1>7. ASSUME NEW s \in Scopes, BeginUnwind(s) PROVE Registered' /\ Arranged'
  <2>1. /\ UNCHANGED <<order, setup>>
        /\ \A t \in Scopes : unwind[t].pc # "absent" => unwind'[t].pc # "absent"
    BY <1>1, <1>7 DEF BeginUnwind, UnwindType
  <2> QED
    BY <1>2, <1>7, <2>1, BeginInOrder
<1>8. ASSUME NEW s \in Scopes, UnwindEffect(s) \/ UnwindChild(s) \/ ChildUnwound(s) \/ EndUnwind(s)
      PROVE  Registered' /\ Arranged'
  <2>1. /\ UNCHANGED <<order, setup, entries>>
    BY <1>8 DEF UnwindEffect, UnwindChild, ChildUnwound, EndUnwind
  <2>2. \A t \in Scopes :
          /\ unwind[t].pc # "absent" => unwind'[t].pc # "absent"
          /\ \/ unwind'[t].todo = unwind[t].todo
             \/ unwind[t].todo # <<>> /\ unwind'[t].todo = Tail(unwind[t].todo)
    <3>1. CASE UnwindEffect(s)
      BY <1>1, <3>1 DEF UnwindEffect, UnwindType
    <3>2. CASE UnwindChild(s)
      <4> DEFINE c == Head(unwind[s].todo)
      <4>1. unwind' = [unwind EXCEPT ![s].pc = "child",
                                     ![c].pc = IF @ = "open" THEN "spawned" ELSE @] /\ c \in Scopes
        BY <3>2 DEF UnwindChild
      <4> HIDE DEF c
      <4> QED
        BY <1>1, <4>1 DEF UnwindType
    <3>3. CASE ChildUnwound(s)
      BY <1>1, <3>3 DEF ChildUnwound, UnwindType, IInv, Shapes
    <3>4. CASE EndUnwind(s)
      BY <1>1, <3>4 DEF EndUnwind, UnwindType
    <3> QED
      BY <1>8, <3>1, <3>2, <3>3, <3>4
  <2> QED
    BY <1>2, <2>1, <2>2, RestInOrder
<1>9. ASSUME NEW r \in Runners, Running(r) PROVE Registered' /\ Arranged'
  <2>1. UNCHANGED <<order, setup, entries, unwind>>
    BY <1>9 DEF Running, CallBatch, DisposerDone
  <2> QED
    BY <1>2, <2>1, RestInOrder
<1>10. ASSUME NEW c \in Callers,
              Cancel(c) \/ DisposeReturns(c) \/ \E s \in Scopes : Dispose(c, s)
       PROVE  Registered' /\ Arranged'
  <2>1. /\ UNCHANGED <<order, setup, entries>>
        /\ \A t \in Scopes : /\ unwind[t].pc # "absent" => unwind'[t].pc # "absent"
                             /\ unwind'[t].todo = unwind[t].todo
    <3>1. CASE Cancel(c) \/ DisposeReturns(c)
      BY <3>1 DEF Cancel, DisposeReturns
    <3>2. ASSUME NEW s \in Scopes, Dispose(c, s)
          PROVE  /\ UNCHANGED <<order, setup, entries>>
                 /\ unwind' = [unwind EXCEPT ![s].pc = IF @ = "open" THEN "spawned" ELSE @]
      BY <3>2 DEF Dispose, StartUnwind
    <3>3. ASSUME NEW s \in Scopes, Dispose(c, s)
          PROVE  \A t \in Scopes : /\ unwind[t].pc # "absent" => unwind'[t].pc # "absent"
                                   /\ unwind'[t].todo = unwind[t].todo
      <4>1. unwind' = [unwind EXCEPT ![s].pc = IF @ = "open" THEN "spawned" ELSE @]
        BY <3>2, <3>3
      <4>2. SUFFICES ASSUME NEW t \in Scopes
                     PROVE  /\ unwind[t].pc # "absent" => unwind'[t].pc # "absent"
                            /\ unwind'[t].todo = unwind[t].todo
        OBVIOUS
      <4>3. CASE t = s
        BY <1>1, <4>1, <4>3 DEF UnwindType
      <4>4. CASE t # s
        BY <1>1, <4>1, <4>4 DEF UnwindType
      <4> QED
        BY <4>3, <4>4
    <3>4. CASE \E s \in Scopes : Dispose(c, s)
      BY <3>2, <3>3, <3>4
    <3> QED
      BY <1>10, <3>1, <3>4
  <2> QED
    BY <1>2, <2>1, RestInOrder
<1>11. CASE UNCHANGED vars
  BY <1>2, <1>11, RestInOrder DEF vars
<1> QED
  BY <1>3, <1>4, <1>5, <1>6, <1>7, <1>8, <1>9, <1>10, <1>11
     DEF Next, Unwinding, Registering, Setting

\* A disposer is handed over at one place.
LEMMA OnePlace ==
  ASSUME NEW e \in Effects, NEW i \in 1..Len(Yields[e]), NEW j \in 1..Len(Yields[e]),
         Yields[e][i] = Yields[e][j]
  PROVE  i = j
  BY ShapeAssumption

LEMMA HandedPlaces ==
  ASSUME WorkTypes, NEW e \in Effects, NEW i \in 1..Len(Yields[e])
  PROVE  Yields[e][i] \in HandedOver(e) <=> i <= yielded[e]
<1>1. Len(Yields[e]) \in Nat /\ yielded[e] \in Nat /\ yielded[e] <= Len(Yields[e])
  BY ShapeAssumption DEF WorkTypes
<1>2. \A k \in 1..yielded[e] : k \in 1..Len(Yields[e])
  BY <1>1
<1>3. i \in Nat /\ (i <= yielded[e] <=> i \in 1..yielded[e])
  BY <1>1
<1> QED
  BY <1>2, <1>3, OnePlace DEF HandedOver

LEMMA AscendsOn ==
  ASSUME NEW e \in Effects, NEW s \in Seq(Disposers), NEW t \in Seq(Disposers), NEW y \in Nat,
         Ascends(e, s), Ascends(e, t),
         \A i \in 1..Len(Yields[e]) : Yields[e][i] \in ToSet(s) => i <= y,
         \A i \in 1..Len(Yields[e]) : Yields[e][i] \in ToSet(t) => i > y
  PROVE  Ascends(e, s \o t)
<1>1. /\ Len(s) \in Nat /\ Len(t) \in Nat /\ DOMAIN s = 1..Len(s) /\ DOMAIN t = 1..Len(t)
      /\ DOMAIN (s \o t) = 1..(Len(s) + Len(t))
      /\ \A m \in 1..(Len(s) + Len(t)) :
           (s \o t)[m] = IF m <= Len(s) THEN s[m] ELSE t[m - Len(s)]
  <2>1. /\ s \o t \in Seq(Disposers) /\ Len(s \o t) = Len(s) + Len(t)
        /\ \A m \in 1..Len(s) + Len(t) :
             (s \o t)[m] = IF m <= Len(s) THEN s[m] ELSE t[m - Len(s)]
    BY ConcatProperties
  <2> QED
    BY <2>1
<1> DEFINE both == s \o t
<1> HIDE DEF both
<1>2. ASSUME NEW m \in DOMAIN both, NEW n \in DOMAIN both, m < n,
             NEW i \in 1..Len(Yields[e]), NEW j \in 1..Len(Yields[e]),
             Yields[e][i] = both[m], Yields[e][j] = both[n]
      PROVE  i < j
  <2>1. CASE n <= Len(s)
    <3>1. m \in DOMAIN s /\ n \in DOMAIN s /\ both[m] = s[m] /\ both[n] = s[n]
      BY <1>1, <1>2, <2>1 DEF both
    <3> QED
      BY <1>2, <3>1 DEF Ascends
  <2>2. CASE ~(m <= Len(s))
    <3>1. /\ m - Len(s) \in DOMAIN t /\ n - Len(s) \in DOMAIN t /\ m - Len(s) < n - Len(s)
          /\ both[m] = t[m - Len(s)] /\ both[n] = t[n - Len(s)]
      BY <1>1, <1>2, <2>2 DEF both
    <3> QED
      BY <1>2, <3>1 DEF Ascends
  <2>3. CASE m <= Len(s) /\ ~(n <= Len(s))
    <3>1. /\ m \in DOMAIN s /\ both[m] = s[m]
          /\ n - Len(s) \in DOMAIN t /\ both[n] = t[n - Len(s)]
      BY <1>1, <1>2, <2>3 DEF both
    <3>2. Yields[e][i] \in ToSet(s) /\ Yields[e][j] \in ToSet(t)
      BY <1>2, <3>1 DEF ToSet
    <3>3. i <= y /\ j > y
      BY <3>2
    <3> QED
      BY <3>3
  <2> QED
    BY <1>1, <1>2, <2>1, <2>2, <2>3 DEF both
<1> QED
  BY <1>2 DEF Ascends, both

LEMMA AscendsNew ==
  ASSUME WorkTypes, NEW e \in Effects, NEW j \in Nat, yielded[e] <= j, j <= Len(Yields[e])
  PROVE  /\ Ascends(e, Recorded(e, yielded[e] + 1, j))
         /\ \A i \in 1..Len(Yields[e]) :
              Yields[e][i] \in ToSet(Recorded(e, yielded[e] + 1, j)) => i > yielded[e]
<1> DEFINE new == Recorded(e, yielded[e] + 1, j)
<1>1. /\ yielded[e] \in Nat /\ Len(Yields[e]) \in Nat /\ yielded[e] + 1 \in Nat \ {0}
      /\ j \in 0..Len(Yields[e]) /\ \A k \in (yielded[e] + 1)..j : k \in 1..Len(Yields[e]) /\ k > yielded[e]
  BY ShapeAssumption DEF WorkTypes
<1>2. ToSet(new) \subseteq {Yields[e][k] : k \in (yielded[e] + 1)..j}
  BY <1>1, RecordedFacts
<1>3. \A m, n \in DOMAIN new : m < n => \E k, l \in (yielded[e] + 1)..j :
        k < l /\ new[m] = Yields[e][k] /\ new[n] = Yields[e][l]
  BY <1>1, RecordedOrder
<1> HIDE DEF new
<1>4. Ascends(e, new)
  <2> SUFFICES ASSUME NEW m \in DOMAIN new, NEW n \in DOMAIN new, m < n,
                      NEW a \in 1..Len(Yields[e]), NEW b \in 1..Len(Yields[e]),
                      Yields[e][a] = new[m], Yields[e][b] = new[n]
               PROVE  a < b
    BY DEF Ascends
  <2>1. PICK k, l \in (yielded[e] + 1)..j : k < l /\ new[m] = Yields[e][k] /\ new[n] = Yields[e][l]
    BY <1>3
  <2>2. a = k /\ b = l
    BY <1>1, <2>1, OnePlace
  <2> QED
    BY <2>1, <2>2
<1>5. ASSUME NEW i \in 1..Len(Yields[e]), Yields[e][i] \in ToSet(new) PROVE i > yielded[e]
  <2>1. PICK k \in (yielded[e] + 1)..j : Yields[e][i] = Yields[e][k]
    BY <1>2, <1>5
  <2>2. i = k
    BY <1>1, <2>1, OnePlace
  <2> QED
    BY <1>1, <2>1, <2>2
<1> QED
  BY <1>4, <1>5 DEF new

\* A setup hands over more.
LEMMA RecordKeeps ==
  ASSUME Whereabouts, Recording, NEW e \in Effects, NEW j \in Nat,
         yielded[e] <= j, j <= Len(Yields[e]), Record(e, j), setup[e] # "failed",
         disposed' = disposed, \A x \in Effects \ {e} : setup'[x] = setup[x]
  PROVE  Recording'
<1> USE DEF Whereabouts
<1> DEFINE new == Recorded(e, yielded[e] + 1, j)
<1>1. /\ yielded[e] \in Nat /\ Len(Yields[e]) \in Nat /\ yielded[e] + 1 \in Nat \ {0}
      /\ j \in 0..Len(Yields[e]) /\ disposers[e] \in Seq(Disposers) /\ Owner[e] \in Scopes
      /\ Yields[e] \in Seq(Disposers \cup {None})
  BY ShapeAssumption DEF WorkTypes
<1>2. /\ Rec(e)' = Rec(e) \cup NewItems(e, j)
      /\ \A x \in Effects \ {e} : disposers'[x] = disposers[x]
      /\ ids'[Owner[e]] = ids[Owner[e]] \cup NewItems(e, j)
      /\ \A s \in Scopes \ {Owner[e]} : ids'[s] = ids[s]
      /\ yielded'[e] = j /\ \A x \in Effects \ {e} : yielded'[x] = yielded[x]
      /\ yielded' \in [Effects -> Nat] /\ \A x \in Effects : yielded'[x] <= Len(Yields[x])
  BY RecordStep
<1>3. disposers'[e] = disposers[e] \o new /\ new \in Seq(Disposers)
  BY <1>1, RecordedFacts DEF Record, WorkTypes
<1>4. /\ Ascends(e, new)
      /\ \A i \in 1..Len(Yields[e]) : Yields[e][i] \in ToSet(new) => i > yielded[e]
  BY AscendsNew
<1> HIDE DEF new
<1>5. ASSUME e \in Sole PROVE Ascends(e, disposers'[e])
  <2>1. Ascends(e, disposers[e])
    BY <1>5 DEF Recording
  <2>2. ASSUME NEW i \in 1..Len(Yields[e]), Yields[e][i] \in ToSet(disposers[e])
        PROVE  i <= yielded[e]
    BY <2>2, HandedPlaces DEF Items, Sourced, Rec
  <2> QED
    BY <1>1, <1>3, <1>4, <2>1, <2>2, AscendsOn
<1>6. ASSUME e \in Sole, ~disposed[e]
      PROVE  HandedOver(e)' \ {None} \subseteq Rec(e)'
  <2> SUFFICES ASSUME NEW k \in 1..j, Yields[e][k] # None PROVE Yields[e][k] \in Rec(e)'
    BY <1>2 DEF HandedOver
  <2>1. k \in 1..Len(Yields[e])
    BY <1>1
  <2>2. CASE k <= yielded[e]
    <3>1. Yields[e][k] \in Rec(e)
      BY <1>6, <2>1, <2>2, HandedPlaces DEF Recording
    <3> QED
      BY <1>2, <3>1
  <2>3. CASE ~(k <= yielded[e])
    <3>1. k \in (yielded[e] + 1)..j /\ k > yielded[e]
      BY <1>1, <2>1, <2>3
    <3>2. Yields[e][k] \notin ids[Owner[e]]
      BY <1>6, <2>1, <3>1 DEF Recording
    <3> QED
      BY <1>2, <3>1, <3>2 DEF NewItems
  <2> QED
    BY <2>2, <2>3
<1>7. ASSUME NEW x \in Sole, NEW k \in 1..Len(Yields[x]), k > yielded'[x]
      PROVE  Yields[x][k] \notin ids'[Owner[x]]
  <2>1. x \in Effects /\ Owner[x] \in Scopes /\ yielded[x] \in Nat /\ k \in Nat
    BY ShapeAssumption DEF Sole, WorkTypes
  <2>2. k > yielded[x]
    BY <1>1, <1>2, <1>7, <2>1
  <2>3. Yields[x][k] \notin ids[Owner[x]]
    BY <1>7, <2>2 DEF Recording
  <2>4. Yields[x][k] \notin NewItems(e, j)
    <3>1. CASE x = e
      <4>1. ASSUME NEW l \in (yielded[e] + 1)..j PROVE Yields[e][l] # Yields[e][k]
        <5>1. l \in 1..Len(Yields[e]) /\ l # k
          BY <1>1, <1>2, <1>7, <2>1, <3>1
        <5> QED
          BY <3>1, <5>1, OnePlace
      <4> QED
        BY <3>1, <4>1 DEF NewItems
    <3>2. CASE x # e
      <4>1. NewItems(e, j) \subseteq Disposers \cap ToSet(Yields[e])
        BY NewIsNew
      <4>2. Yields[x][k] \in ToSet(Yields[x])
        BY <2>1, ShapeAssumption, Elements
      <4> QED
        BY <3>2, <4>1, <4>2 DEF Sole
    <3> QED
      BY <3>1, <3>2
  <2> QED
    BY <1>2, <2>1, <2>3, <2>4
<1>8. ASSUME NEW x \in Sole
      PROVE  /\ Ascends(x, disposers'[x])
             /\ ~disposed'[x] /\ setup'[x] # "failed" => HandedOver(x)' \ {None} \subseteq Rec(x)'
  <2>1. CASE x = e
    BY <1>5, <1>6, <1>8, <2>1
  <2>2. CASE x # e
    <3>1. x \in Effects \ {e}
      BY <2>2 DEF Sole
    <3>2. HandedOver(x)' = HandedOver(x) /\ Rec(x)' = Rec(x)
      BY <1>2, <3>1 DEF HandedOver, Rec
    <3> QED
      BY <1>2, <3>1, <3>2 DEF Recording
  <2> QED
    BY <2>1, <2>2
<1> QED
  BY <1>7, <1>8 DEF Recording, Ascends

LEMMA RecordingAside ==
  ASSUME Recording, UNCHANGED <<disposers, yielded>>,
         \A x \in Effects : disposed[x] => disposed'[x],
         \A x \in Effects : setup[x] = "failed" => setup'[x] = "failed",
         \A s \in Scopes : ids'[s] \subseteq ids[s]
  PROVE  Recording'
<1>1. \A x \in Sole : x \in Effects /\ Owner[x] \in Scopes
  BY ShapeAssumption DEF Sole
<1>2. \A x \in Effects : Rec(x)' = Rec(x) /\ HandedOver(x)' = HandedOver(x)
  BY DEF Rec, HandedOver
<1> QED
  BY <1>1, <1>2 DEF Recording, Ascends

\* A record that is taken, or rolled back, is empty.
LEMMA RecordingDrops ==
  ASSUME WorkTypes, Recording, NEW e \in Effects, disposers'[e] = <<>>,
         disposed'[e] \/ setup'[e] = "failed",
         yielded'[e] \in Nat, yielded[e] <= yielded'[e],
         \A x \in Effects \ {e} : UNCHANGED <<disposers[x], disposed[x], setup[x], yielded[x]>>,
         \A s \in Scopes : ids'[s] \subseteq ids[s]
  PROVE  Recording'
<1>1. \A x \in Sole : x \in Effects /\ Owner[x] \in Scopes /\ yielded[x] \in Nat
  BY ShapeAssumption DEF Sole, WorkTypes
<1>2. ASSUME NEW x \in Sole
      PROVE  /\ Ascends(x, disposers'[x])
             /\ ~disposed'[x] /\ setup'[x] # "failed" => HandedOver(x)' \ {None} \subseteq Rec(x)'
  <2>1. CASE x = e
    BY <2>1 DEF Ascends
  <2>2. CASE x # e
    <3>1. x \in Effects \ {e}
      BY <1>1, <2>2
    <3>2. HandedOver(x)' = HandedOver(x) /\ Rec(x)' = Rec(x)
      BY <3>1 DEF HandedOver, Rec
    <3> QED
      BY <3>1, <3>2 DEF Recording
  <2> QED
    BY <2>1, <2>2
<1>3. ASSUME NEW x \in Sole, NEW k \in 1..Len(Yields[x]), k > yielded'[x]
      PROVE  Yields[x][k] \notin ids'[Owner[x]]
  <2>1. k > yielded[x]
    <3>1. k \in Nat /\ yielded[x] \in Nat
      BY <1>1
    <3> QED
      BY <1>1, <1>3, <3>1
  <2> QED
    BY <1>1, <2>1 DEF Recording
<1> QED
  BY <1>2, <1>3 DEF Recording, Ascends

LEMMA StepRecording ==
  ASSUME IInv, Whereabouts, Recording, [Next]_vars
  PROVE  Recording'
<1> USE DEF Whereabouts
<1>1. /\ setup \in [Effects -> {"none", "running", "done", "failed"}]
      /\ yielded \in [Effects -> Nat] /\ \A e \in Effects : yielded[e] <= Len(Yields[e])
      /\ ids \in [Scopes -> SUBSET Disposers] /\ Owner \in [Effects -> Scopes]
      /\ \A e \in Effects : Len(Yields[e]) \in Nat
  BY ShapeAssumption DEF WorkTypes
<1>2. ASSUME UNCHANGED <<disposers, yielded, disposed, setup, ids>> PROVE Recording'
  BY <1>2, RecordingAside
<1>3. ASSUME NEW s \in Scopes, Child(s) PROVE Recording'
  BY <1>2, <1>3 DEF Child
<1>4. ASSUME NEW e \in Effects, RegisterSync(e) PROVE Recording'
  <2>1. /\ Record(e, Len(Yields[e])) /\ disposed' = disposed /\ setup[e] # "failed"
        /\ \A x \in Effects \ {e} : setup'[x] = setup[x]
    BY <1>1, <1>4 DEF RegisterSync, Register
  <2> QED
    BY <1>1, <2>1, RecordKeeps
<1>5. ASSUME NEW e \in Effects, SetupYields(e) PROVE Recording'
  <2> DEFINE j == IF Shape[e] = "iterator" THEN yielded[e] + 1 ELSE Len(Yields[e])
  <2>1. /\ Record(e, j) /\ UNCHANGED <<disposed, setup>> /\ setup[e] # "failed"
        /\ yielded[e] < Len(Yields[e])
    BY <1>5 DEF SetupYields
  <2>2. j \in Nat /\ yielded[e] <= j /\ j <= Len(Yields[e])
    BY <1>1, <2>1
  <2> HIDE DEF j
  <2> QED
    BY <2>1, <2>2, RecordKeeps
<1>6. ASSUME NEW e \in Effects, RegisterRaises(e) PROVE Recording'
  <2>1. PICK n \in 0..Len(Yields[e]) :
          /\ Rollback(e, Recorded(e, 1, n))
          /\ yielded' = [yielded EXCEPT ![e] = n]
    BY <1>6 DEF RegisterRaises
  <2>2. Recorded(e, 1, n) \in Seq(Disposers)
    BY RecordedFacts
  <2>3. /\ disposers'[e] = <<>> /\ \A x \in Effects \ {e} : disposers'[x] = disposers[x]
        /\ \A s \in Scopes : ids'[s] \subseteq ids[s]
    BY <1>1, <2>1, <2>2, RollbackStep
  <2>4. setup[e] = "none" /\ setup' = [setup EXCEPT ![e] = "failed"] /\ disposed' = disposed
    BY <1>6 DEF RegisterRaises, Register
  <2>5. yielded[e] = 0
    BY <2>4 DEF Staged
  <2>6. n \in Nat
    BY <1>1
  <2> QED
    BY <1>1, <2>1, <2>3, <2>4, <2>5, <2>6, RecordingDrops
<1>7. ASSUME NEW e \in Effects, SetupRaises(e) PROVE Recording'
  <2>1. /\ Rollback(e, disposers[e]) /\ disposers[e] \in Seq(Disposers)
        /\ setup' = [setup EXCEPT ![e] = "failed"] /\ UNCHANGED <<disposed, yielded>>
    BY <1>7 DEF SetupRaises, WorkTypes
  <2>2. /\ disposers'[e] = <<>> /\ \A x \in Effects \ {e} : disposers'[x] = disposers[x]
        /\ \A s \in Scopes : ids'[s] \subseteq ids[s]
    BY <1>1, <2>1, RollbackStep
  <2>3. /\ setup'[e] = "failed" /\ yielded'[e] \in Nat /\ yielded[e] <= yielded'[e]
        /\ \A x \in Effects \ {e} : UNCHANGED <<disposers[x], disposed[x], setup[x], yielded[x]>>
    BY <1>1, <2>1, <2>2
  <2> QED
    BY <2>2, <2>3, RecordingDrops
<1>8. ASSUME NEW e \in Effects, RegisterAsync(e) \/ SetupDone(e) \/ HandleReturns(e)
      PROVE  Recording'
  <2>1. /\ UNCHANGED <<disposers, yielded, disposed, ids>>
        /\ \A x \in Effects : setup[x] = "failed" => setup'[x] = "failed"
    BY <1>1, <1>8 DEF RegisterAsync, Register, SetupDone, HandleReturns
  <2> QED
    BY <2>1, RecordingAside
<1>9. ASSUME NEW r \in Runners, NEW e \in Effects, Take(r, e), UNCHANGED <<yielded, setup>>,
             \A s \in Scopes : ids'[s] \subseteq ids[s]
      PROVE  Recording'
  <2>1. /\ disposers'[e] = <<>> /\ disposed'[e]
        /\ \A x \in Effects \ {e} : disposers'[x] = disposers[x] /\ disposed'[x] = disposed[x]
    BY <1>9, TakeStep
  <2>2. /\ yielded'[e] \in Nat /\ yielded[e] <= yielded'[e]
        /\ \A x \in Effects \ {e} : UNCHANGED <<disposers[x], disposed[x], setup[x], yielded[x]>>
    BY <1>1, <1>9, <2>1
  <2> QED
    BY <1>9, <2>1, <2>2, RecordingDrops
<1>10. ASSUME NEW e \in Effects, CallHandle(e) PROVE Recording'
  BY <1>1, <1>9, <1>10 DEF CallHandle, Runners
<1>11. ASSUME NEW s \in Scopes, UnwindEffect(s) PROVE Recording'
  <2> DEFINE e == Head(unwind[s].todo)
  <2>1. /\ e \in Effects /\ UNCHANGED <<yielded, setup, ids>>
        /\ UNCHANGED <<disposed, disposers>> \/ Take(s, e)
    BY <1>11 DEF UnwindEffect
  <2> HIDE DEF e
  <2> QED
    BY <1>2, <1>9, <2>1 DEF Runners
<1>12. ASSUME NEW s \in Scopes, BeginUnwind(s) \/ UnwindChild(s) \/ ChildUnwound(s) \/ EndUnwind(s)
       PROVE  Recording'
  <2>1. /\ UNCHANGED <<disposers, yielded, disposed, setup>>
        /\ \A t \in Scopes : ids'[t] \subseteq ids[t]
    BY <1>1, <1>12 DEF BeginUnwind, UnwindChild, ChildUnwound, EndUnwind
  <2> QED
    BY <2>1, RecordingAside
<1>13. ASSUME NEW r \in Runners, Running(r) PROVE Recording'
  BY <1>2, <1>13 DEF Running, CallBatch, DisposerDone
<1>14. ASSUME NEW c \in Callers,
              Cancel(c) \/ DisposeReturns(c) \/ \E s \in Scopes : Dispose(c, s)
       PROVE  Recording'
  BY <1>2, <1>14 DEF Cancel, DisposeReturns, Dispose
<1>15. CASE UNCHANGED vars
  BY <1>2, <1>15 DEF vars
<1> QED
  BY <1>3, <1>4, <1>5, <1>6, <1>7, <1>8, <1>10, <1>11, <1>12, <1>13, <1>14, <1>15
     DEF Next, Unwinding, Registering, Setting

\* Where neither the job of a walk nor what it has still to look at grows.
LEMMA WalkingAside ==
  ASSUME Walking, \A s \in Scopes : job'[s] = job[s],
         \A x, y : Before(x, y) => Before(x, y)',
         \A s \in Scopes : job[s] = NoJob \/ ToSet(unwind'[s].todo) \subseteq ToSet(unwind[s].todo)
  PROVE  Walking'
<1>1. ASSUME NEW e \in Sole
      PROVE  /\ Descends(e, job'[Owner[e]].queue) /\ Reaches(e, ToSet(job'[Owner[e]].queue))
             /\ InJob(Owner[e])' = InJob(Owner[e])
             /\ InJob(Owner[e]) \cap ToSet(Yields[e]) # {} =>
                  \A x \in ToSet(unwind'[Owner[e]].todo) : Before(x, e)
  <2>1. Owner[e] \in Scopes
    BY ShapeAssumption DEF Sole
  <2>2. InJob(Owner[e])' = InJob(Owner[e])
    BY <2>1 DEF InJob
  <2>3. job[Owner[e]] = NoJob => InJob(Owner[e]) = {}
    BY DEF InJob, NoJob, ToSet
  <2> QED
    BY <2>1, <2>2, <2>3 DEF Walking
<1>2. ASSUME NEW e \in Sole, NEW x, Before(x, e) PROVE Before(x, e)'
  BY <1>2
<1> QED
  BY <1>1, <1>2 DEF Walking, Descends, Reaches

\* A walk takes the record it comes to.
LEMMA WalkTakes ==
  ASSUME IInv, Whereabouts, Arranged, Recording, Walking, NEW s \in Scopes, UnwindEffect(s)
  PROVE  Walking'
<1> USE DEF Whereabouts
<1> DEFINE todo == unwind[s].todo
           e    == Head(todo)
<1>1. /\ todo # <<>> /\ e \in Effects /\ unwind'[s].todo = Tail(todo) /\ job[s] = NoJob
      /\ \A t \in Scopes \ {s} : unwind'[t] = unwind[t]
      /\ todo \in Seq(Effects \cup Scopes) /\ UNCHANGED <<order, yielded>>
      /\ IF disposed[e] THEN UNCHANGED <<disposed, job, disposers>> ELSE Take(s, e)
  BY DEF UnwindEffect, AtEntry, IInv, TreeTypes, UnwindType
<1>2. \A x, y : Before(x, y)' <=> Before(x, y)
  BY <1>1 DEF Before
<1>3. CASE disposed[e]
  BY <1>1, <1>2, <1>3, WalkingAside
<1>4. CASE ~disposed[e]
  <2>1. /\ job'[s].queue = Reverse(disposers[e]) /\ job'[s].inflight = {}
        /\ \A t \in Runners \ {s} : job'[t] = job[t]
        /\ disposers[e] \in Seq(Disposers)
    <3>1. s \in Runners /\ Take(s, e) /\ job[s].inflight = {}
      BY <1>1, <1>4 DEF Runners, NoJob
    <3> QED
      BY <1>1, <3>1, TakeStep DEF WorkTypes
  <2>2. \A x \in ToSet(Tail(todo)) : Before(x, e)
    <3>1. Backward(todo)
      BY DEF Arranged
    <3> HIDE DEF todo, e
    <3>2. \A x \in ToSet(Tail(todo)) : \E i \in DOMAIN todo : 1 < i /\ x = todo[i]
      <4>1. \A i \in DOMAIN Tail(todo) : i + 1 \in DOMAIN todo /\ 1 < i + 1 /\ Tail(todo)[i] = todo[i + 1]
        BY <1>1
      <4> QED
        BY <4>1 DEF ToSet
    <3>3. 1 \in DOMAIN todo /\ todo[1] = e
      BY <1>1 DEF e
    <3> QED
      BY <3>1, <3>2, <3>3 DEF Backward
  <2>3. Owner[e] = s /\ e \in Listing(s)
    <3>1. e \in ToSet(todo)
      BY <1>1, TailSet
    <3> QED
      BY <1>1, <3>1 DEF Staged, Listing
  <2> HIDE DEF e, todo
  <2>4. /\ ToSet(job'[s].queue) = Rec(e) /\ InJob(s)' = Rec(e)
        /\ Rec(e) \subseteq HandedOver(e) /\ Rec(e) \subseteq Disposers \cap ToSet(Yields[e])
    <3>1. ToSet(job'[s].queue) = Rec(e)
      BY <2>1, ReverseIsSeq DEF Rec
    <3>2. Rec(e) \subseteq HandedOver(e)
      BY <1>1 DEF Items, Sourced
    <3> QED
      BY <1>1, <2>1, <3>1, <3>2, Sets DEF InJob
  <2>5. ASSUME NEW x \in Sole, Owner[x] # s
        PROVE  /\ job'[Owner[x]] = job[Owner[x]] /\ InJob(Owner[x])' = InJob(Owner[x])
               /\ unwind'[Owner[x]] = unwind[Owner[x]]
    <3>1. Owner[x] \in Scopes \ {s} /\ Owner[x] \in Runners \ {s}
      BY <2>5, ShapeAssumption DEF Sole, Runners
    <3> QED
      BY <1>1, <2>1, <3>1 DEF InJob
  <2>6. ASSUME NEW x \in Sole, x # e
        PROVE  Rec(e) \cap ToSet(Yields[x]) = {} /\ \A i \in 1..Len(Yields[x]) : Yields[x][i] \in ToSet(Yields[x])
    <3>1. x \in Effects /\ Yields[x] \in Seq(Disposers \cup {None})
      BY ShapeAssumption DEF Sole
    <3> QED
      BY <1>1, <2>4, <2>6, <3>1, Elements DEF Sole
  <2>7. ASSUME e \in Sole
        PROVE  Descends(e, job'[s].queue) /\ Reaches(e, Rec(e))
    <3>1. Ascends(e, disposers[e])
      BY <2>7 DEF Recording
    <3>2. Descends(e, Reverse(disposers[e]))
      <4> DEFINE seq == disposers[e]
      <4>1. seq \in Seq(Disposers) /\ Ascends(e, seq)
        BY <2>1, <3>1
      <4> HIDE DEF seq
      <4>2. /\ DOMAIN Reverse(seq) = DOMAIN seq
            /\ \A i \in DOMAIN seq : /\ (Len(seq) - i) + 1 \in DOMAIN seq
                                     /\ Reverse(seq)[i] = seq[(Len(seq) - i) + 1]
            /\ \A i, j \in DOMAIN seq : i < j => (Len(seq) - j) + 1 < (Len(seq) - i) + 1
        BY <4>1, ReverseAt
      <4> SUFFICES ASSUME NEW m \in DOMAIN seq, NEW n \in DOMAIN seq, m < n,
                          NEW i \in 1..Len(Yields[e]), NEW j \in 1..Len(Yields[e]),
                          Yields[e][i] = Reverse(seq)[m], Yields[e][j] = Reverse(seq)[n]
                   PROVE  j < i
        BY <4>2 DEF Descends, seq
      <4> DEFINE a == (Len(seq) - n) + 1
                 b == (Len(seq) - m) + 1
      <4>3. a \in DOMAIN seq /\ b \in DOMAIN seq /\ a < b /\ Yields[e][j] = seq[a] /\ Yields[e][i] = seq[b]
        BY <4>2
      <4> HIDE DEF a, b
      <4> QED
        BY <4>1, <4>3 DEF Ascends
    <3>3. Reaches(e, Rec(e))
      <4> SUFFICES ASSUME NEW i \in 1..Len(Yields[e]), NEW j \in 1..Len(Yields[e]), i < j,
                          Yields[e][j] \in Rec(e), Yields[e][i] # None
                   PROVE  Yields[e][i] \in Rec(e)
        BY DEF Reaches
      <4>1. setup[e] # "failed"
        BY <1>1 DEF Staged, Rec, ToSet
      <4>2. j <= yielded[e]
        BY <1>1, <2>4, HandedPlaces
      <4>3. i <= yielded[e]
        BY <1>1, <4>2 DEF WorkTypes
      <4> QED
        BY <1>1, <1>4, <2>7, <4>1, <4>3, HandedPlaces DEF Recording
    <3> QED
      BY <2>1, <3>2, <3>3
  <2>8. ASSUME NEW x \in Sole
        PROVE  /\ Descends(x, job'[Owner[x]].queue) /\ Reaches(x, ToSet(job'[Owner[x]].queue))
               /\ InJob(Owner[x])' \cap ToSet(Yields[x]) # {} =>
                    \A y \in ToSet(unwind'[Owner[x]].todo) : Before(y, x)
    <3>1. CASE Owner[x] # s
      BY <2>5, <3>1 DEF Walking
    <3>2. CASE x = e
      BY <1>1, <2>2, <2>3, <2>4, <2>7, <3>2
    <3>3. CASE Owner[x] = s /\ x # e
      <4>1. \A m \in DOMAIN job'[s].queue : job'[s].queue[m] \in Rec(e)
        BY <2>4 DEF ToSet
      <4>2. \A i \in 1..Len(Yields[x]) : Yields[x][i] \notin Rec(e)
        BY <2>6, <3>3
      <4> QED
        BY <2>4, <2>6, <3>3, <4>1, <4>2 DEF Descends, Reaches
    <3> QED
      BY <2>3, <3>1, <3>2, <3>3
  <2> QED
    BY <1>2, <2>8 DEF Walking, Descends, Reaches
<1> QED
  BY <1>3, <1>4

\* A walk that calls a batch, or whose batch comes to its end, has less to do.
LEMMA WalkRuns ==
  ASSUME Whereabouts, Walking, NEW s \in Scopes, Running(s)
  PROVE  Walking'
<1> USE DEF Whereabouts
<1> DEFINE queue == job[s].queue
<1>1. /\ InJob(s)' \subseteq InJob(s) /\ \A t \in Runners \ {s} : job'[t] = job[t]
      /\ UNCHANGED <<order, unwind>> /\ s \in Runners
  <2>1. s \in Runners
    BY DEF Runners
  <2> QED
    BY <2>1, RunStep DEF Items, Running, CallBatch, DisposerDone
<1>2. queue \in Seq(Disposers)
  BY <1>1 DEF WorkTypes, JobType
<1>3. \E n \in 0..Len(queue) : job'[s].queue = SubSeq(queue, n + 1, Len(queue))
  <2>1. CASE CallBatch(s)
    <3> DEFINE n    == BatchLength(queue)
               rest == SubSeq(queue, n + 1, Len(queue))
    <3>1. queue # <<>>
      BY <2>1 DEF CallBatch
    <3>2. n \in 0..Len(queue)
      BY <1>2, <3>1, BatchFacts
    <3>3. job'[s].queue = rest
      <4>1. \/ job' = [job EXCEPT ![s].queue = rest]
            \/ job' = [job EXCEPT ![s] = [queue |-> rest, inflight |-> ToSet(SubSeq(queue, 1, n))]]
        BY <2>1 DEF CallBatch
      <4> HIDE DEF rest, n, queue
      <4> QED
        BY <1>1, <4>1 DEF WorkTypes, JobType
    <3> HIDE DEF n
    <3> QED
      BY <3>2, <3>3
  <2>2. CASE \E d \in Disposers : DisposerDone(s, d)
    <3>1. job'[s].queue = queue
      BY <1>1, <2>2 DEF DisposerDone, WorkTypes, JobType
    <3> HIDE DEF queue
    <3>2. queue = SubSeq(queue, 0 + 1, Len(queue)) /\ 0 \in 0..Len(queue)
      BY <1>2
    <3> QED
      BY <3>1, <3>2
  <2> QED
    BY <2>1, <2>2 DEF Running
<1>4. PICK n \in 0..Len(queue) : job'[s].queue = SubSeq(queue, n + 1, Len(queue))
  BY <1>3
<1> DEFINE rest == SubSeq(queue, n + 1, Len(queue))
<1> HIDE DEF queue
<1>5. /\ rest \in Seq(Disposers) /\ DOMAIN rest = 1..(Len(queue) - n) /\ n \in Nat
      /\ \A i \in DOMAIN rest : n + i \in DOMAIN queue /\ rest[i] = queue[n + i]
      /\ DOMAIN queue = 1..Len(queue) /\ Len(queue) \in Nat
  BY <1>2, Split
<1> HIDE DEF rest
<1>6. ASSUME NEW e \in Effects, Descends(e, queue) PROVE Descends(e, rest)
  <2> SUFFICES ASSUME NEW k \in DOMAIN rest, NEW l \in DOMAIN rest, k < l,
                      NEW i \in 1..Len(Yields[e]), NEW j \in 1..Len(Yields[e]),
                      Yields[e][i] = rest[k], Yields[e][j] = rest[l]
               PROVE  j < i
    BY DEF Descends
  <2>1. n + k < n + l
    BY <1>5
  <2> QED
    BY <1>5, <1>6, <2>1 DEF Descends
<1>7. ASSUME NEW e \in Effects, Descends(e, queue), Reaches(e, ToSet(queue))
      PROVE  Reaches(e, ToSet(rest))
  <2> SUFFICES ASSUME NEW i \in 1..Len(Yields[e]), NEW j \in 1..Len(Yields[e]), i < j,
                      Yields[e][j] \in ToSet(rest), Yields[e][i] # None
               PROVE  Yields[e][i] \in ToSet(rest)
    BY DEF Reaches
  <2>1. PICK q \in DOMAIN rest : Yields[e][j] = rest[q]
    BY DEF ToSet
  <2>2. n + q \in DOMAIN queue /\ Yields[e][j] = queue[n + q]
    BY <1>5, <2>1
  <2>3. Yields[e][j] \in ToSet(queue)
    BY <2>2 DEF ToSet
  <2>4. Yields[e][i] \in ToSet(queue)
    BY <1>7, <2>3 DEF Reaches
  <2>5. PICK p \in DOMAIN queue : Yields[e][i] = queue[p]
    BY <2>4 DEF ToSet
  <2>6. p # n + q
    <3>1. i # j
      BY ShapeAssumption
    <3> QED
      BY <2>2, <2>5, <3>1, OnePlace
  <2>7. ~(p < n + q)
    <3>1. p < n + q => j < i
      BY <1>7, <2>2, <2>5 DEF Descends
    <3>2. i \in Nat /\ j \in Nat
      BY ShapeAssumption
    <3> QED
      BY <3>1, <3>2
  <2>8. p - n \in DOMAIN rest /\ n + (p - n) = p
    BY <1>5, <2>1, <2>6, <2>7
  <2> QED
    BY <1>5, <2>5, <2>8 DEF ToSet
<1>8. ASSUME NEW e \in Sole
      PROVE  /\ Descends(e, job'[Owner[e]].queue) /\ Reaches(e, ToSet(job'[Owner[e]].queue))
             /\ InJob(Owner[e])' \subseteq InJob(Owner[e])
  <2>1. e \in Effects /\ Owner[e] \in Runners
    BY ShapeAssumption DEF Sole, Runners
  <2>2. CASE Owner[e] = s
    BY <1>1, <1>4, <1>6, <1>7, <2>1, <2>2 DEF Walking, queue, rest
  <2>3. CASE Owner[e] # s
    BY <1>1, <2>1, <2>3 DEF Walking, InJob
  <2> QED
    BY <2>2, <2>3
<1> QED
  BY <1>1, <1>8 DEF Walking, Descends, Reaches, Before

LEMMA StepWalking ==
  ASSUME IInv, Idle, Whereabouts, Registered, Arranged, Recording, Walking, [Next]_vars
  PROVE  Walking'
<1> USE DEF Whereabouts
<1>1. unwind \in UnwindType /\ job \in JobType /\ order \in Seq(Effects \cup Scopes)
  BY DEF IInv, TreeTypes, WorkTypes
<1>2. ASSUME UNCHANGED <<job, unwind>>,
             order' = order \/ \E z \in Effects \cup Scopes : order' = Append(order, z)
      PROVE  Walking'
  <2>1. \A x, y : Before(x, y) => Before(x, y)'
    <3>1. CASE order' = order
      BY <3>1 DEF Before
    <3>2. CASE \E z \in Effects \cup Scopes : order' = Append(order, z)
      BY <1>1, <3>2, BeforeGrows
    <3> QED
      BY <1>2, <3>1, <3>2
  <2> QED
    BY <1>2, <2>1, WalkingAside
<1>3. ASSUME NEW s \in Scopes, Child(s) PROVE Walking'
  <2>1. order' = Append(order, s) /\ job' = job
        /\ unwind' = [unwind EXCEPT ![s].pc = "open"]
    BY <1>3 DEF Child
  <2>2. \A x, y : Before(x, y) => Before(x, y)'
    BY <1>1, <2>1, BeforeGrows
  <2>3. \A t \in Scopes : unwind'[t].todo = unwind[t].todo
    BY <1>1, <2>1 DEF UnwindType
  <2> QED
    BY <2>1, <2>2, <2>3, WalkingAside
<1>4. ASSUME NEW e \in Effects, Registering(e) PROVE Walking'
  BY <1>2, <1>4 DEF Registering, RegisterSync, RegisterRaises, RegisterAsync
<1>5. ASSUME NEW e \in Effects, Setting(e) \/ HandleReturns(e) PROVE Walking'
  BY <1>2, <1>5 DEF Setting, SetupYields, SetupDone, SetupRaises, HandleReturns
\* Where the order and the jobs of the walks stay.
<1>6. ASSUME order' = order, \A s \in Scopes : job'[s] = job[s],
             \A s \in Scopes : \/ job[s] = NoJob
                               \/ ToSet(unwind'[s].todo) \subseteq ToSet(unwind[s].todo)
      PROVE  Walking'
  <2>1. \A x, y : Before(x, y) => Before(x, y)'
    BY <1>6 DEF Before
  <2> QED
    BY <1>6, <2>1, WalkingAside
<1>7. ASSUME NEW e \in Effects, CallHandle(e) PROVE Walking'
  <2>1. order' = order /\ unwind' = unwind /\ Take(e, e)
    BY <1>7 DEF CallHandle
  <2>2. \A s \in Scopes : job'[s] = job[s]
    BY <1>1, <2>1, ShapeAssumption DEF Take, JobType, Runners
  <2> QED
    BY <1>6, <2>1, <2>2
<1>8. ASSUME NEW s \in Scopes, BeginUnwind(s) PROVE Walking'
  <2>1. /\ UNCHANGED <<order, job>> /\ job[s] = NoJob
        /\ \A t \in Scopes \ {s} : unwind'[t] = unwind[t]
    BY <1>1, <1>8 DEF BeginUnwind, Idle, UnwindType
  <2> QED
    BY <1>6, <2>1
<1>9. ASSUME NEW s \in Scopes, UnwindChild(s) \/ ChildUnwound(s) \/ EndUnwind(s)
      PROVE  Walking'
  <2>1. UNCHANGED <<order, job>> /\ \A t \in Scopes : t = s \/ unwind'[t].todo = unwind[t].todo
    <3>1. CASE UnwindChild(s)
      <4> DEFINE c == Head(unwind[s].todo)
      <4>1. unwind' = [unwind EXCEPT ![s].pc = "child",
                                     ![c].pc = IF @ = "open" THEN "spawned" ELSE @]
            /\ c \in Scopes /\ UNCHANGED <<order, job>>
        BY <3>1 DEF UnwindChild
      <4> HIDE DEF c
      <4> QED
        BY <1>1, <4>1 DEF UnwindType
    <3>2. CASE ChildUnwound(s) \/ EndUnwind(s)
      BY <1>1, <3>2 DEF ChildUnwound, EndUnwind, UnwindType
    <3> QED
      BY <1>9, <3>1, <3>2
  <2>2. job[s] = NoJob
    BY <1>9 DEF UnwindChild, ChildUnwound, EndUnwind, AtEntry, Idle
  <2> QED
    BY <1>6, <2>1, <2>2
<1>10. ASSUME NEW s \in Scopes, UnwindEffect(s) PROVE Walking'
  BY <1>10, WalkTakes
<1>11. ASSUME NEW r \in Runners, Running(r) PROVE Walking'
  <2>1. CASE r \in Scopes
    BY <1>11, <2>1, WalkRuns
  <2>2. CASE r \notin Scopes
    <3>1. UNCHANGED <<order, unwind>>
      BY <1>11 DEF Running, CallBatch, DisposerDone
    <3>2. \A s \in Scopes : job'[s] = job[s]
      BY <1>11, <2>2, RunStep DEF Items, Runners
    <3> QED
      BY <1>6, <3>1, <3>2
  <2> QED
    BY <2>1, <2>2
<1>12. ASSUME NEW c \in Callers,
              Cancel(c) \/ DisposeReturns(c) \/ \E s \in Scopes : Dispose(c, s)
       PROVE  Walking'
  <2>1. UNCHANGED <<order, job>> /\ \A t \in Scopes : unwind'[t].todo = unwind[t].todo
    <3>1. CASE Cancel(c) \/ DisposeReturns(c)
      BY <3>1 DEF Cancel, DisposeReturns
    <3>2. ASSUME NEW s \in Scopes, Dispose(c, s)
          PROVE  /\ UNCHANGED <<order, job>>
                 /\ unwind' = [unwind EXCEPT ![s].pc = IF @ = "open" THEN "spawned" ELSE @]
      BY <3>2 DEF Dispose, StartUnwind
    <3> QED
      BY <1>1, <1>12, <3>1, <3>2 DEF UnwindType
  <2> QED
    BY <1>6, <2>1
<1>13. CASE UNCHANGED vars
  BY <1>2, <1>13 DEF vars
<1> QED
  BY <1>3, <1>4, <1>5, <1>7, <1>8, <1>9, <1>10, <1>11, <1>12, <1>13 DEF Next, Unwinding

LEMMA InitOrder == Init => Order
<1> SUFFICES ASSUME Init PROVE Order
  OBVIOUS
<1>1. /\ order = <<>> /\ entries = [s \in Scopes |-> <<>>] /\ ids = [s \in Scopes |-> {}]
      /\ disposers = [e \in Effects |-> <<>>] /\ yielded = [e \in Effects |-> 0]
      /\ \A s \in Scopes : unwind[s].todo = <<>> /\ job[s] = NoJob
  BY DEF Init, Runners
<1>2. ToSet(<<>>) = {} /\ DOMAIN <<>> = {}
  BY DEF ToSet
<1>3. Registered
  BY <1>1, <1>2 DEF Registered, Once
<1>4. Arranged
  BY <1>1, <1>2 DEF Arranged, Chronological, Backward
<1>5. ASSUME NEW e \in Sole
      PROVE  /\ e \in Effects /\ Owner[e] \in Scopes /\ disposers[e] = <<>> /\ HandedOver(e) = {}
             /\ ids[Owner[e]] = {} /\ job[Owner[e]].queue = <<>> /\ InJob(Owner[e]) = {}
  BY <1>1, <1>2, ShapeAssumption DEF Sole, HandedOver, NoJob, InJob
<1>6. Recording
  BY <1>2, <1>5 DEF Recording, Ascends
<1>7. Walking
  BY <1>2, <1>5 DEF Walking, Descends, Reaches
<1> QED
  BY <1>3, <1>4, <1>6, <1>7 DEF Order

LEMMA AlwaysOrder ==
  ASSUME SharedPlainly
  PROVE  Spec => []Order
<1>1. IInv /\ Reports /\ Whereabouts /\ Order /\ [Next]_vars => Order'
  BY StepArranged, StepRecording, StepWalking DEF Reports, Order
<1> QED
  BY <1>1, InitOrder, AlwaysWhereabouts, Invariant, AlwaysReports, PTL DEF Spec

\* Nothing is called of a queue that does not get shorter.
LEMMA CalledNone ==
  ASSUME NEW r, Len(job[r].queue) \in Nat, Len(job'[r].queue) \in Nat,
         Len(job[r].queue) <= Len(job'[r].queue)
  PROVE  Called(r) = {}
<1> DEFINE n == Len(job[r].queue) - Len(job'[r].queue)
<1>1. Called(r) = {job[r].queue[i] : i \in 1..n}
  BY DEF Called
<1>2. \A a, b \in Nat : a <= b => a - b \in Int /\ a - b < 1
  OBVIOUS
<1>3. n \in Int /\ n < 1
  BY <1>2
<1> HIDE DEF n
<1>4. ASSUME NEW i \in 1..n PROVE FALSE
  BY <1>3, <1>4
<1> QED
  BY <1>1, <1>4

\* Only a batch that is called makes the queue of a walk shorter.
LEMMA CalledByBatch ==
  ASSUME IInv, Whereabouts, NEW s \in Scopes, NEW d \in Called(s), [Next]_vars
  PROVE  CallBatch(s) /\ \E m \in 1..BatchLength(job[s].queue) : d = job[s].queue[m]
<1> USE DEF Whereabouts
<1> DEFINE queue == job[s].queue
<1>1. job \in JobType /\ s \in Runners /\ queue \in Seq(Disposers) /\ Len(queue) \in Nat
  BY DEF WorkTypes, JobType, Runners
<1>2. ASSUME job'[s].queue = queue PROVE FALSE
  <2>1. Len(job'[s].queue) = Len(job[s].queue)
    BY <1>2
  <2> QED
    BY <1>1, <2>1, CalledNone
<1>3. ASSUME queue = <<>>, job'[s].queue \in Seq(Disposers) PROVE FALSE
  <2>1. Len(job'[s].queue) \in Nat
    BY <1>3
  <2>2. Len(job[s].queue) <= Len(job'[s].queue)
    BY <1>1, <1>3, <2>1
  <2> QED
    BY <1>1, <2>1, <2>2, CalledNone
<1>4. ASSUME UNCHANGED job PROVE FALSE
  BY <1>2, <1>4
<1>5. ~UNCHANGED vars
  BY <1>4 DEF vars
<1>6. ASSUME NEW t \in Scopes,
             Child(t) \/ BeginUnwind(t) \/ UnwindChild(t) \/ ChildUnwound(t) \/ EndUnwind(t)
      PROVE  FALSE
  BY <1>4, <1>6 DEF Child, BeginUnwind, UnwindChild, ChildUnwound, EndUnwind
<1>7. ASSUME NEW e \in Effects, Registering(e) \/ Setting(e) \/ HandleReturns(e) PROVE FALSE
  BY <1>4, <1>7 DEF Registering, RegisterSync, RegisterRaises, RegisterAsync, Setting,
                    SetupYields, SetupDone, SetupRaises, HandleReturns
<1>8. ASSUME NEW e \in Effects, CallHandle(e) PROVE FALSE
  <2>1. Take(e, e) /\ e \in Runners /\ s # e
    BY <1>8, ShapeAssumption DEF CallHandle, Runners
  <2> QED
    BY <1>1, <1>2, <2>1, TakeStep
<1>9. ASSUME NEW t \in Scopes, UnwindEffect(t) PROVE FALSE
  <2> DEFINE e == Head(unwind[t].todo)
  <2>1. /\ e \in Effects /\ job[t] = NoJob /\ t \in Runners
        /\ job' = job \/ Take(t, e)
    BY <1>9 DEF UnwindEffect, AtEntry, Runners
  <2> HIDE DEF e
  <2>2. CASE job' = job
    BY <1>4, <2>2
  <2>3. CASE Take(t, e)
    <3>1. job' \in JobType /\ \A r \in Runners \ {t} : job'[r] = job[r]
      BY <2>1, <2>3, TakeStep
    <3>2. s = t
      BY <1>1, <1>2, <3>1
    <3>3. job'[s].queue \in Seq(Disposers) /\ queue = <<>>
      BY <1>1, <2>1, <3>1, <3>2 DEF JobType, NoJob
    <3> QED
      BY <1>3, <3>3
  <2> QED
    BY <2>1, <2>2, <2>3
<1>10. ASSUME NEW c \in Callers, Cancel(c) \/ DisposeReturns(c) \/ \E t \in Scopes : Dispose(c, t)
       PROVE  FALSE
  BY <1>4, <1>10 DEF Cancel, DisposeReturns, Dispose
<1>11. PICK r \in Runners : Running(r)
  BY <1>5, <1>6, <1>7, <1>8, <1>9, <1>10 DEF Next, Unwinding
<1>12. r = s
  <2>1. \A x \in Runners \ {r} : job'[x] = job[x]
    BY <1>11, RunStep DEF Items
  <2> QED
    BY <1>1, <1>2, <2>1
<1>13. CallBatch(s)
  <2>1. ASSUME NEW x \in Disposers, DisposerDone(s, x) PROVE FALSE
    BY <1>1, <1>2, <2>1 DEF DisposerDone, JobType
  <2> QED
    BY <1>11, <1>12, <2>1 DEF Running
<1>14. \E m \in 1..BatchLength(queue) : d = queue[m]
  <2> DEFINE n    == BatchLength(queue)
             rest == SubSeq(queue, n + 1, Len(queue))
  <2>1. queue # <<>>
    BY <1>13 DEF CallBatch
  <2>2. n \in 1..Len(queue)
    BY <1>1, <2>1, BatchFacts
  <2>3. job'[s].queue = rest
    <3>1. \/ job' = [job EXCEPT ![s].queue = rest]
          \/ job' = [job EXCEPT ![s] = [queue |-> rest, inflight |-> ToSet(SubSeq(queue, 1, n))]]
      BY <1>13 DEF CallBatch
    <3> HIDE DEF rest, n, queue
    <3> QED
      BY <1>1, <3>1 DEF JobType
  <2> HIDE DEF n, queue
  <2>4. Len(rest) = Len(queue) - n
    BY <1>1, <2>2, Split
  <2>5. Len(queue) - Len(job'[s].queue) = n
    BY <1>1, <2>2, <2>3, <2>4
  <2> QED
    BY <2>5 DEF Called, queue, n
<1> QED
  BY <1>13, <1>14

\* What was registered later has been unwound.
LEMMA LaterUnwound ==
  ASSUME IInv, Idle, Whereabouts, Order, NEW s \in Scopes, NEW e \in Sole, Owner[e] = s,
         NEW d \in InJob(s), d \in ToSet(Yields[e]),
         NEW x \in {y \in Effects : Owner[y] = s} \cup {c \in Scopes : ParentOf[c] = s},
         Before(e, x)
  PROVE  ~StillOwed(x)
<1> USE DEF Whereabouts
<1>1. unwind[s].pc = "walk"
  BY DEF Idle, NoJob, InJob, ToSet
<1>2. \A y \in ToSet(unwind[s].todo) : Before(y, e)
  BY DEF Order, Walking
<1>3. x \notin ToSet(unwind[s].todo)
  BY <1>2, NotBoth DEF Order, Registered, WorkTypes
<1>4. CASE x \in Effects
  <2>1. x \notin Scopes /\ Owner[x] = s
    BY <1>4, ShapeAssumption
  <2>2. ~ToUnwind(x)
    BY <1>1, <1>3, <2>1 DEF ToUnwind
  <2>3. disposed[x] \/ setup[x] \in {"none", "failed"}
    BY <1>4, <2>2 DEF Enlisted, WorkTypes
  <2> QED
    BY <1>4, <2>1, <2>3 DEF StillOwed, Staged
<1>5. CASE x \in Scopes
  <2>1. ParentOf[x] = s /\ ParentOf[x] # None
    BY <1>5, ShapeAssumption
  <2>2. unwind[x].pc # "absent"
    <3>1. x \in ToSet(order)
      BY DEF Before, ToSet
    <3> QED
      BY <1>5, <3>1 DEF Order, Registered
  <2>3. ~Owed(x)
    BY <1>1, <1>3, <2>1 DEF Owed
  <2> QED
    BY <1>5, <2>1, <2>2, <2>3 DEF StillOwed, IInv, Reachable
<1> QED
  BY <1>4, <1>5

\* Nor does the batch get in front of a disposer behind a synchronous one.
LEMMA BatchInOrder ==
  ASSUME Whereabouts, Order, NEW s \in Scopes, NEW e \in Sole, Owner[e] = s, CallBatch(s),
         NEW m \in 1..BatchLength(job[s].queue)
  PROVE  LaterDone(s, e, job[s].queue[m])
<1> USE DEF Whereabouts
<1> DEFINE queue == job[s].queue
           b     == BatchLength(queue)
<1>1. /\ queue \in Seq(Disposers) /\ queue # <<>> /\ job[s].inflight = {} /\ Len(queue) \in Nat
      /\ DOMAIN queue = 1..Len(queue) /\ e \in Effects
  BY DEF WorkTypes, JobType, Runners, CallBatch, Ready, Sole
<1>2. /\ b \in 1..Len(queue)
      /\ Kind[queue[1]] # "async" => b = 1
      /\ Kind[queue[1]] = "async" => \A i \in 1..b : Kind[queue[i]] = "async"
  BY <1>1, BatchFacts
<1>3. Descends(e, queue) /\ Reaches(e, ToSet(queue))
  BY DEF Order, Walking
<1>4. InJob(s) = ToSet(queue)
  BY <1>1 DEF InJob
<1> SUFFICES ASSUME NEW i \in 1..Len(Yields[e]), NEW j \in 1..Len(Yields[e]), i < j,
                    Yields[e][i] = queue[m], Yields[e][j] \in ToSet(queue),
                    NEW k \in i..j, Yields[e][k] # None, Kind[Yields[e][k]] # "async"
             PROVE  FALSE
  BY <1>4 DEF LaterDone
<1> HIDE DEF b, queue
<1>5. m \in 1..b /\ m \in DOMAIN queue
  BY <1>1, <1>2 DEF b, queue
<1>6. Len(Yields[e]) \in Nat /\ i \in Nat /\ j \in Nat /\ k \in 1..Len(Yields[e])
  BY <1>1, ShapeAssumption
<1>7. PICK q \in DOMAIN queue : Yields[e][j] = queue[q]
  BY DEF ToSet
<1>8. q < m
  <2>1. q # m
    <3>1. i # j
      BY <1>6
    <3> QED
      BY <1>1, <1>7, <3>1, OnePlace
  <2>2. ~(m < q)
    <3>1. m < q => j < i
      BY <1>3, <1>5, <1>7 DEF Descends
    <3> QED
      BY <1>6, <3>1
  <2> QED
    BY <1>1, <1>5, <2>1, <2>2
<1>9. \A p \in 1..m : Kind[queue[p]] = "async"
  <2>1. b # 1
    BY <1>1, <1>2, <1>5, <1>7, <1>8
  <2> QED
    BY <1>1, <1>2, <1>5, <2>1
<1>10. PICK p \in DOMAIN queue : Yields[e][k] = queue[p]
  <2>1. Yields[e][k] \in ToSet(queue)
    <3>1. CASE k = j
      BY <3>1
    <3>2. CASE k # j
      <4>1. k < j
        BY <1>6, <3>2
      <4> QED
        BY <1>3, <1>6, <4>1 DEF Reaches
    <3> QED
      BY <3>1, <3>2
  <2> QED
    BY <2>1 DEF ToSet
<1>11. ~(m < p)
  <2>1. m < p => k < i
    BY <1>3, <1>5, <1>6, <1>10 DEF Descends
  <2> QED
    BY <1>6, <2>1
<1>12. p \in 1..m
  BY <1>1, <1>5, <1>10, <1>11
<1> QED
  BY <1>9, <1>10, <1>12

\* What UnwindOrder says of some of the effects.
UnwindsInOrder(E) ==
  \A s \in Scopes, e \in E :
    Owner[e] = s => \A d \in Called(s) \cap ToSet(Yields[e]) :
      /\ LaterDone(s, e, d)
      /\ \A x \in {y \in Effects : Owner[y] = s} \cup {c \in Scopes : ParentOf[c] = s} :
           Before(e, x) => ~StillOwed(x)

\* SEM-002, SEM-006, of every effect that shares no disposer with another one, whatever
\* the others share: the unwind of a scope calls a disposer of it only when every effect
\* and child scope registered later has been unwound, and every disposer behind a
\* synchronous one has finished.
THEOREM SoleUnwindInOrder ==
  ASSUME SharedPlainly
  PROVE  Spec => [][UnwindsInOrder(Sole)]_vars
<1>1. ASSUME IInv, Reports, Whereabouts, Order, [Next]_vars
      PROVE  UnwindsInOrder(Sole)
  <2> SUFFICES ASSUME NEW s \in Scopes, NEW e \in Sole, Owner[e] = s,
                      NEW d \in Called(s), d \in ToSet(Yields[e])
               PROVE  /\ LaterDone(s, e, d)
                      /\ \A x \in {y \in Effects : Owner[y] = s} \cup {c \in Scopes : ParentOf[c] = s} :
                           Before(e, x) => ~StillOwed(x)
    BY DEF UnwindsInOrder
  <2>1. CallBatch(s)
    BY <1>1, CalledByBatch
  <2>2. PICK m \in 1..BatchLength(job[s].queue) : d = job[s].queue[m]
    BY <1>1, CalledByBatch
  <2>3. LaterDone(s, e, d)
    BY <1>1, <2>1, <2>2, BatchInOrder
  <2>4. d \in InJob(s)
    <3> DEFINE queue == job[s].queue
    <3>1. queue \in Seq(Disposers) /\ queue # <<>>
      BY <1>1, <2>1 DEF CallBatch, Whereabouts, WorkTypes, JobType, Runners
    <3>2. BatchLength(queue) \in 1..Len(queue)
      BY <3>1, BatchFacts
    <3> HIDE DEF queue
    <3>3. m \in 1..Len(queue)
      BY <2>2, <3>1, <3>2 DEF queue
    <3> QED
      BY <2>2, <3>1, <3>3, Elements DEF InJob, queue
  <2> QED
    BY <1>1, <2>3, <2>4, LaterUnwound DEF Reports
<1>2. IInv /\ Reports /\ Whereabouts /\ Order /\ [Next]_vars => [UnwindsInOrder(Sole)]_vars
  BY <1>1
<1> QED
  BY <1>2, AlwaysOrder, AlwaysWhereabouts, AlwaysReports, Invariant, PTL DEF Spec

\* SEM-002, SEM-006: where no two effects hand over the same disposer, teardown goes
\* backwards through what was registered, child scopes included, and through the
\* disposers of each effect, with the synchronous ones as barriers.
THEOREM UnwindOrderHolds ==
  ASSUME Sole = Effects
  PROVE  Spec => UnwindOrder
<1>1. SharedPlainly
  BY DEF Sole, SharedPlainly
<1>2. UnwindsInOrder(Sole) <=>
        \A s \in Scopes, e \in Effects :
          Owner[e] = s => \A d \in Called(s) \cap ToSet(Yields[e]) :
            /\ LaterDone(s, e, d)
            /\ \A x \in {y \in Effects : Owner[y] = s} \cup {c \in Scopes : ParentOf[c] = s} :
                 Before(e, x) => ~StillOwed(x)
  BY DEF UnwindsInOrder
<1>3. Spec => [][UnwindsInOrder(Sole)]_vars
  BY <1>1, SoleUnwindInOrder
<1> QED
  BY <1>2, <1>3, PTL DEF UnwindOrder

----------------------------------------------------------------------------
(* Types *)

\* What is left of a queue, and what is taken from it, are disposers.
LEMMA RunTypes ==
  ASSUME WorkTypes, NEW r \in Runners, Running(r)
  PROVE  /\ job' \in JobType /\ held' \in SUBSET Disposers
         /\ errors' \in [Runners -> SUBSET Disposers] /\ loop' \in Runners \cup {None}
<1> DEFINE queue == job[r].queue
           n     == BatchLength(queue)
           rest  == SubSeq(queue, n + 1, Len(queue))
           front == SubSeq(queue, 1, n)
<1>1. /\ job[r] \in [queue : Seq(Disposers), inflight : SUBSET Disposers]
      /\ queue \in Seq(Disposers) /\ job \in JobType
  BY DEF WorkTypes, JobType
<1>2. ASSUME NEW d \in Disposers, NEW raised \in {{}, {d}},
             errors' = errors \/ errors' = [errors EXCEPT ![r] = @ \cup raised]
      PROVE  errors' \in [Runners -> SUBSET Disposers]
  BY <1>2 DEF WorkTypes
<1>3. CASE \E d \in Disposers : DisposerDone(r, d)
  <2>1. PICK d \in Disposers : DisposerDone(r, d)
    BY <1>3
  <2>2. /\ job' = [job EXCEPT ![r].inflight = @ \ {d}] /\ held' = held \ {d} /\ loop' = loop
        /\ \E raised \in {{}, {d}} : errors' = [errors EXCEPT ![r] = @ \cup raised]
    BY <2>1 DEF DisposerDone
  <2> QED
    BY <1>1, <1>2, <2>2 DEF WorkTypes, JobType
<1>4. CASE CallBatch(r)
  <2>1. queue # <<>>
    BY <1>4 DEF CallBatch
  <2>2. n \in 1..Len(queue)
    BY <1>1, <2>1, BatchFacts
  <2>3. rest \in Seq(Disposers) /\ ToSet(front) \in SUBSET Disposers /\ queue[1] \in Disposers
    BY <1>1, <2>1, <2>2 DEF ToSet
  <2>4. \/ /\ job' = [job EXCEPT ![r].queue = rest] /\ held' = held \ {queue[1]} /\ loop' = r
           /\ \E raised \in {{}, {queue[1]}} : errors' = [errors EXCEPT ![r] = @ \cup raised]
        \/ /\ job' = [job EXCEPT ![r] = [queue |-> rest, inflight |-> ToSet(front)]]
           /\ loop' = None /\ UNCHANGED <<held, errors>>
    BY <1>4 DEF CallBatch
  <2> HIDE DEF queue, n, rest, front
  <2>5. job' \in JobType
    <3>1. CASE job' = [job EXCEPT ![r].queue = rest]
      BY <1>1, <2>3, <3>1 DEF JobType
    <3>2. CASE job' = [job EXCEPT ![r] = [queue |-> rest, inflight |-> ToSet(front)]]
      <4>1. [queue |-> rest, inflight |-> ToSet(front)]
              \in [queue : Seq(Disposers), inflight : SUBSET Disposers]
        BY <2>3
      <4> QED
        BY <1>1, <3>2, <4>1 DEF JobType
    <3> QED
      BY <2>4, <3>1, <3>2
  <2>6. errors' \in [Runners -> SUBSET Disposers]
    BY <1>2, <2>3, <2>4
  <2> QED
    BY <2>4, <2>5, <2>6 DEF WorkTypes
<1> QED
  BY <1>3, <1>4 DEF Running

LEMMA RegisterTypes ==
  ASSUME WorkTypes, NEW e \in Effects, Registering(e) \/ Setting(e)
  PROVE  WorkTypes'
<1>1. /\ Len(Yields[e]) \in Nat /\ Owner[e] \in Scopes
      /\ yielded[e] \in Nat /\ yielded[e] <= Len(Yields[e])
  BY ShapeAssumption DEF WorkTypes
<1>2. /\ UNCHANGED <<loop, disposed, unwind, job, errors>>
      /\ order' = order \/ order' = Append(order, e)
      /\ \/ setup' = setup
         \/ \E now \in {"running", "done", "failed"} : setup' = [setup EXCEPT ![e] = now]
  BY DEF Registering, RegisterSync, RegisterRaises, RegisterAsync, Setting, SetupYields,
         SetupDone, SetupRaises
<1>3. setup' \in [Effects -> {"none", "running", "done", "failed"}]
  BY <1>2 DEF WorkTypes
<1>4. order' \in Seq(Effects \cup Scopes)
  <2>1. order \in Seq(Effects \cup Scopes) /\ e \in Effects \cup Scopes
    BY DEF WorkTypes
  <2> QED
    BY ONLY <1>2, <2>1
<1>5. ASSUME NEW j \in Nat, yielded[e] <= j, j <= Len(Yields[e]), Record(e, j)
      PROVE  WorkTypes'
  BY <1>2, <1>3, <1>4, <1>5, RecordStep DEF WorkTypes
<1>6. ASSUME NEW own \in Seq(Disposers), Rollback(e, own),
             yielded' \in [Effects -> Nat],
             \A x \in Effects : yielded'[x] <= Len(Yields[x])
      PROVE  WorkTypes'
  BY <1>2, <1>3, <1>4, <1>6, RollbackStep DEF WorkTypes
<1>7. CASE RegisterSync(e)
  BY <1>1, <1>5, <1>7 DEF RegisterSync
<1>8. CASE RegisterRaises(e)
  <2>1. PICK n \in 0..Len(Yields[e]) :
          /\ Rollback(e, Recorded(e, 1, n))
          /\ yielded' = [yielded EXCEPT ![e] = n]
    BY <1>8 DEF RegisterRaises
  <2>2. Recorded(e, 1, n) \in Seq(Disposers)
    BY <1>1, RecordedFacts
  <2>3. yielded' \in [Effects -> Nat] /\ \A x \in Effects : yielded'[x] <= Len(Yields[x])
    BY <1>1, <2>1 DEF WorkTypes
  <2> QED
    BY <1>6, <2>1, <2>2, <2>3
<1>9. CASE SetupYields(e)
  <2> DEFINE j == IF Shape[e] = "iterator" THEN yielded[e] + 1 ELSE Len(Yields[e])
  <2>1. Record(e, j) /\ j \in Nat /\ yielded[e] <= j /\ j <= Len(Yields[e])
    BY <1>1, <1>9 DEF SetupYields
  <2> HIDE DEF j
  <2> QED
    BY <1>5, <2>1
<1>10. CASE SetupRaises(e)
  <2>1. Rollback(e, disposers[e]) /\ yielded' = yielded
    BY <1>10 DEF SetupRaises
  <2> QED
    BY <1>6, <2>1 DEF WorkTypes
<1>11. CASE RegisterAsync(e) \/ SetupDone(e)
  <2>1. UNCHANGED <<ids, yielded, disposers, held>>
    BY <1>11 DEF RegisterAsync, SetupDone
  <2> QED
    BY <1>2, <1>3, <1>4, <2>1 DEF WorkTypes
<1> QED
  BY <1>7, <1>8, <1>9, <1>10, <1>11 DEF Registering, Setting

LEMMA UnwindTypes ==
  ASSUME IInv, WorkTypes, NEW s \in Scopes, Child(s) \/ Unwinding(s)
  PROVE  WorkTypes'
<1>1. s \in Runners
  BY DEF Runners
<1>2. CASE Child(s)
  <2>1. order \in Seq(Effects \cup Scopes) /\ s \in Effects \cup Scopes
    BY DEF WorkTypes
  <2>2. order' \in Seq(Effects \cup Scopes)
    BY <1>2, <2>1 DEF Child
  <2> QED
    BY <1>2, <2>2 DEF Child, WorkTypes
<1>3. CASE UnwindEffect(s)
  <2>1. PICK e \in Effects : UNCHANGED <<disposed, job, disposers>> \/ Take(s, e)
    BY <1>3 DEF UnwindEffect
  <2>2. /\ job' \in JobType /\ disposed' \in [Effects -> BOOLEAN]
        /\ disposers' \in [Effects -> Seq(Disposers)]
    BY <1>1, <2>1, TakeStep DEF WorkTypes
  <2> QED
    BY <1>1, <1>3, <2>2 DEF UnwindEffect, WorkTypes
<1>4. CASE BeginUnwind(s) \/ UnwindChild(s) \/ EndUnwind(s)
  <2>1. /\ loop' \in {s, None}
        /\ ids' = ids \/ ids' = [ids EXCEPT ![s] = {}]
        /\ UNCHANGED <<setup, yielded, disposers, disposed, job, errors, held, order>>
    BY <1>4 DEF BeginUnwind, UnwindChild, EndUnwind
  <2> QED
    BY <1>1, <2>1 DEF WorkTypes
<1>5. CASE ChildUnwound(s)
  <2>1. unwind[s].todo # <<>> /\ unwind[s].todo \in Seq(Effects \cup Scopes)
    BY <1>5 DEF ChildUnwound, IInv, Shapes, TreeTypes, UnwindType
  <2>2. Head(unwind[s].todo) \in Runners
    BY <2>1 DEF Runners
  <2> QED
    BY <1>1, <1>5, <2>2 DEF ChildUnwound, WorkTypes
<1> QED
  BY <1>2, <1>3, <1>4, <1>5 DEF Unwinding

LEMMA StepWorkTypes == IInv /\ WorkTypes /\ [Next]_vars => WorkTypes'
<1> SUFFICES ASSUME IInv, WorkTypes, [Next]_vars PROVE WorkTypes'
  OBVIOUS
<1>1. ASSUME NEW e \in Effects, CallHandle(e) PROVE WorkTypes'
  <2>1. e \in Runners /\ Take(e, e) /\ loop' \in {None, e}
        /\ ids' = [ids EXCEPT ![Owner[e]] = @ \ ToSet(disposers[e])]
        /\ UNCHANGED <<setup, yielded, errors, held, order>>
    BY <1>1 DEF CallHandle, Runners
  <2>2. ids' \in [Scopes -> SUBSET Disposers]
    BY <2>1 DEF WorkTypes
  <2> QED
    BY <2>1, <2>2, TakeStep DEF WorkTypes
<1>2. ASSUME NEW e \in Effects, HandleReturns(e) PROVE WorkTypes'
  BY <1>2 DEF HandleReturns, WorkTypes
<1>3. ASSUME NEW r \in Runners, Running(r) PROVE WorkTypes'
  <2>1. UNCHANGED <<ids, setup, yielded, disposers, disposed, order>>
    BY <1>3 DEF Running, CallBatch, DisposerDone
  <2> QED
    BY <1>3, <2>1, RunTypes DEF WorkTypes
<1>4. ASSUME NEW c \in Callers,
             Cancel(c) \/ DisposeReturns(c) \/ \E s \in Scopes : Dispose(c, s)
      PROVE  WorkTypes'
  BY <1>4 DEF Cancel, DisposeReturns, Dispose, WorkTypes
<1>5. CASE UNCHANGED vars
  BY <1>5 DEF vars, WorkTypes
<1> QED
  BY <1>1, <1>2, <1>3, <1>4, <1>5, RegisterTypes, UnwindTypes DEF Next

\* Every variable has its type, whatever effects share.
THEOREM TypeOKHolds == Spec => []TypeOK
<1>1. Init => WorkTypes
  BY InitWhereabouts DEF Whereabouts
<1>2. Spec => []WorkTypes
  BY <1>1, StepWorkTypes, Invariant, PTL DEF Spec
<1>3. IInv /\ WorkTypes => TypeOK
  BY DEF IInv, TreeTypes, UnwindType, CallerType, WorkTypes, JobType, TypeOK
<1> QED
  BY <1>2, <1>3, Invariant, PTL

=============================================================================
