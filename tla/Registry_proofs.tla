--------------------------- MODULE Registry_proofs --------------------------
(***************************************************************************)
(* Proofs about Registry, for every set of providers and listeners, every  *)
(* tree of contexts and every nesting of realms.                           *)
(***************************************************************************)
EXTENDS Registry, SequenceTheorems, TLAPS

Frame == [kind : {"added", "removed"}, of : Providers, todo : Seq(Consumers),
          at : Consumers \cup {None}, raised : BOOLEAN]

\* The types of all but what consumers have heard and seen.
BindingTypes ==
  /\ held \in [Names \X Realms -> Providers \cup {None}]
  /\ published \subseteq Providers
  /\ phase \in [Providers -> {"new", "opening", "announcing", "bound", "stranded",
                              "unbinding", "closing", "gone", "failed"}]
  /\ disposed \subseteq Providers
  /\ scope \in [Providers -> {"open", "closing", "taken"}]
  /\ stack \in Seq(Frame)
  /\ listeners \in Seq(Consumers)

\* Who claims a key is in it, and who is in a key claims it.
HeldByClaim ==
  /\ \A p \in Providers : Claims(p) => held[Key(p)] = p
  /\ \A k \in Names \X Realms : held[k] # None => Claims(held[k]) /\ Key(held[k]) = k

\* A binding that waits for its gate is not visible yet.
Hidden == \A p \in Providers : phase[p] \in {"new", "opening"} => p \notin published

PhaseOf(f) == IF f.kind = "added" THEN "announcing" ELSE "unbinding"

\* The announcements in progress are of bindings in the middle of it, and of
\* each one at most; a binding being announced has its announcement.
Announced ==
  /\ \A i \in 1..Len(stack) : phase[stack[i].of] = PhaseOf(stack[i])
  /\ \A i, j \in 1..Len(stack) : stack[i].of = stack[j].of => i = j
  /\ \A p \in Providers : phase[p] = "announcing" => \E i \in 1..Len(stack) : stack[i].of = p

\* A disposed record has no disposer, and a registration in progress cannot
\* outlive its scope without its record being disposed.
Owned ==
  \A p \in Providers :
    /\ phase[p] = "bound" => p \notin disposed
    /\ scope[p] = "taken" /\ phase[p] \in {"opening", "announcing", "bound"} => p \in disposed

IInv == BindingTypes /\ HeldByClaim /\ Hidden /\ Announced /\ Owned
----------------------------------------------------------------------------
(* Walks along a chain: up[x] is what x extends, or none *)

Rooted(D, none, up) ==
  /\ none \notin D /\ up \in [D -> D \cup {none}]
  /\ \A S \in SUBSET D : S # {} => \E x \in S : up[x] \notin S

Upward(D, up, A) == \A z \in A : up[z] \in D => up[z] \in A

\* x and all above it: the least set that has x and what each of its members
\* extends.
Path(D, up, x) == {y \in D : \A A \in SUBSET D : x \in A /\ Upward(D, up, A) => y \in A}

LEMMA PathUp ==
  ASSUME NEW D, NEW none, NEW up, Rooted(D, none, up), NEW x \in D
  PROVE  /\ Path(D, up, x) \subseteq D /\ x \in Path(D, up, x)
         /\ Upward(D, up, Path(D, up, x))
         /\ \A A \in SUBSET D : x \in A /\ Upward(D, up, A) => Path(D, up, x) \subseteq A
<1>1. Path(D, up, x) \subseteq D /\ x \in Path(D, up, x)
  BY DEF Path
<1>2. ASSUME NEW z \in Path(D, up, x), up[z] \in D PROVE up[z] \in Path(D, up, x)
  <2> SUFFICES ASSUME NEW A \in SUBSET D, x \in A, Upward(D, up, A) PROVE up[z] \in A
    BY <1>2 DEF Path
  <2>1. z \in A
    BY DEF Path
  <2> QED
    BY <1>2, <2>1 DEF Upward
<1>3. \A A \in SUBSET D : x \in A /\ Upward(D, up, A) => Path(D, up, x) \subseteq A
  BY DEF Path
<1> QED
  BY <1>1, <1>2, <1>3 DEF Upward

LEMMA PathOn ==
  ASSUME NEW D, NEW none, NEW up, Rooted(D, none, up), NEW x \in D
  PROVE  Path(D, up, x) = {x} \cup IF up[x] = none THEN {} ELSE Path(D, up, up[x])
<1>1. /\ Path(D, up, x) \subseteq D /\ x \in Path(D, up, x)
      /\ Upward(D, up, Path(D, up, x))
      /\ \A A \in SUBSET D : x \in A /\ Upward(D, up, A) => Path(D, up, x) \subseteq A
  BY PathUp
<1>2. CASE up[x] = none
  <2>1. none \notin D
    BY DEF Rooted
  <2>2. {x} \in SUBSET D /\ Upward(D, up, {x})
    BY <1>2, <2>1 DEF Upward
  <2>3. Path(D, up, x) \subseteq {x}
    BY <1>1, <2>2
  <2> QED
    BY <1>1, <1>2, <2>3
<1>3. CASE up[x] # none
  <2>1. up[x] \in D
    BY <1>3 DEF Rooted
  <2> DEFINE above == Path(D, up, up[x])
  <2>2. /\ above \subseteq D /\ up[x] \in above /\ Upward(D, up, above)
        /\ \A A \in SUBSET D : up[x] \in A /\ Upward(D, up, A) => above \subseteq A
    BY <2>1, PathUp
  <2>3. up[x] \in Path(D, up, x)
    BY <1>1, <2>1 DEF Upward
  <2>4. above \subseteq Path(D, up, x)
    BY <1>1, <2>2, <2>3
  <2>5. {x} \cup above \in SUBSET D /\ Upward(D, up, {x} \cup above)
    BY <2>2 DEF Upward
  <2>6. Path(D, up, x) \subseteq {x} \cup above
    BY <1>1, <2>5
  <2> QED
    BY <1>1, <1>3, <2>4, <2>6
<1> QED
  BY <1>2, <1>3

\* Nothing is above itself.
LEMMA PathOnce ==
  ASSUME NEW D, NEW none, NEW up, Rooted(D, none, up), NEW x \in D,
         NEW y \in Path(D, up, x), x \in Path(D, up, y)
  PROVE  x = y
<1> SUFFICES ASSUME x # y PROVE FALSE
  OBVIOUS
<1> DEFINE S == {z \in Path(D, up, x) : x \in Path(D, up, z)}
<1>1. Path(D, up, x) \subseteq D /\ x \in Path(D, up, x) /\ Upward(D, up, Path(D, up, x))
  BY PathUp
<1>2. ASSUME NEW z \in S PROVE up[z] \in S
  <2>1. z \in D /\ x \in Path(D, up, z)
    BY <1>1
  <2>2. Path(D, up, z) = {z} \cup IF up[z] = none THEN {} ELSE Path(D, up, up[z])
    BY <2>1, PathOn
  <2>3. CASE z # x
    <3>1. up[z] # none /\ x \in Path(D, up, up[z])
      BY <2>1, <2>2, <2>3
    <3>2. up[z] \in D
      BY <2>1, <3>1 DEF Rooted
    <3> QED
      BY <1>1, <3>1, <3>2 DEF Upward
  <2>4. CASE z = x
    <3>1. up[x] # none /\ y \in Path(D, up, up[x])
      BY <2>2, <2>4
    <3>2. up[x] \in D
      BY <2>1, <2>4, <3>1 DEF Rooted
    <3>3. y \in D /\ Path(D, up, up[x]) \subseteq D /\ Upward(D, up, Path(D, up, up[x]))
      BY <3>1, <3>2, PathUp
    <3>4. Path(D, up, y) \subseteq Path(D, up, up[x])
      BY <3>1, <3>3, PathUp
    <3> QED
      BY <1>1, <2>4, <3>2, <3>4 DEF Upward
  <2> QED
    BY <2>3, <2>4
<1>3. S \in SUBSET D /\ x \in S
  BY <1>1
<1> QED
  BY <1>2, <1>3 DEF Rooted

\* A walk that stops at the first member of `stop` it meets: what it returns.
Met(D, up, stop, x) == Path(D, up, x) \cap stop
Nearest(D, up, S)   == CHOOSE y \in S : S \subseteq Path(D, up, y)
Found(D, up, S, val, last) == IF S = {} THEN last ELSE val[Nearest(D, up, S)]
Walk(D, up, stop, val, last) ==
  [x \in D |-> Found(D, up, Met(D, up, stop, x), val, last)]

LEMMA WalkEnds ==
  ASSUME NEW D, NEW none, NEW up, Rooted(D, none, up),
         NEW stop \in SUBSET D, NEW val, NEW last, NEW x \in D
  PROVE  Walk(D, up, stop, val, last)[x] =
           IF x \in stop THEN val[x]
           ELSE IF up[x] = none THEN last
           ELSE Walk(D, up, stop, val, last)[up[x]]
<1> DEFINE value(y) == Found(D, up, Met(D, up, stop, y), val, last)
<1>1. \A y \in D : Walk(D, up, stop, val, last)[y] = value(y)
  BY DEF Walk
<1>2. Path(D, up, x) = {x} \cup IF up[x] = none THEN {} ELSE Path(D, up, up[x])
  BY PathOn
<1>3. CASE x \in stop
  <2> DEFINE S == Met(D, up, stop, x)
  <2>1. x \in S /\ S \subseteq Path(D, up, x)
    BY <1>2, <1>3 DEF Met
  <2>2. \A y \in S : S \subseteq Path(D, up, y) => y = x
    BY <2>1, PathOnce
  <2> HIDE DEF S
  <2>3. Nearest(D, up, S) = x
    BY <2>1, <2>2 DEF Nearest
  <2>4. Found(D, up, S, val, last) = val[x]
    BY <2>1, <2>3 DEF Found
  <2> QED
    BY <1>1, <1>3, <2>4 DEF S
<1>4. CASE x \notin stop /\ up[x] = none
  <2>1. Met(D, up, stop, x) = {}
    BY <1>2, <1>4 DEF Met
  <2>2. value(x) = last
    BY <2>1 DEF Found
  <2> QED
    BY <1>1, <1>4, <2>2
<1>5. CASE x \notin stop /\ up[x] # none
  <2>1. Met(D, up, stop, x) = Met(D, up, stop, up[x])
    BY <1>2, <1>5 DEF Met
  <2>2. up[x] \in D
    BY <1>5 DEF Rooted
  <2> QED
    BY <1>1, <1>5, <2>1, <2>2
<1> QED
  BY <1>3, <1>4, <1>5

----------------------------------------------------------------------------
(* Contexts, realms and what a name resolves to *)

LEMMA Trees == Rooted(Contexts, None, Above) /\ Rooted(Realms, None, Outer)
  BY RegistryAssumption, TreeAssumption DEF Rooted

\* Where a frame says in which realm a name is.
Says(n)  == {y \in Contexts : Isolates[y][n] # None \/ Enters[y] # None}
Decision(n) == [y \in Contexts |-> IF Isolates[y][n] # None THEN Isolates[y][n] ELSE Enters[y]]

LEMMA RealmForWalks ==
  ASSUME NEW n \in Names
  PROVE  \A x \in Contexts :
           /\ RealmFor(x, n) = IF x \in Says(n) THEN Decision(n)[x]
                               ELSE IF Above[x] = None THEN DefaultRealm
                               ELSE RealmFor(Above[x], n)
           /\ RealmFor(x, n) \in Realms
<1> DEFINE Unfold(f) ==
             [y \in Contexts |->
                IF Isolates[y][n] # None THEN Isolates[y][n]
                ELSE IF Enters[y] # None THEN Enters[y]
                ELSE IF Above[y] = None THEN DefaultRealm
                ELSE f[Above[y]]]
           of == CHOOSE f : f = Unfold(f)
<1>1. \E f : f = Unfold(f)
  <2>1. Says(n) \in SUBSET Contexts
    BY DEF Says
  <2> DEFINE f == Walk(Contexts, Above, Says(n), Decision(n), DefaultRealm)
  <2>2. \A x \in Contexts : f[x] = IF x \in Says(n) THEN Decision(n)[x]
                                  ELSE IF Above[x] = None THEN DefaultRealm
                                  ELSE f[Above[x]]
    <3>1. Rooted(Contexts, None, Above)
      BY Trees
    <3> QED
      BY <2>1, <3>1, WalkEnds
  <2>3. f = [x \in Contexts |-> f[x]]
    BY DEF Walk
  <2> HIDE DEF f
  <2>4. \A x \in Contexts : f[x] = Unfold(f)[x]
    BY <2>2 DEF Says, Decision
  <2>5. Unfold(f) = [x \in Contexts |-> Unfold(f)[x]]
    OBVIOUS
  <2> HIDE DEF Unfold
  <2>6. f = Unfold(f)
    BY <2>3, <2>4, <2>5
  <2> QED
    BY <2>6
<1>2. of = Unfold(of)
  <2> HIDE DEF Unfold
  <2> QED
    BY <1>1
<1>3. \A x \in Contexts : RealmFor(x, n) = of[x]
  BY DEF RealmFor
<1> HIDE DEF of
<1>4. \A x \in Contexts :
        of[x] = IF Isolates[x][n] # None THEN Isolates[x][n]
                ELSE IF Enters[x] # None THEN Enters[x]
                ELSE IF Above[x] = None THEN DefaultRealm
                ELSE of[Above[x]]
  BY <1>2
<1> HIDE DEF Unfold
<1>5. \A x \in Contexts : Above[x] # None => Above[x] \in Contexts
  BY RegistryAssumption
<1>6. \A x \in Contexts :
        of[x] = IF x \in Says(n) THEN Decision(n)[x]
                ELSE IF Above[x] = None THEN DefaultRealm
                ELSE of[Above[x]]
  BY <1>4 DEF Says, Decision
<1>7. \A x \in Contexts : of[x] \in Realms
  <2> DEFINE S == {x \in Contexts : of[x] \notin Realms}
  <2>1. S = {}
    <3> SUFFICES ASSUME S # {} PROVE FALSE
      OBVIOUS
    <3>1. PICK x \in S : Above[x] \notin S
      BY TreeAssumption
    <3>2. Above[x] # None => of[Above[x]] \in Realms
      BY <1>5, <3>1
    <3>3. /\ Isolates[x][n] \in Realms \cup {None} /\ Enters[x] \in Realms \cup {None}
          /\ DefaultRealm \in Realms
      BY RegistryAssumption, <3>1
    <3> QED
      BY <1>4, <3>1, <3>2, <3>3
  <2> QED
    BY <2>1
<1> QED
  BY <1>3, <1>5, <1>6, <1>7

LEMMA KeyInRealm == \A p \in Providers : Key(p) \in Names \X Realms
  BY RealmForWalks, RegistryAssumption DEF Key

----------------------------------------------------------------------------
(* The stack of announcements *)

LEMMA Frames ==
  ASSUME stack \in Seq(Frame)
  PROVE  \A i \in 1..Len(stack) : stack[i] \in Frame /\ stack[i].of \in Providers
<1>1. \A i \in 1..Len(stack) : stack[i] \in Frame
  OBVIOUS
<1>2. \A f \in Frame : f.of \in Providers
  BY DEF Frame
<1> QED
  BY <1>1, <1>2

\* A frame pushed: the others move down by one.
LEMMA Push ==
  ASSUME stack \in Seq(Frame), NEW f \in Frame, stack' = <<f>> \o stack
  PROVE  /\ stack' \in Seq(Frame) /\ Len(stack') = Len(stack) + 1 /\ Len(stack) \in Nat
         /\ stack'[1] = f
         /\ \A i \in 1..Len(stack) : stack'[i + 1] = stack[i]
<1>1. <<f>> \in Seq(Frame) /\ Len(<<f>>) = 1 /\ <<f>>[1] = f
  OBVIOUS
<1> DEFINE one == <<f>>
<1>2. one \in Seq(Frame) /\ Len(one) = 1 /\ one[1] = f /\ stack' = one \o stack
  BY <1>1
<1> HIDE DEF one
<1> QED
  BY <1>2

\* The first frame popped: the others move up by one.
LEMMA Pop ==
  ASSUME stack \in Seq(Frame), stack # <<>>
  PROVE  /\ Top = stack[1] /\ Top \in Frame /\ 1 \in 1..Len(stack)
         /\ Tail(stack) \in Seq(Frame) /\ Len(Tail(stack)) = Len(stack) - 1 /\ Len(stack) \in Nat
         /\ \A i \in 1..(Len(stack) - 1) : Tail(stack)[i] = stack[i + 1]
<1>1. Top = stack[1] /\ Len(stack) \in Nat \ {0} /\ Top \in Frame
  BY DEF Top
<1>2. /\ Tail(stack) \in Seq(Frame) /\ Len(Tail(stack)) = Len(stack) - 1
      /\ \A i \in 1..(Len(stack) - 1) : Tail(stack)[i] = stack[i + 1]
  OBVIOUS
<1> QED
  BY <1>1, <1>2

\* A binding whose announcement begins.
LEMMA PushStep ==
  ASSUME BindingTypes, Announced, NEW f \in Frame, stack' = <<f>> \o stack,
         phase[f.of] \notin {"announcing", "unbinding"},
         phase' = [phase EXCEPT ![f.of] = PhaseOf(f)]
  PROVE  stack' \in Seq(Frame) /\ Announced'
<1> USE DEF BindingTypes, Announced
<1>1. /\ stack' \in Seq(Frame) /\ Len(stack') = Len(stack) + 1 /\ Len(stack) \in Nat
      /\ stack'[1] = f
      /\ \A i \in 1..Len(stack) : stack'[i + 1] = stack[i]
  BY Push
<1>2. \A i \in 1..Len(stack) : stack[i] \in Frame /\ stack[i].of \in Providers
  BY Frames
<1>3. f.of \in Providers /\ \A g \in Frame : PhaseOf(g) \in {"announcing", "unbinding"}
  BY DEF Frame, PhaseOf
<1>4. ASSUME NEW i \in 1..Len(stack')
      PROVE  i = 1 \/ (i - 1 \in 1..Len(stack) /\ stack'[i] = stack[i - 1])
  BY <1>1
<1>5. \A i \in 1..Len(stack) : stack[i].of # f.of
  BY <1>2, <1>3
<1>6. \A i \in 1..Len(stack') : phase'[stack'[i].of] = PhaseOf(stack'[i])
  BY <1>1, <1>2, <1>3, <1>4, <1>5
<1>7. \A i, j \in 1..Len(stack') : stack'[i].of = stack'[j].of => i = j
  BY <1>1, <1>4, <1>5
<1>8. ASSUME NEW p \in Providers, phase'[p] = "announcing"
      PROVE  \E i \in 1..Len(stack') : stack'[i].of = p
  <2>1. CASE p = f.of
    BY <1>1, <2>1
  <2>2. CASE p # f.of
    <3>1. PICK i \in 1..Len(stack) : stack[i].of = p
      BY <1>3, <1>8, <2>2
    <3> QED
      BY <1>1, <3>1
  <2> QED
    BY <2>1, <2>2
<1>9. \A g \in Frame : PhaseOf(g)' = PhaseOf(g)
  BY DEF PhaseOf
<1> QED
  BY <1>1, <1>6, <1>7, <1>8 DEF PhaseOf

\* A binding whose announcement ends.
LEMMA PopStep ==
  ASSUME BindingTypes, Announced, stack # <<>>, stack' = Tail(stack),
         NEW x, x \notin {"announcing", "unbinding"},
         phase' = [phase EXCEPT ![Top.of] = x]
  PROVE  stack' \in Seq(Frame) /\ Announced'
<1> USE DEF BindingTypes, Announced
<1>1. /\ Top = stack[1] /\ Top \in Frame /\ 1 \in 1..Len(stack)
      /\ stack' \in Seq(Frame) /\ Len(stack') = Len(stack) - 1 /\ Len(stack) \in Nat
      /\ \A i \in 1..Len(stack') : stack'[i] = stack[i + 1] /\ i + 1 \in 1..Len(stack)
  BY Pop
<1>2. \A i \in 1..Len(stack) : stack[i] \in Frame /\ stack[i].of \in Providers
  BY Frames
<1>3. \A i \in 1..Len(stack') : stack'[i].of # Top.of
  BY <1>1
<1>4. \A i \in 1..Len(stack') : phase'[stack'[i].of] = PhaseOf(stack'[i])
  BY <1>1, <1>2, <1>3
<1>5. \A i, j \in 1..Len(stack') : stack'[i].of = stack'[j].of => i = j
  BY <1>1
<1>6. ASSUME NEW p \in Providers, phase'[p] = "announcing"
      PROVE  \E i \in 1..Len(stack') : stack'[i].of = p
  <2>1. p # Top.of /\ phase[p] = "announcing"
    BY <1>1, <1>2, <1>6
  <2>2. PICK i \in 1..Len(stack) : stack[i].of = p
    BY <2>1
  <2>3. i - 1 \in 1..Len(stack') /\ (i - 1) + 1 = i
    <3>1. i # 1
      BY <1>1, <2>1, <2>2
    <3> QED
      BY <1>1, <3>1
  <2>4. stack'[i - 1] = stack[i]
    BY <1>1, <2>3
  <2> QED
    BY <2>2, <2>3, <2>4
<1> QED
  BY <1>1, <1>4, <1>5, <1>6 DEF PhaseOf

\* The first announcement goes on.
LEMMA TopStep ==
  ASSUME BindingTypes, Announced, stack # <<>>, UNCHANGED phase,
         NEW f \in Frame, f.of = Top.of, f.kind = Top.kind, stack' = <<f>> \o Tail(stack)
  PROVE  stack' \in Seq(Frame) /\ Announced'
<1> USE DEF BindingTypes, Announced
<1>1. /\ Top = stack[1] /\ Top \in Frame /\ 1 \in 1..Len(stack)
      /\ Tail(stack) \in Seq(Frame) /\ Len(Tail(stack)) = Len(stack) - 1 /\ Len(stack) \in Nat
      /\ \A i \in 1..(Len(stack) - 1) : Tail(stack)[i] = stack[i + 1]
  BY Pop
<1> DEFINE one  == <<f>>
           rest == Tail(stack)
<1>2. one \in Seq(Frame) /\ Len(one) = 1 /\ one[1] = f
  OBVIOUS
<1>3. /\ rest \in Seq(Frame) /\ Len(rest) = Len(stack) - 1 /\ stack' = one \o rest
      /\ \A i \in 1..(Len(stack) - 1) : rest[i] = stack[i + 1]
  BY <1>1
<1> HIDE DEF one, rest
<1>4. /\ stack' \in Seq(Frame) /\ Len(stack') = Len(stack) /\ stack'[1] = f
      /\ \A i \in 1..(Len(stack) - 1) : stack'[i + 1] = stack[i + 1]
  BY <1>1, <1>2, <1>3
<1>5. \A i \in 1..Len(stack) : stack'[i].of = stack[i].of /\ stack'[i].kind = stack[i].kind
  <2> TAKE i \in 1..Len(stack)
  <2>1. CASE i = 1
    BY <1>1, <1>4, <2>1
  <2>2. CASE i # 1
    <3>1. i - 1 \in 1..(Len(stack) - 1) /\ (i - 1) + 1 = i
      BY <1>1, <2>2
    <3> QED
      BY <1>4, <3>1
  <2> QED
    BY <2>1, <2>2
<1>6. \A i \in 1..Len(stack') : phase'[stack'[i].of] = PhaseOf(stack'[i])
  BY <1>4, <1>5 DEF PhaseOf
<1>7. \A i, j \in 1..Len(stack') : stack'[i].of = stack'[j].of => i = j
  BY <1>4, <1>5
<1>8. ASSUME NEW p \in Providers, phase'[p] = "announcing"
      PROVE  \E i \in 1..Len(stack') : stack'[i].of = p
  <2>1. PICK i \in 1..Len(stack) : stack[i].of = p
    BY <1>8
  <2> QED
    BY <1>4, <1>5, <2>1
<1> QED
  BY <1>4, <1>6, <1>7, <1>8 DEF PhaseOf

\* Nothing is announced.
LEMMA QuietStep ==
  ASSUME BindingTypes, Announced, UNCHANGED stack, NEW p \in Providers,
         phase[p] \notin {"announcing", "unbinding"},
         NEW x, x \notin {"announcing", "unbinding"}, phase' = [phase EXCEPT ![p] = x]
  PROVE  Announced'
<1> USE DEF BindingTypes, Announced
<1>1. \A i \in 1..Len(stack) : stack[i] \in Frame /\ stack[i].of \in Providers
  BY Frames
<1>2. \A i \in 1..Len(stack) : PhaseOf(stack[i]) \in {"announcing", "unbinding"}
  BY DEF PhaseOf
<1>3. \A i \in 1..Len(stack) : stack[i].of # p
  BY <1>2
<1> QED
  BY <1>1, <1>3 DEF PhaseOf

----------------------------------------------------------------------------
(* Claims *)

Claiming == {"opening", "announcing", "bound", "stranded"}

\* A binding that goes on claiming its key, or on not claiming it.
LEMMA KeepClaim ==
  ASSUME BindingTypes, HeldByClaim, NEW p \in Providers, NEW x,
         phase' = [phase EXCEPT ![p] = x], UNCHANGED held, x \in Claiming <=> Claims(p)
  PROVE  HeldByClaim'
<1> USE RegistryAssumption DEF BindingTypes, HeldByClaim, Claims, Claiming
<1>1. \A q \in Providers : Claims(q)' <=> Claims(q)
  OBVIOUS
<1>2. \A k \in Names \X Realms : held[k] # None => held[k] \in Providers
  OBVIOUS
<1> QED
  BY <1>1, <1>2

\* A binding that claims a free key.
LEMMA NewClaim ==
  ASSUME BindingTypes, HeldByClaim, NEW p \in Providers, NEW x \in Claiming,
         phase' = [phase EXCEPT ![p] = x], ~Claims(p), held[Key(p)] = None,
         held' = [held EXCEPT ![Key(p)] = p]
  PROVE  HeldByClaim' /\ held' \in [Names \X Realms -> Providers \cup {None}]
<1> USE RegistryAssumption, KeyInRealm DEF BindingTypes
<1>1. \A q \in Providers : q # p => (Claims(q)' <=> Claims(q))
  BY DEF Claims
<1>2. Claims(p)' /\ Key(p) \in Names \X Realms
  BY DEF Claims, Claiming
<1>3. \A k \in Names \X Realms : held[k] # None => held[k] \in Providers /\ held[k] # p
  BY DEF HeldByClaim
<1>4. ASSUME NEW q \in Providers, Claims(q)' PROVE held'[Key(q)] = q
  BY <1>1, <1>2, <1>4 DEF HeldByClaim
<1>5. ASSUME NEW k \in Names \X Realms, held'[k] # None
      PROVE  (Claims(held[k]) /\ Key(held[k]) = k)'
  BY <1>1, <1>2, <1>3, <1>5 DEF HeldByClaim, Claims
<1> QED
  BY <1>2, <1>4, <1>5 DEF HeldByClaim

\* A binding that gives its key up, if it has one.
LEMMA DropClaim ==
  ASSUME BindingTypes, HeldByClaim, NEW p \in Providers, NEW x, x \notin Claiming,
         phase' = [phase EXCEPT ![p] = x], Drop(p)
  PROVE  HeldByClaim' /\ held' \in [Names \X Realms -> Providers \cup {None}]
<1> USE RegistryAssumption, KeyInRealm DEF BindingTypes
<1>1. \A q \in Providers : q # p => (Claims(q)' <=> Claims(q))
  BY DEF Claims
<1>2. ~Claims(p)' /\ Key(p) \in Names \X Realms
  BY DEF Claims, Claiming
<1>3. /\ held' \in [Names \X Realms -> Providers \cup {None}]
      /\ \A k \in Names \X Realms : held'[k] = IF held[k] = p THEN None ELSE held[k]
  BY <1>2 DEF Drop, HeldByClaim
<1>4. ASSUME NEW q \in Providers, Claims(q)' PROVE held'[Key(q)] = q
  BY <1>1, <1>2, <1>3, <1>4 DEF HeldByClaim
<1>5. ASSUME NEW k \in Names \X Realms, held'[k] # None
      PROVE  (Claims(held[k]) /\ Key(held[k]) = k)'
  <2>1. held'[k] = held[k] /\ held[k] \in Providers /\ held[k] # p
    BY <1>3, <1>5
  <2> QED
    BY <1>1, <2>1 DEF HeldByClaim, Claims
<1> QED
  BY <1>3, <1>4, <1>5 DEF HeldByClaim

----------------------------------------------------------------------------
(* The inductive invariant *)

LEMMA InitIInv == Init => IInv
<1> SUFFICES ASSUME Init PROVE IInv
  OBVIOUS
<1>1. BindingTypes
  BY DEF Init, BindingTypes
<1>2. HeldByClaim /\ Hidden /\ Owned
  BY DEF Init, HeldByClaim, Claims, Hidden, Owned
<1>3. Announced
  BY DEF Init, Announced
<1> QED
  BY <1>1, <1>2, <1>3 DEF IInv

\* A step that leaves the bindings and their scopes alone.
LEMMA Elsewhere ==
  ASSUME IInv, UNCHANGED <<bindingVars, disposed, scope>>,
         stack' \in Seq(Frame), listeners' \in Seq(Consumers), Announced'
  PROVE  IInv'
  BY DEF IInv, bindingVars, BindingTypes, HeldByClaim, Claims, Hidden, Owned

LEMMA HearStep == ASSUME IInv, Hear PROVE IInv'
<1> DEFINE f == [Top EXCEPT !.at = Head(Top.todo), !.todo = Tail(@)]
<1> USE DEF IInv
<1>1. BindingTypes /\ Announced /\ stack # <<>> /\ Top.todo # <<>>
  BY DEF Hear
<1>2. Top \in Frame
  BY <1>1, Pop DEF BindingTypes
<1>3. Head(Top.todo) \in Consumers /\ Tail(Top.todo) \in Seq(Consumers)
  BY <1>1, <1>2 DEF Frame
<1>4. f \in Frame /\ f.of = Top.of /\ f.kind = Top.kind
  BY <1>2, <1>3 DEF Frame
<1>5. stack' = <<f>> \o Tail(stack) /\ UNCHANGED phase
  BY DEF Hear, bindingVars
<1> HIDE DEF f
<1>6. stack' \in Seq(Frame) /\ Announced'
  BY <1>1, <1>4, <1>5, TopStep
<1> QED
  BY <1>6, Elsewhere DEF Hear, BindingTypes

LEMMA ListenerStep ==
  ASSUME IInv, NEW raises \in BOOLEAN, ListenerEnds(raises) PROVE IInv'
<1> DEFINE f == [Top EXCEPT !.at = None, !.raised = @ \/ raises]
<1> USE DEF IInv
<1>1. BindingTypes /\ Announced /\ stack # <<>>
  BY DEF ListenerEnds
<1>2. Top \in Frame
  BY <1>1, Pop DEF BindingTypes
<1>3. f \in Frame /\ f.of = Top.of /\ f.kind = Top.kind
  BY <1>2 DEF Frame
<1>4. stack' = <<f>> \o Tail(stack) /\ UNCHANGED phase
  BY DEF ListenerEnds, bindingVars
<1> HIDE DEF f
<1>5. stack' \in Seq(Frame) /\ Announced'
  BY <1>1, <1>3, <1>4, TopStep
<1> QED
  BY <1>5, Elsewhere DEF ListenerEnds, BindingTypes, viewVars

LEMMA ConsumerStep == ASSUME IInv, NEW c \in Consumers, Consuming(c) PROVE IInv'
<1> USE DEF IInv
<1>1. UNCHANGED <<bindingVars, disposed, scope, stack>>
  BY DEF Consuming, Observe, Stop, Look
<1>2. Announced' /\ stack' \in Seq(Frame)
  BY <1>1 DEF Announced, PhaseOf, BindingTypes, bindingVars
<1>3. CASE Observe(c)
  BY <1>1, <1>2, <1>3, Elsewhere DEF Observe, BindingTypes
<1>4. CASE Stop(c)
  <2>1. PICK i \in DOMAIN listeners : listeners' = RemoveAt(listeners, i)
    BY <1>4 DEF Stop
  <2>2. listeners \in Seq(Consumers) /\ i \in 1..Len(listeners)
    BY <2>1 DEF BindingTypes
  <2>3. /\ SubSeq(listeners, 1, i - 1) \in Seq(Consumers)
        /\ SubSeq(listeners, i + 1, Len(listeners)) \in Seq(Consumers)
    BY <2>2
  <2>4. listeners' \in Seq(Consumers)
    BY <2>1, <2>3 DEF RemoveAt
  <2> QED
    BY <1>1, <1>2, <2>4, Elsewhere
<1>5. CASE Look(c)
  BY <1>1, <1>2, <1>5, Elsewhere DEF Look, BindingTypes
<1> QED
  BY <1>3, <1>4, <1>5 DEF Consuming

\* An announcement of p that starts is well formed.
LEMMA Announcement ==
  ASSUME IInv, NEW p \in Providers, NEW kind \in {"added", "removed"}, Announce(kind, p),
         phase[p] \notin {"announcing", "unbinding"},
         phase' = [phase EXCEPT ![p] = IF kind = "added" THEN "announcing" ELSE "unbinding"]
  PROVE  stack' \in Seq(Frame) /\ Announced'
<1> DEFINE f == [kind |-> kind, of |-> p, todo |-> listeners, at |-> None, raised |-> FALSE]
<1>1. f \in Frame /\ f.of = p /\ PhaseOf(f) = IF kind = "added" THEN "announcing" ELSE "unbinding"
  BY DEF IInv, BindingTypes, Frame, PhaseOf
<1>2. stack' = <<f>> \o stack
  BY DEF Announce
<1> HIDE DEF f
<1> QED
  BY <1>1, <1>2, PushStep DEF IInv

LEMMA ProvideStep == ASSUME IInv, NEW p \in Providers, Provide(p) PROVE IInv'
<1> USE RegistryAssumption, KeyInRealm DEF IInv
<1>1. /\ phase[p] = "new" /\ scope[p] = "open" /\ ~Claims(p) /\ p \notin published
      /\ UNCHANGED <<disposed, scope, listeners>>
  BY DEF Provide, Claims, Hidden, viewVars
<1>2. CASE held[Key(p)] # None
  <2>1. phase' = [phase EXCEPT ![p] = "failed"] /\ UNCHANGED <<held, published, stack>>
    BY <1>2 DEF Provide, Claim, PublishUngated
  <2>2. HeldByClaim'
    BY <1>1, <2>1, KeepClaim DEF Claiming
  <2>3. Announced'
    BY <1>1, <2>1, QuietStep
  <2>4. BindingTypes' /\ Hidden' /\ Owned'
    BY <1>1, <2>1 DEF BindingTypes, Hidden, Owned
  <2> QED
    BY <2>2, <2>3, <2>4
<1>3. CASE held[Key(p)] = None /\ Gate[p] # "none"
  <2>1. /\ phase' = [phase EXCEPT ![p] = "opening"] /\ UNCHANGED <<published, stack>>
        /\ held' = [held EXCEPT ![Key(p)] = p]
    BY <1>3 DEF Provide, Claim, PublishUngated
  <2>2. HeldByClaim' /\ held' \in [Names \X Realms -> Providers \cup {None}]
    BY <1>1, <1>3, <2>1, NewClaim DEF Claiming
  <2>3. Announced'
    BY <1>1, <2>1, QuietStep
  <2>4. BindingTypes' /\ Hidden' /\ Owned'
    BY <1>1, <2>1, <2>2 DEF BindingTypes, Hidden, Owned
  <2> QED
    BY <2>2, <2>3, <2>4
<1>4. CASE held[Key(p)] = None /\ Gate[p] = "none"
  <2>1. /\ phase' = [phase EXCEPT ![p] = "announcing"] /\ Announce("added", p)
        /\ held' = [held EXCEPT ![Key(p)] = p] /\ published' = published \cup {p}
    BY <1>4 DEF Provide, Claim, PublishUngated
  <2>2. HeldByClaim' /\ held' \in [Names \X Realms -> Providers \cup {None}]
    BY <1>1, <1>4, <2>1, NewClaim DEF Claiming
  <2>3. stack' \in Seq(Frame) /\ Announced'
    BY <1>1, <2>1, Announcement
  <2>4. BindingTypes' /\ Hidden' /\ Owned'
    BY <1>1, <2>1, <2>2, <2>3 DEF BindingTypes, Hidden, Owned
  <2> QED
    BY <2>2, <2>3, <2>4
<1> QED
  BY <1>2, <1>3, <1>4

LEMMA GateStep ==
  ASSUME IInv, NEW p \in Providers, GateOpens(p) \/ GateRaises(p) \/ GateCloses(p)
  PROVE  IInv'
<1> USE RegistryAssumption, KeyInRealm DEF IInv
<1>1. UNCHANGED <<disposed, scope, listeners>>
  BY DEF GateOpens, GateRaises, GateCloses, viewVars
<1>2. CASE GateOpens(p)
  <2>1. /\ phase[p] = "opening" /\ Claims(p) /\ UNCHANGED held
        /\ phase' = [phase EXCEPT ![p] = "announcing"] /\ Announce("added", p)
        /\ published' = published \cup {p}
    BY <1>2 DEF GateOpens, Claims
  <2>2. HeldByClaim'
    BY <2>1, KeepClaim DEF Claiming
  <2>3. stack' \in Seq(Frame) /\ Announced'
    BY <2>1, Announcement
  <2>4. BindingTypes' /\ Hidden' /\ Owned'
    BY <1>1, <2>1, <2>3 DEF BindingTypes, Hidden, Owned
  <2> QED
    BY <2>2, <2>3, <2>4
<1>3. CASE GateRaises(p)
  <2>1. /\ phase[p] = "opening" /\ Drop(p) /\ UNCHANGED <<published, stack>>
        /\ phase' = [phase EXCEPT ![p] = "failed"]
    BY <1>3 DEF GateRaises
  <2>2. HeldByClaim' /\ held' \in [Names \X Realms -> Providers \cup {None}]
    BY <2>1, DropClaim DEF Claiming
  <2>3. Announced'
    BY <2>1, QuietStep
  <2>4. BindingTypes' /\ Hidden' /\ Owned'
    BY <1>1, <2>1, <2>2 DEF BindingTypes, Hidden, Owned
  <2> QED
    BY <2>2, <2>3, <2>4
<1>4. CASE GateCloses(p)
  <2>1. /\ phase[p] = "closing" /\ ~Claims(p) /\ UNCHANGED <<held, published, stack>>
        /\ phase' = [phase EXCEPT ![p] = "gone"]
    BY <1>4 DEF GateCloses, Claims
  <2>2. HeldByClaim'
    BY <2>1, KeepClaim DEF Claiming
  <2>3. Announced'
    BY <2>1, QuietStep
  <2>4. BindingTypes' /\ Hidden' /\ Owned'
    BY <1>1, <2>1 DEF BindingTypes, Hidden, Owned
  <2> QED
    BY <2>2, <2>3, <2>4
<1> QED
  BY <1>2, <1>3, <1>4

\* The end of an announcement: what was announced is in the middle of it.
LEMMA EndStep == ASSUME IInv, Added \/ Removed PROVE IInv'
<1> DEFINE p == Top.of
<1> USE RegistryAssumption, KeyInRealm DEF IInv
<1>1. /\ stack # <<>> /\ stack' = Tail(stack) /\ UNCHANGED <<disposed, scope, listeners>>
      /\ BindingTypes /\ Announced
  BY DEF Added, Removed, AllTold, viewVars
<1>2. p \in Providers /\ phase[p] = PhaseOf(Top)
  BY <1>1, Pop, Frames DEF BindingTypes, Announced
<1>3. CASE Added /\ Top.raised
  <2>1. Top.kind = "added" /\ phase[p] = "announcing"
    BY <1>2, <1>3 DEF Added, AllTold, PhaseOf
  <2> DEFINE x == "failed"
  <2>2. phase' = [phase EXCEPT ![p] = x] /\ Drop(p) /\ published' = published \ {p}
    BY <1>3 DEF Added
  <2>3. x = "failed" /\ x \notin {"announcing", "unbinding"}
    OBVIOUS
  <2> HIDE DEF x
  <2>4. HeldByClaim' /\ held' \in [Names \X Realms -> Providers \cup {None}]
    BY <1>1, <1>2, <2>2, <2>3, DropClaim DEF Claiming
  <2>5. stack' \in Seq(Frame) /\ Announced'
    BY <1>1, <2>2, <2>3, PopStep
  <2> HIDE DEF p
  <2>6. BindingTypes' /\ Hidden' /\ Owned'
    BY <1>1, <1>2, <2>2, <2>3, <2>4, <2>5 DEF BindingTypes, Hidden, Owned
  <2> QED
    BY <2>4, <2>5, <2>6
<1>4. CASE Added /\ ~Top.raised
  <2>1. Top.kind = "added" /\ phase[p] = "announcing" /\ Claims(p)
    BY <1>2, <1>4 DEF Added, AllTold, PhaseOf, Claims
  <2> DEFINE x == IF p \in disposed THEN "stranded" ELSE "bound"
  <2>2. phase' = [phase EXCEPT ![p] = x] /\ UNCHANGED <<held, published>>
    BY <1>4 DEF Added
  <2>3. x \in {"stranded", "bound"} /\ (p \in disposed => x # "bound")
    OBVIOUS
  <2>4. p \notin disposed => scope[p] # "taken"
    BY <1>2, <2>1 DEF Owned
  <2> HIDE DEF x
  <2>5. HeldByClaim'
    BY <1>1, <1>2, <2>1, <2>2, <2>3, KeepClaim DEF Claiming
  <2>6. stack' \in Seq(Frame) /\ Announced'
    BY <1>1, <2>2, <2>3, PopStep
  <2> HIDE DEF p
  <2>7. BindingTypes' /\ Hidden' /\ Owned'
    BY <1>1, <1>2, <2>2, <2>3, <2>4, <2>6 DEF BindingTypes, Hidden, Owned
  <2> QED
    BY <2>5, <2>6, <2>7
<1>5. CASE Removed
  <2>1. phase[p] = "unbinding" /\ ~Claims(p)
    BY <1>2, <1>5 DEF Removed, AllTold, PhaseOf, Claims
  <2> DEFINE x == IF Top.raised THEN "gone" ELSE AfterUnbind(p)
  <2>2. phase' = [phase EXCEPT ![p] = x] /\ UNCHANGED <<held, published>>
    BY <1>5 DEF Removed
  <2>3. x \in {"gone", "closing"}
    BY DEF AfterUnbind
  <2> HIDE DEF x
  <2>4. HeldByClaim'
    BY <1>1, <1>2, <2>1, <2>2, <2>3, KeepClaim DEF Claiming
  <2>5. stack' \in Seq(Frame) /\ Announced'
    BY <1>1, <2>2, <2>3, PopStep
  <2> HIDE DEF p
  <2>6. BindingTypes' /\ Hidden' /\ Owned'
    BY <1>1, <1>2, <2>2, <2>3, <2>5 DEF BindingTypes, Hidden, Owned
  <2> QED
    BY <2>4, <2>5, <2>6
<1> QED
  BY <1>3, <1>4, <1>5 DEF Added

\* The record of p is taken by its handle or by the unwind of its scope.
LEMMA TakeStep ==
  ASSUME IInv, NEW p \in Providers, TakeRecord(p), UNCHANGED listeners,
         p \notin disposed, phase[p] \in {"opening", "announcing", "bound"},
         scope' \in [Providers -> {"open", "closing", "taken"}],
         \A q \in Providers : q # p => scope'[q] = scope[q]
  PROVE  IInv'
<1> USE RegistryAssumption, KeyInRealm DEF IInv
<1>1. disposed' = disposed \cup {p} /\ Claims(p) /\ held[Key(p)] = p
  BY DEF TakeRecord, Claims, HeldByClaim
<1>2. CASE phase[p] = "bound"
  <2>1. /\ Drop(p) /\ Announce("removed", p) /\ UNCHANGED published
        /\ phase' = [phase EXCEPT ![p] = "unbinding"]
    BY <1>1, <1>2 DEF TakeRecord, Unbind
  <2>2. HeldByClaim' /\ held' \in [Names \X Realms -> Providers \cup {None}]
    BY <2>1, DropClaim DEF Claiming
  <2>3. stack' \in Seq(Frame) /\ Announced'
    BY <1>2, <2>1, Announcement
  <2>4. BindingTypes' /\ Hidden' /\ Owned'
    BY <1>1, <2>1, <2>2, <2>3 DEF BindingTypes, Hidden, Owned
  <2> QED
    BY <2>2, <2>3, <2>4
<1>3. CASE phase[p] # "bound"
  <2>1. UNCHANGED <<held, published, phase, stack>>
    BY <1>3 DEF TakeRecord, bindingVars
  <2>2. HeldByClaim' /\ Hidden'
    BY <2>1 DEF HeldByClaim, Claims, Hidden
  <2>3. Announced'
    BY <2>1 DEF Announced, PhaseOf
  <2>4. BindingTypes' /\ Owned'
    BY <1>1, <1>3, <2>1 DEF BindingTypes, Owned
  <2> QED
    BY <2>2, <2>3, <2>4
<1> QED
  BY <1>2, <1>3

\* A scope that moves on, with no record to take.
LEMMA ScopeStep ==
  ASSUME IInv, NEW p \in Providers, UNCHANGED <<bindingVars, disposed, stack, listeners>>,
         NEW x \in {"closing", "taken"}, scope' = [scope EXCEPT ![p] = x],
         x = "taken" => phase[p] \notin {"opening", "announcing", "bound"} \/ p \in disposed
  PROVE  IInv'
<1> USE DEF IInv, bindingVars
<1>1. HeldByClaim' /\ Hidden' /\ Announced'
  BY DEF HeldByClaim, Claims, Hidden, Announced, PhaseOf
<1>2. BindingTypes' /\ Owned'
  BY DEF BindingTypes, Owned
<1> QED
  BY <1>1, <1>2

LEMMA DisposeStep ==
  ASSUME IInv, NEW p \in Providers, CallHandle(p) \/ DisposeScope(p) \/ Unwind(p)
  PROVE  IInv'
<1>1. BindingTypes /\ Announced
  BY DEF IInv
<1>2. CASE CallHandle(p)
  <2>1. /\ TakeRecord(p) /\ UNCHANGED <<scope, listeners>> /\ p \notin disposed
        /\ phase[p] \in {"opening", "announcing", "bound"}
    BY <1>2 DEF CallHandle, viewVars
  <2> QED
    BY <1>1, <2>1, TakeStep DEF BindingTypes
<1>3. CASE DisposeScope(p)
  BY <1>3, ScopeStep DEF DisposeScope, viewVars
<1>4. CASE Unwind(p)
  <2>1. scope' = [scope EXCEPT ![p] = "taken"] /\ UNCHANGED listeners /\ stack = <<>>
    BY <1>4 DEF Unwind, viewVars, AtAwait
  <2>2. phase[p] # "announcing"
    BY <1>1, <2>1 DEF Announced
  <2>3. CASE phase[p] \in {"opening", "bound"} /\ p \notin disposed
    <3>1. TakeRecord(p)
      BY <1>4, <2>3 DEF Unwind
    <3> QED
      BY <1>1, <2>1, <2>3, <3>1, TakeStep DEF BindingTypes
  <2>4. CASE ~(phase[p] \in {"opening", "bound"} /\ p \notin disposed)
    <3>1. UNCHANGED <<bindingVars, disposed, stack>>
      BY <1>4, <2>4 DEF Unwind
    <3> QED
      BY <2>1, <2>2, <2>4, <3>1, ScopeStep
  <2> QED
    BY <2>3, <2>4
<1> QED
  BY <1>2, <1>3, <1>4

LEMMA StepIInv == IInv /\ [Next]_vars => IInv'
<1> SUFFICES ASSUME IInv, [Next]_vars PROVE IInv'
  OBVIOUS
<1>1. CASE Announcing
  BY <1>1, HearStep, ListenerStep, EndStep DEF Announcing
<1>2. ASSUME NEW p \in Providers, Providing(p) PROVE IInv'
  BY <1>2, ProvideStep, GateStep DEF Providing
<1>3. ASSUME NEW p \in Providers, Disposing(p) PROVE IInv'
  BY <1>3, DisposeStep, GateStep DEF Disposing
<1>4. ASSUME NEW c \in Consumers, Consuming(c) PROVE IInv'
  BY <1>4, ConsumerStep
<1>5. CASE UNCHANGED vars
  <2>1. UNCHANGED <<bindingVars, disposed, scope, stack, listeners>>
    BY <1>5 DEF vars, viewVars
  <2>2. Announced' /\ stack' \in Seq(Frame) /\ listeners' \in Seq(Consumers)
    BY <2>1 DEF IInv, BindingTypes, Announced, PhaseOf, bindingVars
  <2> QED
    BY <2>1, <2>2, Elsewhere
<1> QED
  BY <1>1, <1>2, <1>3, <1>4, <1>5 DEF Next

----------------------------------------------------------------------------
(* Theorems *)

\* The claims, the announcements in progress and the records of the providers
\* agree in every state.
THEOREM Invariant == Spec => []IInv
<1>1. Init => IInv
  BY InitIInv
<1>2. IInv /\ [Next]_vars => IInv'
  BY StepIInv
<1> QED
  BY <1>1, <1>2, PTL DEF Spec

\* SEM-003: _reserve and the two ways out of a claim keep a name, in a realm, to
\* one provider.
THEOREM OneClaimHolds == Spec => []OneClaim
<1>1. IInv => OneClaim
  BY DEF IInv, HeldByClaim, OneClaim
<1> QED
  BY <1>1, Invariant, PTL

\* SEM-005, SEM-006: nobody resolves a binding that is not announced yet, was
\* withdrawn or is being torn down.
THEOREM NeverHalfBuiltHolds == Spec => []NeverHalfBuilt
<1>1. IInv => NeverHalfBuilt
  <2> SUFFICES ASSUME IInv, NEW k \in Names \X Realms, held[k] \in published
               PROVE  phase[held[k]] \in {"announcing", "bound", "stranded"}
    BY DEF NeverHalfBuilt
  <2>1. held[k] \in Providers /\ held[k] # None
    BY RegistryAssumption DEF IInv, BindingTypes
  <2>2. Claims(held[k]) /\ phase[held[k]] # "opening"
    BY <2>1 DEF IInv, HeldByClaim, Hidden
  <2> QED
    BY <2>2 DEF Claims
<1> QED
  BY <1>1, Invariant, PTL

\* SEM-001: an unwind that has passed leaves no binding of its provider, unless
\* the gate was opening then.
THEOREM WithdrawnHolds == Spec => []Withdrawn
<1>1. IInv => Withdrawn
  <2> SUFFICES ASSUME IInv, NEW p \in Providers, scope[p] = "taken", held[Key(p)] = p
               PROVE  phase[p] \in {"opening", "announcing", "stranded"}
    BY DEF Withdrawn
  <2>1. Key(p) \in Names \X Realms /\ held[Key(p)] # None
    BY RegistryAssumption, KeyInRealm
  <2> DEFINE k == Key(p)
  <2>2. Claims(held[k])
    <3> HIDE DEF k
    <3>1. k \in Names \X Realms /\ held[k] # None
      BY <2>1 DEF k
    <3> QED
      BY <3>1 DEF IInv, HeldByClaim
  <2>3. Claims(p)
    BY <2>2
  <2>4. phase[p] # "bound"
    BY DEF IInv, Owned
  <2> QED
    BY <2>3, <2>4 DEF Claims
<1> QED
  BY <1>1, Invariant, PTL

----------------------------------------------------------------------------
(* Nobody misses a change *)

ViewTypes == told \subseteq Consumers /\ view = [c \in Consumers |-> view[c]]

\* Nobody is in the list twice.
Once == \A i, j \in 1..Len(listeners) : listeners[i] = listeners[j] => i = j

Concerns(f, c) == NameOf[f.of] = Needs[c]

\* Of each announcement in progress a listener has heard, or will.
Heard ==
  \A i \in 1..Len(stack), c \in ToSet(listeners) :
    Concerns(stack[i], c) => c \in told \/ c \in ToSet(stack[i].todo)

\* A listener whose view is stale has heard, or an announcement is on its way.
Aware ==
  \A c \in ToSet(listeners) : view[c] # Resolved(c) =>
    c \in told \/ \E i \in 1..Len(stack) : Concerns(stack[i], c)

Kept == ViewTypes /\ Once /\ Heard /\ Aware

\* What is visible under a name stays as it is.
Steady(n) ==
  \A r \in Realms :
    /\ held'[<<n, r>>] \in published' <=> held[<<n, r>>] \in published
    /\ held[<<n, r>>] \in published => held'[<<n, r>>] = held[<<n, r>>]

\* What a name resolves to depends on what is visible under it.
LEMMA SameSight ==
  ASSUME NEW c \in Consumers, Steady(Needs[c])
  PROVE  Resolved(c)' = Resolved(c)
<1> DEFINE n == Needs[c]
           Before(at) ==
             [r \in Realms |-> IF held[n, r] \in published THEN held[n, r]
                               ELSE IF Outer[r] = None THEN None
                               ELSE at[Outer[r]]]
           After(at) ==
             [r \in Realms |-> IF held'[n, r] \in published' THEN held'[n, r]
                               ELSE IF Outer[r] = None THEN None
                               ELSE at[Outer[r]]]
<1>1. ASSUME NEW at PROVE Before(at) = After(at)
  <2>1. ASSUME NEW r \in Realms PROVE Before(at)[r] = After(at)[r]
    <3>1. /\ held'[n, r] \in published' <=> held[n, r] \in published
          /\ held[n, r] \in published => held'[n, r] = held[n, r]
      <4>1. held[n, r] = held[<<n, r>>] /\ held'[n, r] = held'[<<n, r>>]
        OBVIOUS
      <4> QED
        BY <4>1 DEF Steady
    <3>2. CASE held[n, r] \in published
      BY <3>1, <3>2
    <3>3. CASE held[n, r] \notin published
      BY <3>1, <3>3
    <3> QED
      BY <3>2, <3>3
  <2> QED
    BY <2>1
<1> HIDE DEF Before, After
<1>2. (CHOOSE at : at = Before(at)) = (CHOOSE at : at = After(at))
  BY <1>1
<1> QED
  BY <1>2 DEF Resolved, Lookup, Before, After

\* What holds a key is the provider of it.
LEMMA HeldKey ==
  ASSUME IInv, NEW n \in Names, NEW r \in Realms, held[<<n, r>>] # None
  PROVE  /\ held[<<n, r>>] \in Providers /\ Claims(held[<<n, r>>]) /\ n = NameOf[held[<<n, r>>]]
         /\ Key(held[<<n, r>>]) = <<n, r>>
<1>1. <<n, r>> \in Names \X Realms
  OBVIOUS
<1>2. held[<<n, r>>] \in Providers /\ Claims(held[<<n, r>>]) /\ Key(held[<<n, r>>]) = <<n, r>>
  BY <1>1 DEF IInv, BindingTypes, HeldByClaim
<1> QED
  BY <1>2 DEF Key

----------------------------------------------------------------------------
(* The steps, as listeners notice them *)

\* Nothing that anybody resolves changes, and nothing is announced.
LEMMA UnseenStep ==
  ASSUME IInv, Kept, UNCHANGED <<stack, viewVars>>, \A n \in Names : Steady(n)
  PROVE  Kept'
<1>1. \A c \in Consumers : Resolved(c)' = Resolved(c)
  BY SameSight, RegistryAssumption
<1>2. ToSet(listeners) \subseteq Consumers
  BY DEF IInv, BindingTypes, ToSet
<1>3. ViewTypes' /\ Once' /\ Heard'
  BY DEF Kept, ViewTypes, Once, Heard, Concerns, viewVars
<1>4. Aware'
  BY <1>1, <1>2 DEF Kept, Aware, Concerns, viewVars
<1> QED
  BY <1>3, <1>4 DEF Kept

\* A change of one name, with an announcement to everybody who listens.
LEMMA AnnouncedChange ==
  ASSUME IInv, Kept, UNCHANGED viewVars, NEW p \in Providers, NEW kind \in {"added", "removed"},
         Announce(kind, p), \A n \in Names \ {NameOf[p]} : Steady(n)
  PROVE  Kept'
<1> DEFINE f == [kind |-> kind, of |-> p, todo |-> listeners, at |-> None, raised |-> FALSE]
<1>1. f \in Frame /\ f.of = p /\ f.todo = listeners
  BY DEF IInv, BindingTypes, Frame
<1>2. stack' = <<f>> \o stack
  BY DEF Announce
<1> HIDE DEF f
<1>3. /\ Len(stack') = Len(stack) + 1 /\ Len(stack) \in Nat
      /\ stack'[1] = f
      /\ \A i \in 1..Len(stack) : stack'[i + 1] = stack[i]
  BY <1>1, <1>2, Push DEF IInv, BindingTypes
<1>4. \A i \in 1..Len(stack') : i = 1 \/ (i - 1 \in 1..Len(stack) /\ stack'[i] = stack[i - 1])
  BY <1>3
<1>5. ViewTypes' /\ Once'
  BY DEF Kept, ViewTypes, Once, viewVars
<1>6. Heard'
  <2> SUFFICES ASSUME NEW i \in 1..Len(stack'), NEW c \in ToSet(listeners), Concerns(stack'[i], c)
               PROVE  c \in told \/ c \in ToSet(stack'[i].todo)
    BY DEF Heard, Concerns, viewVars
  <2>1. CASE i = 1
    BY <1>1, <1>3, <2>1
  <2>2. CASE i # 1
    BY <1>4, <2>2 DEF Kept, Heard
  <2> QED
    BY <2>1, <2>2
<1>7. Aware'
  <2> SUFFICES ASSUME NEW c \in ToSet(listeners), view[c] # Resolved(c)', c \notin told
               PROVE  \E i \in 1..Len(stack') : Concerns(stack'[i], c)
    BY DEF Aware, Concerns, viewVars
  <2>1. c \in Consumers
    BY DEF IInv, BindingTypes, ToSet
  <2>2. CASE Needs[c] = NameOf[p]
    BY <1>1, <1>3, <2>2 DEF Concerns
  <2>3. CASE Needs[c] # NameOf[p]
    <3>1. Resolved(c)' = Resolved(c)
      BY <2>1, <2>3, SameSight, RegistryAssumption
    <3>2. PICK i \in 1..Len(stack) : Concerns(stack[i], c)
      BY <3>1 DEF Kept, Aware
    <3> QED
      BY <1>3, <3>2
  <2> QED
    BY <2>2, <2>3
<1> QED
  BY <1>5, <1>6, <1>7 DEF Kept

\* The end of an announcement, with another change of its name perhaps: whoever
\* listens for it has been told.
LEMMA EndedChange ==
  ASSUME IInv, Kept, UNCHANGED viewVars, stack # <<>>, Top.todo = <<>>, stack' = Tail(stack),
         \A n \in Names \ {NameOf[Top.of]} : Steady(n)
  PROVE  Kept'
<1>1. /\ Top = stack[1] /\ 1 \in 1..Len(stack)
      /\ Len(stack') = Len(stack) - 1 /\ Len(stack) \in Nat
      /\ \A i \in 1..Len(stack') : stack'[i] = stack[i + 1] /\ i + 1 \in 1..Len(stack)
  BY Pop DEF IInv, BindingTypes
<1>2. \A c \in ToSet(listeners) : Concerns(Top, c) => c \in told
  BY <1>1 DEF Kept, Heard, ToSet
<1>3. ViewTypes' /\ Once'
  BY DEF Kept, ViewTypes, Once, viewVars
<1>4. Heard'
  <2> SUFFICES ASSUME NEW i \in 1..Len(stack'), NEW c \in ToSet(listeners), Concerns(stack'[i], c)
               PROVE  c \in told \/ c \in ToSet(stack'[i].todo)
    BY DEF Heard, Concerns, viewVars
  <2> QED
    BY <1>1 DEF Kept, Heard
<1>5. Aware'
  <2> SUFFICES ASSUME NEW c \in ToSet(listeners), view[c] # Resolved(c)', c \notin told
               PROVE  \E i \in 1..Len(stack') : Concerns(stack'[i], c)
    BY DEF Aware, Concerns, viewVars
  <2>1. c \in Consumers /\ ~Concerns(Top, c)
    BY <1>2 DEF IInv, BindingTypes, ToSet
  <2>2. Resolved(c)' = Resolved(c)
    BY <2>1, SameSight, RegistryAssumption DEF Concerns
  <2>3. PICK i \in 1..Len(stack) : Concerns(stack[i], c)
    BY <2>2 DEF Kept, Aware
  <2>4. i # 1
    BY <1>1, <2>1, <2>3
  <2>5. i - 1 \in 1..Len(stack') /\ (i - 1) + 1 = i
    BY <1>1, <2>4
  <2> QED
    BY <1>1, <2>3, <2>5
<1> QED
  BY <1>3, <1>4, <1>5 DEF Kept

LEMMA Turn ==
  ASSUME stack \in Seq(Frame), stack # <<>>, NEW f \in Frame, stack' = <<f>> \o Tail(stack)
  PROVE  /\ Len(stack') = Len(stack) /\ stack'[1] = f /\ 1 \in 1..Len(stack)
         /\ \A i \in 1..Len(stack) : i # 1 => stack'[i] = stack[i]
<1>1. /\ 1 \in 1..Len(stack) /\ Tail(stack) \in Seq(Frame)
      /\ Len(Tail(stack)) = Len(stack) - 1 /\ Len(stack) \in Nat
      /\ \A i \in 1..(Len(stack) - 1) : Tail(stack)[i] = stack[i + 1]
  BY Pop
<1> DEFINE one  == <<f>>
           rest == Tail(stack)
<1>2. one \in Seq(Frame) /\ Len(one) = 1 /\ one[1] = f
  OBVIOUS
<1>3. /\ rest \in Seq(Frame) /\ Len(rest) = Len(stack) - 1 /\ stack' = one \o rest
      /\ \A i \in 1..(Len(stack) - 1) : rest[i] = stack[i + 1]
  BY <1>1
<1> HIDE DEF one, rest
<1>4. /\ Len(stack') = Len(stack) /\ stack'[1] = f
      /\ \A i \in 1..(Len(stack) - 1) : stack'[i + 1] = stack[i + 1]
  BY <1>1, <1>2, <1>3
<1>5. \A i \in 1..Len(stack) : i # 1 => i - 1 \in 1..(Len(stack) - 1) /\ (i - 1) + 1 = i
  BY <1>1
<1> QED
  BY <1>1, <1>4, <1>5

\* The first announcement goes on: whom it will not call any more has heard.
LEMMA TurnStep ==
  ASSUME IInv, Kept, UNCHANGED <<bindingVars, listeners, view>>, stack # <<>>,
         told \subseteq told', told' \subseteq Consumers,
         NEW f \in Frame, f.of = Top.of, stack' = <<f>> \o Tail(stack),
         \A c \in ToSet(listeners) :
           Concerns(Top, c) /\ c \in ToSet(Top.todo) => c \in told' \/ c \in ToSet(f.todo)
  PROVE  Kept'
<1>1. /\ Len(stack') = Len(stack) /\ stack'[1] = f /\ 1 \in 1..Len(stack) /\ Top = stack[1]
      /\ \A i \in 1..Len(stack) : i # 1 => stack'[i] = stack[i]
  BY Turn, Pop DEF IInv, BindingTypes
<1>2. \A i \in 1..Len(stack) : stack'[i].of = stack[i].of
  BY <1>1
<1>3. \A c \in Consumers : Resolved(c)' = Resolved(c)
  BY SameSight, RegistryAssumption DEF Steady, bindingVars
<1>4. ToSet(listeners) \subseteq Consumers
  BY DEF IInv, BindingTypes, ToSet
<1>5. ViewTypes' /\ Once'
  BY DEF Kept, ViewTypes, Once
<1>6. Heard'
  <2> SUFFICES ASSUME NEW i \in 1..Len(stack), NEW c \in ToSet(listeners), Concerns(stack'[i], c)
               PROVE  c \in told' \/ c \in ToSet(stack'[i].todo)
    BY <1>1 DEF Heard, Concerns
  <2>1. Concerns(stack[i], c)
    BY <1>2 DEF Concerns
  <2>2. c \in told \/ c \in ToSet(stack[i].todo)
    BY <2>1 DEF Kept, Heard
  <2>3. CASE i = 1
    BY <1>1, <2>1, <2>2, <2>3
  <2>4. CASE i # 1
    BY <1>1, <2>2, <2>4
  <2> QED
    BY <2>3, <2>4
<1>7. Aware'
  <2> SUFFICES ASSUME NEW c \in ToSet(listeners), view[c] # Resolved(c)', c \notin told'
               PROVE  \E i \in 1..Len(stack') : Concerns(stack'[i], c)
    BY DEF Aware, Concerns
  <2>1. PICK i \in 1..Len(stack) : Concerns(stack[i], c)
    BY <1>3, <1>4 DEF Kept, Aware
  <2> QED
    BY <1>1, <1>2, <2>1 DEF Concerns
<1> QED
  BY <1>5, <1>6, <1>7 DEF Kept

LEMMA FirstOrRest ==
  ASSUME NEW S, NEW seq \in Seq(S), seq # <<>>, NEW y \in ToSet(seq)
  PROVE  y = Head(seq) \/ y \in ToSet(Tail(seq))
<1>1. PICK i \in 1..Len(seq) : y = seq[i]
  BY DEF ToSet
<1>2. CASE i = 1
  BY <1>1, <1>2
<1>3. CASE i # 1
  <2> DEFINE rest == Tail(seq)
  <2>1. rest \in Seq(S) /\ i - 1 \in 1..Len(rest) /\ rest[i - 1] = seq[i]
    BY <1>3
  <2> HIDE DEF rest
  <2>2. i - 1 \in DOMAIN rest
    BY <2>1
  <2>3. y \in ToSet(rest)
    BY <1>1, <2>1, <2>2 DEF ToSet
  <2> QED
    BY <2>3 DEF rest
<1> QED
  BY <1>2, <1>3

LEMMA HearKept == ASSUME IInv, Kept, Hear PROVE Kept'
<1> DEFINE f == [Top EXCEPT !.at = Head(Top.todo), !.todo = Tail(@)]
<1>1. stack # <<>> /\ Top.todo # <<>> /\ Top \in Frame
  BY Pop DEF Hear, IInv, BindingTypes
<1>2. Head(Top.todo) \in Consumers /\ Tail(Top.todo) \in Seq(Consumers) /\ Top.todo \in Seq(Consumers)
  BY <1>1 DEF Frame
<1>3. f \in Frame /\ f.of = Top.of /\ f.todo = Tail(Top.todo)
  BY <1>1, <1>2 DEF Frame
<1>4. stack' = <<f>> \o Tail(stack) /\ UNCHANGED <<bindingVars, listeners, view>>
  BY DEF Hear
<1> HIDE DEF f
<1>5. /\ told \subseteq told' /\ told' \subseteq Consumers
      /\ Needs[Head(Top.todo)] = NameOf[Top.of] /\ Head(Top.todo) \in ToSet(listeners)
           => Head(Top.todo) \in told'
  BY <1>2 DEF Hear, Kept, ViewTypes
<1>6. ASSUME NEW c \in ToSet(listeners), Concerns(Top, c), c \in ToSet(Top.todo)
      PROVE  c \in told' \/ c \in ToSet(f.todo)
  <2>1. c = Head(Top.todo) \/ c \in ToSet(Tail(Top.todo))
    BY <1>1, <1>2, <1>6, FirstOrRest
  <2> QED
    BY <1>3, <1>5, <1>6, <2>1 DEF Concerns
<1> QED
  BY <1>1, <1>3, <1>4, <1>5, <1>6, TurnStep

LEMMA ListenerKept ==
  ASSUME IInv, Kept, NEW raises \in BOOLEAN, ListenerEnds(raises) PROVE Kept'
<1> DEFINE f == [Top EXCEPT !.at = None, !.raised = @ \/ raises]
<1>1. stack # <<>> /\ Top \in Frame
  BY Pop DEF ListenerEnds, IInv, BindingTypes
<1>2. f \in Frame /\ f.of = Top.of /\ f.todo = Top.todo
  BY <1>1 DEF Frame
<1>3. stack' = <<f>> \o Tail(stack) /\ UNCHANGED <<bindingVars, listeners, view, told>>
  BY DEF ListenerEnds, viewVars
<1> HIDE DEF f
<1>4. told \subseteq told' /\ told' \subseteq Consumers
  BY <1>3 DEF Kept, ViewTypes
<1> QED
  BY <1>1, <1>2, <1>3, <1>4, TurnStep

\* A consumer subscribes, looks again, or leaves.
LEMMA ConsumerKept ==
  ASSUME Insiders = {}, IInv, Kept, NEW x \in Consumers, Consuming(x) PROVE Kept'
<1>1. UNCHANGED <<bindingVars, stack>>
  BY DEF Consuming, Observe, Stop, Look
<1>2. \A c \in Consumers : Resolved(c)' = Resolved(c)
  BY <1>1, SameSight, RegistryAssumption DEF Steady, bindingVars
<1>3. listeners \in Seq(Consumers) /\ Len(listeners) \in Nat
  BY DEF IInv, BindingTypes
<1>4. ToSet(listeners) \subseteq Consumers
  BY <1>3 DEF ToSet
<1>5. CASE Observe(x) \/ Look(x)
  <2>1. stack = <<>> /\ stack' = <<>>
    BY <1>1, <1>5 DEF Observe, Look, AtAwait
  <2>2. /\ view'[x] = Resolved(x) /\ view' = [c \in Consumers |-> view'[c]]
        /\ \A c \in Consumers \ {x} : view'[c] = view[c]
    BY <1>5 DEF Observe, Look, Kept, ViewTypes
  <2>3. told \ {x} \subseteq told' /\ told' \subseteq told
    BY <1>5 DEF Observe, Look
  <2>4. Once' /\ \A c \in ToSet(listeners') : c \in ToSet(listeners) \/ c = x
    <3>1. CASE listeners' = listeners
      BY <3>1 DEF Kept, Once
    <3>2. CASE listeners' = Append(listeners, x) /\ x \notin ToSet(listeners)
      <4>1. /\ Len(listeners') = Len(listeners) + 1
            /\ listeners'[Len(listeners) + 1] = x
            /\ \A i \in 1..Len(listeners) : listeners'[i] = listeners[i] /\ listeners[i] # x
        BY <1>3, <3>2 DEF ToSet
      <4>2. \A i \in 1..Len(listeners') : i \in 1..Len(listeners) \/ i = Len(listeners) + 1
        BY <1>3, <4>1
      <4>3. Once'
        BY <4>1, <4>2 DEF Kept, Once
      <4>4. \A c \in ToSet(listeners') : c \in ToSet(listeners) \/ c = x
        <5> TAKE c \in ToSet(listeners')
        <5>1. PICK i \in 1..Len(listeners') : c = listeners'[i]
          BY <1>3, <3>2 DEF ToSet
        <5> QED
          BY <1>3, <4>1, <4>2, <5>1 DEF ToSet
      <4> QED
        BY <4>3, <4>4
    <3> QED
      BY <1>5, <3>1, <3>2 DEF Observe, Look
  <2>5. ViewTypes' /\ Heard'
    BY <2>1, <2>2, <2>3 DEF Kept, ViewTypes, Heard
  <2>6. Aware'
    <3> SUFFICES ASSUME NEW c \in ToSet(listeners'), view'[c] # Resolved(c)'
                 PROVE  c \in told'
      BY DEF Aware
    <3>1. c # x
      BY <1>2, <2>2
    <3>2. c \in ToSet(listeners) /\ c \in Consumers /\ view[c] # Resolved(c)
      BY <1>2, <1>4, <2>2, <2>4, <3>1
    <3> QED
      BY <2>1, <2>3, <3>1, <3>2 DEF Kept, Aware
  <2> QED
    BY <2>4, <2>5, <2>6 DEF Kept
<1>6. CASE Stop(x)
  <2>1. PICK k \in 1..Len(listeners) : listeners[k] = x /\ listeners' = RemoveAt(listeners, k)
    BY <1>3, <1>6 DEF Stop
  <2>2. /\ told' = told \ {x} /\ view' = [c \in Consumers |-> view'[c]]
        /\ \A c \in Consumers \ {x} : view'[c] = view[c]
    BY <1>6 DEF Stop, Kept, ViewTypes
  <2> DEFINE front == SubSeq(listeners, 1, k - 1)
             back  == SubSeq(listeners, k + 1, Len(listeners))
  <2>3. front \in Seq(Consumers) /\ Len(front) = k - 1 /\ \A i \in 1..(k - 1) : front[i] = listeners[i]
    BY <1>3, <2>1
  <2>4. /\ back \in Seq(Consumers) /\ Len(back) = Len(listeners) - k
        /\ \A i \in 1..(Len(listeners) - k) : back[i] = listeners[k + i]
    BY <1>3, <2>1
  <2>5. listeners' = front \o back
    BY <2>1 DEF RemoveAt
  <2> HIDE DEF front, back
  <2>6. /\ listeners' \in Seq(Consumers)
        /\ DOMAIN listeners' = 1..(Len(listeners) - 1)
        /\ \A i \in 1..(k - 1) : listeners'[i] = front[i]
        /\ \A i \in 1..(Len(listeners) - k) : listeners'[(k - 1) + i] = back[i]
    BY <1>3, <2>1, <2>3, <2>4, <2>5
  <2> DEFINE from(i) == IF i < k THEN i ELSE i + 1
  <2>7. \A i \in 1..(Len(listeners) - 1) :
          /\ from(i) \in 1..Len(listeners) /\ from(i) # k /\ listeners'[i] = listeners[from(i)]
    <3> TAKE i \in 1..(Len(listeners) - 1)
    <3>1. CASE i < k
      <4>1. i \in 1..(k - 1)
        BY <2>1, <3>1
      <4> QED
        BY <1>3, <2>3, <2>6, <3>1, <4>1
    <3>2. CASE ~(i < k)
      <4>1. (i + 1) - k \in 1..(Len(listeners) - k) /\ (k - 1) + ((i + 1) - k) = i
            /\ k + ((i + 1) - k) = i + 1
        BY <1>3, <2>1, <3>2
      <4>2. listeners'[i] = back[(i + 1) - k]
        BY <2>6, <4>1
      <4>3. back[(i + 1) - k] = listeners[i + 1]
        BY <2>4, <4>1
      <4>4. from(i) = i + 1 /\ i + 1 \in 1..Len(listeners) /\ i + 1 # k
        BY <1>3, <2>1, <3>2
      <4> QED
        BY <4>2, <4>3, <4>4
    <3> QED
      BY <3>1, <3>2
  <2>8. \A i, j \in 1..(Len(listeners) - 1) : from(i) = from(j) => i = j
    BY <1>3, <2>1
  <2> HIDE DEF from
  <2>9. Len(listeners') = Len(listeners) - 1
    BY <1>3, <2>1, <2>6
  <2>10. Once'
    BY <2>7, <2>8, <2>9 DEF Kept, Once
  <2>11. \A c \in ToSet(listeners') : c \in ToSet(listeners) /\ c # x
    <3> TAKE c \in ToSet(listeners')
    <3>1. PICK i \in 1..(Len(listeners) - 1) : c = listeners'[i]
      BY <2>6 DEF ToSet
    <3>2. c = listeners[from(i)] /\ from(i) \in 1..Len(listeners) /\ from(i) # k
      BY <2>7, <3>1
    <3> QED
      BY <1>3, <2>1, <3>2 DEF Kept, Once, ToSet
  <2>12. ViewTypes' /\ Heard'
    BY <1>1, <2>2, <2>11 DEF Kept, ViewTypes, Heard, Concerns
  <2>13. Aware'
    BY <1>1, <1>2, <1>4, <2>2, <2>11 DEF Kept, Aware, Concerns
  <2> QED
    BY <2>10, <2>12, <2>13 DEF Kept
<1> QED
  BY <1>5, <1>6 DEF Consuming

----------------------------------------------------------------------------
(* The operations *)

\* What provide() and the two ends of a gate do to what is visible.
LEMMA ProvideKept == ASSUME IInv, Kept, NEW p \in Providers, Provide(p) PROVE Kept'
<1> USE RegistryAssumption, KeyInRealm
<1>1. /\ phase[p] = "new" /\ ~Claims(p) /\ p \notin published /\ UNCHANGED viewVars
      /\ Key(p) \in Names \X Realms /\ held \in [Names \X Realms -> Providers \cup {None}]
      /\ None \notin published
  BY DEF Provide, Claims, IInv, Hidden, BindingTypes
<1>2. CASE held[Key(p)] # None
  <2>1. UNCHANGED <<held, published, stack>>
    BY <1>2 DEF Provide, Claim, PublishUngated
  <2> QED
    BY <1>1, <2>1, UnseenStep DEF Steady
<1>3. CASE held[Key(p)] = None /\ Gate[p] # "none"
  <2>1. UNCHANGED <<published, stack>> /\ held' = [held EXCEPT ![Key(p)] = p]
    BY <1>3 DEF Provide, Claim, PublishUngated
  <2>2. ASSUME NEW n \in Names, NEW r \in Realms
        PROVE  /\ held'[<<n, r>>] \in published' <=> held[<<n, r>>] \in published
               /\ held[<<n, r>>] \in published => held'[<<n, r>>] = held[<<n, r>>]
    <3>1. CASE <<n, r>> = Key(p)
      BY <1>1, <1>3, <2>1, <3>1
    <3>2. CASE <<n, r>> # Key(p)
      BY <1>1, <2>1, <3>2
    <3> QED
      BY <3>1, <3>2
  <2> QED
    BY <1>1, <2>1, <2>2, UnseenStep DEF Steady
<1>4. CASE held[Key(p)] = None /\ Gate[p] = "none"
  <2>1. /\ held' = [held EXCEPT ![Key(p)] = p] /\ published' = published \cup {p}
        /\ Announce("added", p)
    BY <1>4 DEF Provide, Claim, PublishUngated
  <2>2. ASSUME NEW n \in Names \ {NameOf[p]}, NEW r \in Realms
        PROVE  /\ held'[<<n, r>>] \in published' <=> held[<<n, r>>] \in published
               /\ held[<<n, r>>] \in published => held'[<<n, r>>] = held[<<n, r>>]
    <3>1. <<n, r>> # Key(p)
      BY DEF Key
    <3>2. held'[<<n, r>>] = held[<<n, r>>]
      BY <1>1, <2>1, <3>1
    <3>3. held[<<n, r>>] # p
      BY <1>1, HeldKey
    <3> QED
      BY <2>1, <3>2, <3>3
  <2> QED
    BY <1>1, <2>1, <2>2, AnnouncedChange DEF Steady
<1> QED
  BY <1>2, <1>3, <1>4

\* A claim withdrawn changes what its own name resolves to, if anything.
LEMMA Withdrawal ==
  ASSUME IInv, NEW p \in Providers, Drop(p),
         published' \subseteq published, published \ {p} \subseteq published'
  PROVE  /\ \A n \in Names \ {NameOf[p]} : Steady(n)
         /\ p \notin published => \A n \in Names : Steady(n)
<1> USE RegistryAssumption, KeyInRealm
<1>1. /\ Key(p) \in Names \X Realms /\ held \in [Names \X Realms -> Providers \cup {None}]
      /\ None \notin published
  BY DEF IInv, BindingTypes
<1>2. held' = [held EXCEPT ![Key(p)] = IF @ = p THEN None ELSE @]
  BY DEF Drop
<1>3. ASSUME NEW n \in Names \ {NameOf[p]}, NEW r \in Realms
      PROVE  /\ held'[<<n, r>>] \in published' <=> held[<<n, r>>] \in published
             /\ held[<<n, r>>] \in published => held'[<<n, r>>] = held[<<n, r>>]
  <2>1. <<n, r>> # Key(p)
    BY DEF Key
  <2>2. held'[<<n, r>>] = held[<<n, r>>]
    BY <1>1, <1>2, <2>1
  <2>3. held[<<n, r>>] # p
    BY HeldKey
  <2> QED
    BY <2>2, <2>3
<1>4. ASSUME p \notin published, NEW n \in Names, NEW r \in Realms
      PROVE  /\ held'[<<n, r>>] \in published' <=> held[<<n, r>>] \in published
             /\ held[<<n, r>>] \in published => held'[<<n, r>>] = held[<<n, r>>]
  <2>1. published' = published
    <3>1. published \ {p} = published
      BY <1>4
    <3> QED
      BY <3>1
  <2>2. held'[<<n, r>>] = held[<<n, r>>] \/ (held[<<n, r>>] = p /\ held'[<<n, r>>] = None)
    BY <1>1, <1>2
  <2> QED
    BY <1>1, <1>4, <2>1, <2>2
<1> QED
  BY <1>3, <1>4 DEF Steady

LEMMA GateKept ==
  ASSUME IInv, Kept, NEW p \in Providers, GateOpens(p) \/ GateRaises(p) \/ GateCloses(p)
  PROVE  Kept'
<1> USE RegistryAssumption
<1>1. CASE GateOpens(p)
  <2>1. /\ Announce("added", p) /\ published' = published \cup {p}
        /\ UNCHANGED <<held, listeners, told, view>>
    BY <1>1 DEF GateOpens, viewVars
  <2>2. ASSUME NEW n \in Names \ {NameOf[p]}, NEW r \in Realms
        PROVE  /\ held'[<<n, r>>] \in published' <=> held[<<n, r>>] \in published
               /\ held[<<n, r>>] \in published => held'[<<n, r>>] = held[<<n, r>>]
    <3>1. held[<<n, r>>] # p
      BY HeldKey
    <3> QED
      BY <2>1, <3>1
  <2> QED
    BY <2>1, <2>2, AnnouncedChange DEF Steady, viewVars
<1>2. CASE GateRaises(p)
  <2>1. Drop(p) /\ p \notin published /\ UNCHANGED <<published, stack, viewVars>>
    BY <1>2 DEF GateRaises, IInv, Hidden
  <2> QED
    BY <2>1, Withdrawal, UnseenStep
<1>3. CASE GateCloses(p)
  BY <1>3, UnseenStep DEF GateCloses, Steady
<1> QED
  BY <1>1, <1>2, <1>3

LEMMA EndKept == ASSUME IInv, Kept, Added \/ Removed PROVE Kept'
<1> DEFINE p == Top.of
<1>1. /\ stack # <<>> /\ Top.todo = <<>> /\ stack' = Tail(stack) /\ UNCHANGED viewVars
  BY DEF Added, Removed, AllTold
<1>2. p \in Providers
  BY <1>1, Pop, Frames DEF IInv, BindingTypes
<1>3. \/ UNCHANGED <<held, published>>
      \/ Drop(p) /\ published' = published \ {p}
  BY DEF Added, Removed
<1>4. \A n \in Names \ {NameOf[p]} : Steady(n)
  <2>1. CASE UNCHANGED <<held, published>>
    BY <2>1 DEF Steady
  <2>2. CASE Drop(p) /\ published' = published \ {p}
    <3> HIDE DEF p
    <3> QED
      BY <1>2, <2>2, Withdrawal
  <2> QED
    BY <1>3, <2>1, <2>2
<1> QED
  BY <1>1, <1>4, EndedChange

LEMMA TakeKept ==
  ASSUME IInv, Kept, NEW p \in Providers, TakeRecord(p), UNCHANGED viewVars
  PROVE  Kept'
<1>1. CASE phase[p] = "bound"
  <2>1. held[Key(p)] = p
    BY <1>1 DEF IInv, HeldByClaim, Claims
  <2>2. Drop(p) /\ Announce("removed", p) /\ UNCHANGED published
    BY <1>1, <2>1 DEF TakeRecord, Unbind
  <2> QED
    BY <2>2, Withdrawal, AnnouncedChange
<1>2. CASE phase[p] # "bound"
  BY <1>2, UnseenStep DEF TakeRecord, bindingVars, Steady
<1> QED
  BY <1>1, <1>2

LEMMA DisposeKept ==
  ASSUME IInv, Kept, NEW p \in Providers, CallHandle(p) \/ DisposeScope(p) \/ Unwind(p)
  PROVE  Kept'
<1>1. CASE CallHandle(p)
  BY <1>1, TakeKept DEF CallHandle
<1>2. ASSUME UNCHANGED <<bindingVars, stack, viewVars>> PROVE Kept'
  BY <1>2, UnseenStep DEF bindingVars, Steady
<1>3. CASE DisposeScope(p)
  BY <1>2, <1>3 DEF DisposeScope
<1>4. CASE Unwind(p)
  BY <1>2, <1>4, TakeKept DEF Unwind
<1> QED
  BY <1>1, <1>3, <1>4

LEMMA StepKept == Insiders = {} /\ IInv /\ Kept /\ [Next]_vars => Kept'
<1> SUFFICES ASSUME Insiders = {}, IInv, Kept, [Next]_vars PROVE Kept'
  OBVIOUS
<1>1. CASE Announcing
  BY <1>1, HearKept, ListenerKept, EndKept DEF Announcing
<1>2. ASSUME NEW p \in Providers, Providing(p) PROVE Kept'
  BY <1>2, ProvideKept, GateKept DEF Providing
<1>3. ASSUME NEW p \in Providers, Disposing(p) PROVE Kept'
  BY <1>3, DisposeKept, GateKept DEF Disposing
<1>4. ASSUME NEW c \in Consumers, Consuming(c) PROVE Kept'
  BY <1>4, ConsumerKept
<1>5. CASE UNCHANGED vars
  BY <1>5, UnseenStep DEF vars, bindingVars, Steady
<1> QED
  BY <1>1, <1>2, <1>3, <1>4, <1>5 DEF Next

\* SEM-004: _announce calls whoever listened when it began, so at every await a
\* consumer whose name resolves to something else than it saw has been told,
\* whoever raised and whatever the listeners provided, unbound or subscribed to in
\* between, unless a listener mounts consumers while it is called.
THEOREM InformedHolds == ASSUME Insiders = {} PROVE Spec => []Informed
<1>1. Init => Kept
  <2> SUFFICES ASSUME Init PROVE Kept
    OBVIOUS
  <2>1. listeners = <<>> /\ ToSet(listeners) = {}
    BY DEF Init, ToSet
  <2> QED
    BY <2>1 DEF Init, Kept, ViewTypes, Once, Heard, Aware
<1>2. IInv /\ Kept => Informed
  <2> SUFFICES ASSUME IInv, Kept, stack = <<>>, NEW c \in ToSet(listeners), view[c] # Resolved(c)
               PROVE  c \in told
    BY DEF Informed, AtAwait
  <2> QED
    BY DEF Kept, Aware
<1>3. IInv /\ Kept /\ [Next]_vars => Kept'
  BY StepKept
<1> QED
  BY <1>1, <1>2, <1>3, Invariant, PTL DEF Spec

----------------------------------------------------------------------------
(* What is seen was bound where it is looked for *)

\* What collects a chain from its foot collects the path.
LEMMA PathAlone ==
  ASSUME NEW D, NEW none, NEW up, Rooted(D, none, up), NEW f,
         \A y \in D : f[y] = {y} \cup IF up[y] = none THEN {} ELSE f[up[y]]
  PROVE  \A x \in D : f[x] = Path(D, up, x)
<1> DEFINE S == {y \in D : f[y] # Path(D, up, y)}
<1> SUFFICES ASSUME S # {} PROVE FALSE
  OBVIOUS
<1>1. PICK x \in S : up[x] \notin S
  BY DEF Rooted
<1>2. Path(D, up, x) = {x} \cup IF up[x] = none THEN {} ELSE Path(D, up, up[x])
  BY <1>1, PathOn
<1>3. up[x] # none => f[up[x]] = Path(D, up, up[x])
  BY <1>1 DEF Rooted
<1> QED
  BY <1>1, <1>2, <1>3

LEMMA ChainIsPath == \A x \in Contexts : Chain(x) = Path(Contexts, Above, x)
<1> DEFINE Unfold(f) ==
             [y \in Contexts |-> {y} \cup IF Above[y] = None THEN {} ELSE f[Above[y]]]
           path == [y \in Contexts |-> Path(Contexts, Above, y)]
           of   == CHOOSE f : f = Unfold(f)
<1>1. Rooted(Contexts, None, Above)
  BY Trees
<1>2. path = Unfold(path)
  <2>1. \A y \in Contexts : path[y] = {y} \cup IF Above[y] = None THEN {} ELSE path[Above[y]]
    BY <1>1, PathOn DEF Rooted
  <2> QED
    BY <2>1
<1>3. of = Unfold(of)
  <2> HIDE DEF Unfold, path
  <2> QED
    BY <1>2
<1>4. \A x \in Contexts : Chain(x) = of[x]
  BY DEF Chain
<1> HIDE DEF of
<1>5. \A y \in Contexts : of[y] = {y} \cup IF Above[y] = None THEN {} ELSE of[Above[y]]
  BY <1>3
<1>6. \A x \in Contexts : of[x] = Path(Contexts, Above, x)
  BY <1>1, <1>5, PathAlone
<1> QED
  BY <1>4, <1>6

LEMMA LineageIsPath == \A r \in Realms : Lineage(r) = Path(Realms, Outer, r)
<1> DEFINE Unfold(f) ==
             [s \in Realms |-> {s} \cup IF Outer[s] = None THEN {} ELSE f[Outer[s]]]
           path == [s \in Realms |-> Path(Realms, Outer, s)]
           of   == CHOOSE f : f = Unfold(f)
<1>1. Rooted(Realms, None, Outer)
  BY Trees
<1>2. path = Unfold(path)
  <2>1. \A s \in Realms : path[s] = {s} \cup IF Outer[s] = None THEN {} ELSE path[Outer[s]]
    BY <1>1, PathOn DEF Rooted
  <2> QED
    BY <2>1
<1>3. of = Unfold(of)
  <2> HIDE DEF Unfold, path
  <2> QED
    BY <1>2
<1>4. \A r \in Realms : Lineage(r) = of[r]
  BY DEF Lineage
<1> HIDE DEF of
<1>5. \A s \in Realms : of[s] = {s} \cup IF Outer[s] = None THEN {} ELSE of[Outer[s]]
  BY <1>3
<1>6. \A r \in Realms : of[r] = Path(Realms, Outer, r)
  BY <1>1, <1>5, PathAlone
<1> QED
  BY <1>4, <1>6

\* realm_for finds the realm of the nearest frame that decides.
LEMMA PlaceIsRealm ==
  ASSUME NEW n \in Names
  PROVE  \A x \in Contexts : Place(x, n) = {RealmFor(x, n)}
<1> DEFINE met(x) == Met(Contexts, Above, Says(n), x)
           S      == {x \in Contexts : Place(x, n) # {RealmFor(x, n)}}
<1> SUFFICES ASSUME S # {} PROVE FALSE
  OBVIOUS
<1>1. Rooted(Contexts, None, Above)
  BY Trees
<1>2. ASSUME NEW y \in Contexts
      PROVE  Deciding(y, n) = {z \in met(y) : met(y) \subseteq Path(Contexts, Above, z)}
  <2>1. Path(Contexts, Above, y) \subseteq Contexts
    BY DEF Path
  <2>2. met(y) = {z \in Chain(y) : Isolates[z][n] # None \/ Enters[z] # None}
    BY <2>1, ChainIsPath DEF Met, Says
  <2>3. met(y) \subseteq Contexts
    BY <2>1 DEF Met
  <2>4. \A z \in met(y) : Chain(z) = Path(Contexts, Above, z)
    BY <2>3, ChainIsPath
  <2> QED
    BY <2>2, <2>4 DEF Deciding
<1>3. PICK x \in S : Above[x] \notin S
  BY TreeAssumption
<1>4. /\ RealmFor(x, n) = IF x \in Says(n) THEN Decision(n)[x]
                          ELSE IF Above[x] = None THEN DefaultRealm
                          ELSE RealmFor(Above[x], n)
  BY <1>3, RealmForWalks
<1>5. Path(Contexts, Above, x) =
        {x} \cup IF Above[x] = None THEN {} ELSE Path(Contexts, Above, Above[x])
  BY <1>1, <1>3, PathOn
<1>6. CASE x \in Says(n)
  <2>1. x \in met(x) /\ met(x) \subseteq Path(Contexts, Above, x)
    BY <1>5, <1>6 DEF Met
  <2>2. \A z \in met(x) : met(x) \subseteq Path(Contexts, Above, z) => z = x
    BY <1>1, <1>3, <2>1, PathOnce
  <2>3. Deciding(x, n) = {x}
    BY <1>2, <1>3, <2>1, <2>2
  <2>4. Place(x, n) = {IF Isolates[x][n] # None THEN Isolates[x][n] ELSE Enters[x]}
    BY <2>3 DEF Place
  <2> QED
    BY <1>3, <1>4, <1>6, <2>4 DEF Decision
<1>7. CASE x \notin Says(n) /\ Above[x] = None
  <2>1. met(x) = {}
    BY <1>5, <1>7 DEF Met
  <2>2. Deciding(x, n) = {}
    BY <1>2, <1>3, <2>1
  <2> QED
    BY <1>3, <1>4, <1>7, <2>2 DEF Place
<1>8. CASE x \notin Says(n) /\ Above[x] # None
  <2>1. Above[x] \in Contexts
    BY <1>1, <1>3, <1>8 DEF Rooted
  <2>2. met(x) = met(Above[x])
    BY <1>5, <1>8 DEF Met
  <2>3. Deciding(x, n) = Deciding(Above[x], n)
    BY <1>2, <1>3, <2>1, <2>2
  <2>4. Place(x, n) = Place(Above[x], n)
    BY <2>3 DEF Place
  <2> QED
    BY <1>3, <1>4, <1>8, <2>1, <2>4
<1> QED
  BY <1>6, <1>7, <1>8

\* What lookup returns is visible under the name in a realm of the lineage.
LEMMA LookupFinds ==
  ASSUME NEW n \in Names, NEW x \in Contexts, Lookup(n, x) # None
  PROVE  \E q \in Path(Realms, Outer, RealmFor(x, n)) :
           held[<<n, q>>] \in published /\ Lookup(n, x) = held[<<n, q>>]
<1> DEFINE key(r) == held[n, r]
           Unfold(f) == [r \in Realms |-> IF key(r) \in published THEN key(r)
                                        ELSE IF Outer[r] = None THEN None
                                        ELSE f[Outer[r]]]
           at     == CHOOSE f : f = Unfold(f)
           stop   == {r \in Realms : key(r) \in published}
           val    == [r \in Realms |-> key(r)]
           walk   == Walk(Realms, Outer, stop, val, None)
<1>1. Rooted(Realms, None, Outer)
  BY Trees
<1>2. Lookup(n, x) = at[RealmFor(x, n)]
  BY DEF Lookup
<1> HIDE DEF at
<1>3. \A r \in Realms : key(r) = held[<<n, r>>]
  OBVIOUS
<1> HIDE DEF key
<1>4. \E f : f = Unfold(f)
  <2>1. stop \in SUBSET Realms
    OBVIOUS
  <2>2. \A r \in Realms : walk[r] = IF r \in stop THEN val[r]
                                 ELSE IF Outer[r] = None THEN None
                                 ELSE walk[Outer[r]]
    <3> HIDE DEF stop, val
    <3> QED
      BY <1>1, <2>1, WalkEnds
  <2>3. walk = [r \in Realms |-> walk[r]]
    BY DEF Walk
  <2> HIDE DEF walk
  <2>4. \A r \in Realms : walk[r] = Unfold(walk)[r]
    BY <2>2
  <2>5. Unfold(walk) = [r \in Realms |-> Unfold(walk)[r]]
    OBVIOUS
  <2> HIDE DEF Unfold
  <2>6. walk = Unfold(walk)
    BY <2>3, <2>4, <2>5
  <2> QED
    BY <2>6
<1>5. at = Unfold(at)
  <2> HIDE DEF Unfold
  <2> QED
    BY <1>4 DEF at
<1>6. \A r \in Realms : at[r] = IF key(r) \in published THEN key(r)
                                ELSE IF Outer[r] = None THEN None
                                ELSE at[Outer[r]]
  BY <1>5
<1> HIDE DEF Unfold
<1> DEFINE found(r) == \E q \in Path(Realms, Outer, r) : key(q) \in published /\ at[r] = key(q)
           S        == {r \in Realms : at[r] # None /\ ~ found(r)}
<1>7. S = {}
  <2> SUFFICES ASSUME S # {} PROVE FALSE
    OBVIOUS
  <2>1. PICK r \in S : Outer[r] \notin S
    BY TreeAssumption
  <2>2. Path(Realms, Outer, r) =
          {r} \cup IF Outer[r] = None THEN {} ELSE Path(Realms, Outer, Outer[r])
    BY <1>1, <2>1, PathOn
  <2>3. key(r) \notin published
    BY <1>6, <2>1, <2>2
  <2>4. Outer[r] # None /\ at[r] = at[Outer[r]]
    BY <1>6, <2>1, <2>3
  <2>5. Outer[r] \in Realms
    BY <1>1, <2>1, <2>4 DEF Rooted
  <2>6. found(Outer[r])
    BY <2>1, <2>4, <2>5
  <2> QED
    BY <2>1, <2>2, <2>4, <2>6
<1>8. RealmFor(x, n) \in Realms
  BY RealmForWalks
<1>9. found(RealmFor(x, n))
  BY <1>2, <1>7, <1>8
<1>10. Path(Realms, Outer, RealmFor(x, n)) \subseteq Realms
  BY DEF Path
<1> QED
  BY <1>2, <1>3, <1>9, <1>10

\* What the name of a consumer resolves to satisfies what is claimed of a view.
WellPlaced(c, p) ==
  /\ NameOf[p] = Needs[c]
  /\ Place(From[p], NameOf[p]) \subseteq UNION {Lineage(r) : r \in Place(At[c], Needs[c])}

LEMMA ResolvedWellPlaced ==
  ASSUME IInv, NEW c \in Consumers, Resolved(c) # None
  PROVE  WellPlaced(c, Resolved(c))
<1> DEFINE n == Needs[c]
           x == At[c]
           p == Resolved(c)
<1>1. n \in Names /\ x \in Contexts
  BY RegistryAssumption
<1>2. PICK q \in Path(Realms, Outer, RealmFor(x, n)) :
        held[<<n, q>>] \in published /\ p = held[<<n, q>>]
  BY <1>1, LookupFinds DEF Resolved
<1>3. RealmFor(x, n) \in Realms
  BY <1>1, RealmForWalks
<1>4. q \in Realms
  BY <1>2 DEF Path
<1>5. p \in Providers /\ n = NameOf[p] /\ Key(p) = <<n, q>>
  BY <1>1, <1>2, <1>4, HeldKey
<1> HIDE DEF p
<1>6. RealmFor(From[p], n) = q
  BY <1>5 DEF Key
<1>7. From[p] \in Contexts
  BY <1>5, RegistryAssumption
<1>8. Place(From[p], n) = {q} /\ Place(x, n) = {RealmFor(x, n)}
  BY <1>1, <1>6, <1>7, PlaceIsRealm
<1>9. q \in Lineage(RealmFor(x, n))
  BY <1>2, <1>3, LineageIsPath
<1>10. Place(From[p], n) \subseteq UNION {Lineage(r) : r \in Place(x, n)}
  BY <1>8, <1>9
<1> QED
  BY <1>5, <1>10 DEF WellPlaced, p

\* A view stays what it was, is forgotten, or is what the name resolves to.
Seen ==
  /\ view = [c \in Consumers |-> view[c]]
  /\ \A c \in Consumers : view[c] # None => WellPlaced(c, view[c])

LEMMA StepSeen == IInv /\ Seen /\ [Next]_vars => Seen'
<1> SUFFICES ASSUME IInv, Seen, [Next]_vars PROVE Seen'
  OBVIOUS
<1>1. ASSUME NEW c \in Consumers, NEW v, view' = [view EXCEPT ![c] = v],
             v # None => WellPlaced(c, v)
      PROVE  Seen'
  <2>1. \A d \in Consumers : view'[d] = IF d = c THEN v ELSE view[d]
    BY <1>1 DEF Seen
  <2>2. view' = [d \in Consumers |-> view'[d]]
    BY <1>1 DEF Seen
  <2>3. \A d \in Consumers : view'[d] # None => WellPlaced(d, view'[d])
    BY <1>1, <2>1 DEF Seen
  <2> QED
    BY <2>2, <2>3 DEF Seen, WellPlaced
<1>2. CASE UNCHANGED view
  BY <1>2 DEF Seen, WellPlaced
<1>3. CASE Announcing
  BY <1>2, <1>3 DEF Announcing, Hear, ListenerEnds, Added, Removed, viewVars
<1>4. ASSUME NEW p \in Providers, Providing(p) PROVE Seen'
  BY <1>2, <1>4 DEF Providing, Provide, GateOpens, GateRaises, viewVars
<1>5. ASSUME NEW p \in Providers, Disposing(p) PROVE Seen'
  BY <1>2, <1>5 DEF Disposing, CallHandle, DisposeScope, Unwind, GateCloses, viewVars
<1>6. ASSUME NEW c \in Consumers, Consuming(c) PROVE Seen'
  <2>1. view' = [view EXCEPT ![c] = Resolved(c)] \/ view' = [view EXCEPT ![c] = None]
    BY <1>6 DEF Consuming, Observe, Stop, Look
  <2>2. Resolved(c) # None => WellPlaced(c, Resolved(c))
    BY ResolvedWellPlaced
  <2> QED
    BY <1>1, <2>1, <2>2
<1> QED
  BY <1>2, <1>3, <1>4, <1>5, <1>6 DEF Next, vars, viewVars

\* PROP-ISO-001, SEM-004 of service isolation: for every tree of contexts and of
\* realms, what lookup hands to a consumer was bound under its name and in a realm
\* that its own context searches, through every reload and teardown since.
THEOREM BoundWhereResolvedHolds == Spec => []BoundWhereResolved
<1>1. Init => Seen
  BY DEF Init, Seen
<1>2. Seen => BoundWhereResolved
  BY DEF Seen, WellPlaced, BoundWhereResolved
<1>3. IInv /\ Seen /\ [Next]_vars => Seen'
  BY StepSeen
<1> QED
  BY <1>1, <1>2, <1>3, Invariant, PTL DEF Spec
=============================================================================
