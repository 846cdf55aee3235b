--------------------------- MODULE Loader_proofs ---------------------------
(* The planner of the loader, for any tree of groups, any documents and any   *)
(* number of jobs and of instances that are lost: its inductive invariant,    *)
(* and what follows from it.                                                  *)
EXTENDS Loader, TLAPS

-----------------------------------------------------------------------------
\* The groups a path is in.  Groups end (LoaderAssumption), so what holds of a
\* path when it holds of the group it is in holds of every path; the lemmas
\* below take a counterexample whose group is none.

\* The recursion of Chain has a solution: by the least set of pairs closed under it.
LEMMA ChainSolvable ==
  \E f : f = [p \in Paths |-> {p} \cup (IF Parent[p] = Top THEN {} ELSE f[Parent[p]])]
PROOF
<1> DEFINE Holds(S, p, q) == q = p \/ (Parent[p] # Top /\ <<Parent[p], q>> \in S)
           Closed == {S \in SUBSET (Paths \X Paths) :
                        \A p \in Paths, q \in Paths : Holds(S, p, q) => <<p, q>> \in S}
           T == {x \in Paths \X Paths : \A S \in Closed : x \in S}
           R == {x \in Paths \X Paths : Holds(T, x[1], x[2])}
           h == [p \in Paths |-> {q \in Paths : <<p, q>> \in T}]
<1>1. \A p \in Paths, q \in Paths : Holds(T, p, q) => <<p, q>> \in T
  OBVIOUS
<1>2. R \in Closed
  <2>1. \A x \in R : x \in T
    BY <1>1
  <2>2. ASSUME NEW p \in Paths, NEW q \in Paths, Holds(R, p, q)
        PROVE  Holds(T, p, q)
    BY <2>1, <2>2
  <2>3. \A p \in Paths, q \in Paths : Holds(T, p, q) => <<p, q>> \in R
    OBVIOUS
  <2>4. R \in SUBSET (Paths \X Paths)
    OBVIOUS
  <2> HIDE DEF R, T
  <2>. QED BY <2>2, <2>3, <2>4
<1>3. \A p \in Paths, q \in Paths : <<p, q>> \in T <=> Holds(T, p, q)
  BY <1>1, <1>2
<1>4. \A p \in Paths : h[p] = {q \in Paths : <<p, q>> \in T}
  OBVIOUS
<1>5. ASSUME NEW p \in Paths
      PROVE  h[p] = {p} \cup (IF Parent[p] = Top THEN {} ELSE h[Parent[p]])
  <2>1. Parent[p] # Top => Parent[p] \in Paths
    BY LoaderAssumption
  <2> HIDE DEF T, h
  <2>2. ASSUME NEW q \in Paths
        PROVE  q \in h[p] <=> q = p \/ (Parent[p] # Top /\ q \in h[Parent[p]])
    <3>1. q \in h[p] <=> <<p, q>> \in T
      BY <1>4
    <3>2. Parent[p] # Top => (q \in h[Parent[p]] <=> <<Parent[p], q>> \in T)
      BY <1>4, <2>1
    <3>. QED BY <1>3, <3>1, <3>2
  <2>3. h[p] \subseteq Paths /\ (Parent[p] # Top => h[Parent[p]] \subseteq Paths)
    BY <1>4, <2>1
  <2>. QED BY <2>2, <2>3
<1>6. h = [p \in Paths |-> {p} \cup (IF Parent[p] = Top THEN {} ELSE h[Parent[p]])]
  <2>1. h \in [Paths -> SUBSET Paths]
    OBVIOUS
  <2> HIDE DEF h
  <2>. QED BY <1>5, <2>1
<1> HIDE DEF h
<1>. QED BY <1>6

LEMMA ChainOf ==
  ASSUME NEW p \in Paths
  PROVE  /\ Chain[p] = {p} \cup (IF Parent[p] = Top THEN {} ELSE Chain[Parent[p]])
         /\ p \in Chain[p]
         /\ Parent[p] # Top => Parent[p] \in Paths
PROOF
<1>1. Chain = [q \in Paths |-> {q} \cup (IF Parent[q] = Top THEN {} ELSE Chain[Parent[q]])]
  BY ChainSolvable, Zenon DEF Chain
<1>2. Chain[p] = {p} \cup (IF Parent[p] = Top THEN {} ELSE Chain[Parent[p]])
  BY <1>1
<1>. QED BY <1>2, LoaderAssumption

\* Where there are paths of a kind there is one whose group is not of it.
LEMMA Outermost ==
  ASSUME NEW S \in SUBSET Paths, S # {}
  PROVE  \E p \in S : Parent[p] \notin S
  BY LoaderAssumption

LEMMA ChainClosed ==
  ASSUME NEW p \in Paths
  PROVE  Chain[p] \subseteq Paths /\ \A q \in Chain[p] : Parent[q] \in Chain[p] \cup {Top}
PROOF
<1> DEFINE Fine(q) == /\ Chain[q] \subseteq Paths
                      /\ \A r \in Chain[q] : Parent[r] \in Chain[q] \cup {Top}
           S == {q \in Paths : ~Fine(q)}
<1>1. ASSUME NEW q \in S, Parent[q] \notin S PROVE FALSE
  <2>1. CASE Parent[q] = Top
    BY <1>1, <2>1, ChainOf
  <2>2. CASE Parent[q] # Top
    <3>1. Parent[q] \in Paths /\ Fine(Parent[q])
      BY <1>1, <2>2, ChainOf
    <3>2. Chain[q] = {q} \cup Chain[Parent[q]] /\ Parent[q] \in Chain[Parent[q]]
      BY <2>2, <3>1, ChainOf
    <3>. QED BY <3>1, <3>2
  <2>. QED BY <2>1, <2>2
<1>2. S = {}
  <2> HIDE DEF Fine
  <2>. QED BY <1>1, Outermost
<1>. QED BY <1>2

\* What holds of a path, and of the group of whatever it holds of, holds all the way up.
LEMMA ChainLeast ==
  ASSUME NEW C, NEW p \in C, C \subseteq Paths, \A q \in C : Parent[q] \in C \cup {Top}
  PROVE  Chain[p] \subseteq C
PROOF
<1> DEFINE S == {q \in C : ~(Chain[q] \subseteq C)}
<1>1. ASSUME NEW q \in S, Parent[q] \notin S PROVE FALSE
  <2>1. q \in Paths
    OBVIOUS
  <2>. QED BY <1>1, <2>1, ChainOf
<1>2. S = {}
  BY <1>1, Outermost
<1>. QED BY <1>2

LEMMA ChainUp ==
  ASSUME NEW p \in Paths, NEW q \in Chain[p]
  PROVE  q \in Paths /\ Chain[q] \subseteq Chain[p]
  BY ChainClosed, ChainLeast

LEMMA NoCycle ==
  ASSUME NEW p \in Paths, Parent[p] # Top
  PROVE  p \notin Chain[Parent[p]]
PROOF
<1> DEFINE S == {q \in Chain[p] : p \in Chain[q]}
<1> SUFFICES ASSUME p \in Chain[Parent[p]]
             PROVE  FALSE
  OBVIOUS
<1>1. S \in SUBSET Paths /\ p \in S
  BY ChainClosed, ChainOf
<1>2. ASSUME NEW q \in S PROVE Parent[q] \in S
  <2>1. Chain[q] = {q} \cup (IF Parent[q] = Top THEN {} ELSE Chain[Parent[q]])
    BY <1>1, ChainOf
  <2>2. Parent[q] # Top /\ p \in Chain[Parent[q]]
    BY <2>1
  <2>. QED BY <1>1, <2>2, ChainClosed
<1>. QED BY <1>1, <1>2, Outermost

\* A path has one first level group.
LEMMA OneTop ==
  ASSUME NEW p \in Paths, NEW q \in Chain[p], NEW r \in Chain[p],
         Parent[q] = Top, Parent[r] = Top
  PROVE  q = r
PROOF
<1> DEFINE C == {s \in Paths : q \in Chain[s] /\ r \in Chain[s]}
           Two == {s \in C : q # r}
<1>1. ASSUME NEW s \in Two, Parent[s] \notin Two PROVE FALSE
  <2>1. Chain[s] = {s} \cup (IF Parent[s] = Top THEN {} ELSE Chain[Parent[s]])
        /\ (Parent[s] # Top => Parent[s] \in Paths)
    BY ChainOf
  <2>. QED BY <1>1, <2>1
<1>2. Two = {}
  BY <1>1, Outermost
<1>. QED BY <1>2

\* What is in or below one of a set of paths is in or below an outermost of them.
LEMMA Topmost ==
  ASSUME NEW p \in Paths, NEW tops, Chain[p] \cap tops # {}
  PROVE  \E q \in Chain[p] \cap tops : Chain[q] \cap tops = {q}
PROOF
<1> DEFINE S == {q \in Chain[p] : Chain[q] \cap tops # {}}
<1>1. S \in SUBSET Paths /\ p \in S
  BY ChainClosed, ChainOf
<1>2. PICK q \in S : Parent[q] \notin S
  BY <1>1, Outermost
<1>3. q \in Paths /\ Parent[q] \in Chain[p] \cup {Top}
  BY <1>1, ChainClosed
<1>4. Chain[q] = {q} \cup (IF Parent[q] = Top THEN {} ELSE Chain[Parent[q]])
  BY <1>3, ChainOf
<1>5. Chain[q] \cap tops = {q}
  BY <1>2, <1>3, <1>4
<1>. QED BY <1>2, <1>5

-----------------------------------------------------------------------------
\* The invariant

JobType ==
  [kind : {"none", "reconcile", "remount"}, stage : {"kill", "update", "settle", "over"},
   outcome : {"none", "returned", "interrupted", "start failed"},
   doc : KnownDocs, named : SUBSET Paths, shown : SUBSET Paths, kill : SUBSET Paths,
   doomed : SUBSET Paths, mount : SUBSET Paths, update : SUBSET Paths,
   unchanged : SUBSET Paths, failed : SUBSET Paths, touched : SUBSET Paths,
   torn : SUBSET Paths, before : [Paths -> Instance \cup {None}],
   was : [Paths -> KnownDocs \cup {None}]]

LoaderTypes ==
  /\ live \in [Paths -> KnownDocs \cup {None}]
  /\ inst \in [Paths -> Instance \cup {None}]
  /\ job \in JobType /\ jobs \in Nat

\* What is remembered has its own row, and its group is remembered too.
Nested == \A p \in Live : p \in DOMAIN live[p] /\ Parent[p] \in Live \cup {Top}

\* What runs has the target and, unless an update of it was cut short, the config
\* of the row it is remembered by.
Recorded ==
  \A p \in Running :
    /\ inst[p].by <= jobs
    /\ p \in Live => /\ inst[p].name = Row(p).name
                     /\ p \notin job.torn /\ Row(p).config # Computed =>
                          inst[p].holds = Row(p).config

\* The entries of the mounted tree that the job leaves in it.
Kept == {p \in Paths : job.was[p] # None} \ job.doomed

\* What a job decided, and keeps to while it is carried out.
Planned ==
  /\ job.outcome = "none"
  /\ job.doomed = Leaving
  /\ job.shown \subseteq DOMAIN job.doc
  /\ \A p \in Paths : job.before[p] # None => job.before[p].by < jobs
  /\ job.kind = "reconcile" =>
       /\ Kept \subseteq job.shown
       /\ \A p \in job.shown : Parent[p] \in job.shown \cup {Top}
  /\ job.mount \subseteq job.shown \ Kept
  /\ job.update \cup job.unchanged \subseteq job.shown \cap Kept
  /\ \A p \in job.update : job.was[p][p].config # job.doc[p].config

Agrees(p) == Row(p).name = job.doc[p].name /\ Row(p).config = job.doc[p].config

\* Nothing is forgotten yet, and an instance that must go and runs has one to be
\* disposed of above it.
Killing ==
  /\ live = job.was
  /\ job.touched = {}
  /\ \A p \in Paths : Chain[p] \cap job.kill # {} /\ live[p] # None => p \in job.doomed
  /\ \A p \in Running \cap job.doomed : Chain[p] \cap job.kill # {}

\* Each entry that is shown is dealt with in one way.
Sorted ==
  /\ job.shown \ Kept \subseteq job.mount \cup job.failed
  /\ job.shown \cap Kept \subseteq job.update \cup job.unchanged \cup job.touched
  /\ \A p \in job.update : Row(p).name = job.doc[p].name
  /\ \A p \in job.unchanged \cup job.touched : Agrees(p)

Updating == Live = Kept /\ job.touched \subseteq job.shown \cap Kept

Mounted ==
  /\ Live = Kept \cup job.mount
  /\ job.update = {}
  /\ job.mount \subseteq job.touched

\* Of what had to go only what was mounted since runs.
Replaced == \A p \in Running \cap job.doomed : inst[p].by = jobs

Tidy ==
  Returned("reconcile") =>
    /\ Live \subseteq job.shown /\ job.shown \ Live \subseteq job.failed
    /\ \A p \in Live : Agrees(p)
    /\ \A p \in job.touched \cap Running : ~inst[p].up => p \in job.failed

LoaderInv ==
  /\ LoaderTypes /\ Nested /\ NothingLost /\ Recorded
  /\ job.stage # "over" => Planned
  /\ job.stage = "kill" => Killing
  /\ job.stage \in {"kill", "update", "settle"} => Sorted
  /\ job.stage = "update" => Updating /\ Replaced
  /\ job.stage = "settle" => Mounted /\ Replaced
  /\ job.stage = "over" => Tidy
-----------------------------------------------------------------------------
\* Documents and instances

LEMMA DocFacts ==
  ASSUME NEW doc \in KnownDocs
  PROVE  /\ doc # None /\ DOMAIN doc \subseteq Paths
         /\ \A p \in DOMAIN doc : doc[p] \in Rows
PROOF
<1>1. PICK S \in SUBSET Paths : doc \in [S -> Rows]
  BY DEF KnownDocs
<1>. QED BY <1>1, LoaderAssumption

LEMMA WithinFacts ==
  ASSUME NEW doc \in KnownDocs, NEW S
  PROVE  /\ Within(doc, S) \in KnownDocs /\ Within(doc, S) # None
         /\ \A p \in DOMAIN doc \cap S : p \in DOMAIN Within(doc, S) /\ Within(doc, S)[p] = doc[p]
PROOF
<1>1. PICK D \in SUBSET Paths : doc \in [D -> Rows]
  BY DEF KnownDocs
<1>2. Within(doc, S) \in [D \cap S -> Rows]
  BY <1>1 DEF Within
<1>3. Within(doc, S) \in KnownDocs
  BY <1>2 DEF KnownDocs
<1>4. \A p \in DOMAIN doc \cap S : p \in DOMAIN Within(doc, S) /\ Within(doc, S)[p] = doc[p]
  BY DEF Within
<1>. QED BY <1>3, <1>4, DocFacts

LEMMA RowFacts ==
  ASSUME NEW r \in Rows
  PROVE  /\ r.name \in {s.name : s \in Rows} /\ r.config \in Configs
         /\ r.name = Group => r.config = None
  BY LoaderAssumption DEF Configs

LEMMA AdoptsFacts ==
  ASSUME NEW i \in Instance, NEW config \in Configs, NEW healthy \in BOOLEAN
  PROVE  LET new == Adopts(i, config, healthy) IN
           /\ new \in Instance /\ new # None /\ new.name = i.name /\ new.by = i.by
           /\ config # Computed => new.holds = config
PROOF
<1> DEFINE v == Value(i, config)
           up == healthy /\ v \notin Invalid \cup {None}
<1>1. v \in Configs /\ (config # Computed => v = config)
  BY DEF Value, Instance
<1>2. up \in BOOLEAN
  OBVIOUS
<1>3. Adopts(i, config, healthy) = [i EXCEPT !.holds = v, !.up = up]
  BY DEF Adopts
<1> HIDE DEF v, up
<1>4. Adopts(i, config, healthy) \in Instance
  BY <1>1, <1>2, <1>3 DEF Instance
<1>. QED BY <1>1, <1>3, <1>4, LoaderAssumption DEF Instance

LEMMA NewInstFacts ==
  ASSUME LoaderTypes, NEW p \in DOMAIN job.doc, NEW healthy \in BOOLEAN
  PROVE  LET new == NewInst(p, healthy) IN
           /\ new \in Instance /\ new # None /\ new.name = job.doc[p].name /\ new.by = jobs
           /\ job.doc[p].config # Computed => new.holds = job.doc[p].config
PROOF
<1> DEFINE row == job.doc[p]
           view == IF row.config = Computed THEN Seen(job.doc, p) ELSE None
           i == [name |-> row.name, prepares |-> row.config = Computed, view |-> view,
                 by |-> jobs, holds |-> None, up |-> TRUE]
<1>1. job.doc \in KnownDocs /\ jobs \in Nat
  BY DEF LoaderTypes, JobType
<1>2. row \in Rows
  BY <1>1, DocFacts
<1>3. row.name \in {s.name : s \in Rows} /\ row.config \in Configs
  BY <1>2, RowFacts
<1>4. Seen(job.doc, p) \in Configs
  <2>1. CASE Reads[p] \in DOMAIN job.doc
    <3>1. job.doc[Reads[p]].config \in Configs
      BY <1>1, <2>1, DocFacts, RowFacts
    <3>. QED BY <3>1 DEF Seen, Configs
  <2>2. CASE Reads[p] \notin DOMAIN job.doc
    BY <2>2 DEF Seen, Configs
  <2>. QED BY <2>1, <2>2
<1>5. i \in Instance
  <2>1. view \in Configs /\ None \in Configs
    BY <1>4 DEF Configs
  <2> HIDE DEF view
  <2>. QED BY <1>1, <1>3, <2>1 DEF Instance
<1>6. NewInst(p, healthy) = Adopts(i, row.config, healthy)
  BY DEF NewInst
<1>7. i.name = row.name /\ i.by = jobs
  OBVIOUS
<1> HIDE DEF i
<1>. QED BY <1>3, <1>5, <1>6, <1>7, AdoptsFacts

LEMMA UnderFacts ==
  ASSUME NEW p \in Paths
  PROVE  /\ Under(p) \subseteq Paths /\ p \in Under(p)
         /\ \A q \in Paths : Parent[q] \in Under(p) => q \in Under(p) \ {p}
         /\ \A q \in Paths : p \in Chain[q] <=> q \in Under(p)
PROOF
<1>1. Under(p) \subseteq Paths /\ p \in Under(p)
  BY ChainOf DEF Under
<1>2. ASSUME NEW q \in Paths, Parent[q] \in Under(p)
      PROVE  q \in Under(p) \ {p}
  <2>1. Parent[q] \in Paths /\ Parent[q] # Top /\ p \in Chain[Parent[q]]
    BY <1>2, LoaderAssumption DEF Under
  <2>2. p \in Chain[q]
    BY <2>1, ChainOf
  <2>3. q # p
    BY <2>1, NoCycle
  <2>. QED BY <2>2, <2>3 DEF Under
<1>. QED BY <1>1, <1>2 DEF Under

\* What is remembered is remembered with every group it is in.
LEMMA LiveAbove ==
  ASSUME Nested, NEW p \in Live
  PROVE  Chain[p] \subseteq Live
  BY ChainLeast DEF Nested, Live
-----------------------------------------------------------------------------
\* What one step leaves as it was

\* A job cut short, or over: only what is remembered and what runs still matters.
LEMMA CutShort ==
  ASSUME LoaderTypes', Nested', NothingLost', Recorded',
         job'.stage = "over", job'.outcome # "returned"
  PROVE  LoaderInv'
  BY DEF LoaderInv, Tidy, Returned

\* The fields of a job that its steps do not touch.
SamePlan ==
  /\ job'.kind = job.kind /\ job'.doc = job.doc /\ job'.named = job.named
  /\ job'.shown = job.shown /\ job'.doomed = job.doomed /\ job'.unchanged = job.unchanged
  /\ job'.before = job.before /\ job'.was = job.was

LEMMA PlanStays ==
  ASSUME Planned, SamePlan, jobs' = jobs, job'.outcome = job.outcome,
         job'.mount \subseteq job.mount, job'.update \subseteq job.update
  PROVE  Planned' /\ Kept' = Kept
PROOF
<1>1. Leaving' = Leaving /\ Kept' = Kept
  BY DEF SamePlan, Leaving, Kept
<1>. QED BY <1>1 DEF SamePlan, Planned

\* Instances go, with all that runs below them.
LEMMA GoneFacts ==
  ASSUME LoaderTypes, NothingLost, NEW S \in SUBSET Paths,
         \A q \in Paths : Parent[q] \in S => q \in S,
         inst' = Gone(S), live' = live
  PROVE  /\ inst' \in [Paths -> Instance \cup {None}]
         /\ NothingLost' /\ Live' = Live /\ Running' = Running \ S
         /\ \A q \in Running' : inst'[q] = inst[q]
PROOF
<1>1. inst \in [Paths -> Instance \cup {None}]
  BY DEF LoaderTypes
<1>2. \A q \in Paths : inst'[q] = IF q \in S THEN None ELSE inst[q]
  BY DEF Gone
<1>3. inst' \in [Paths -> Instance \cup {None}]
  BY <1>1 DEF Gone
<1>4. Live' = Live /\ Running' = Running \ S /\ Running \subseteq Paths
  BY <1>2 DEF Live, Running
<1>5. NothingLost'
  BY <1>4 DEF NothingLost
<1>. QED BY <1>2, <1>3, <1>4, <1>5 DEF Running

LEMMA LessRecorded ==
  ASSUME Recorded, live' = live, Live' = Live, jobs' = jobs, job'.torn = job.torn,
         Running' \subseteq Running, \A q \in Running' : inst'[q] = inst[q]
  PROVE  Recorded'
  BY DEF Recorded, Row

LEMMA LoseKeeps ==
  ASSUME LoaderInv, NEW p \in Paths, Lose(p)
  PROVE  LoaderInv'
PROOF
<1>1. PICK S \in {Under(p), Under(p) \ {p}} : inst' = Gone(S)
  BY DEF Lose
<1>2. live' = live /\ job' = job /\ jobs' = jobs
  BY DEF Lose
<1>3. S \in SUBSET Paths /\ \A q \in Paths : Parent[q] \in S => q \in S
  BY UnderFacts
<1>4. LoaderTypes /\ Nested /\ NothingLost /\ Recorded
  BY DEF LoaderInv
<1>5. /\ inst' \in [Paths -> Instance \cup {None}]
      /\ NothingLost' /\ Live' = Live /\ Running' = Running \ S
      /\ \A q \in Running' : inst'[q] = inst[q]
  BY <1>1, <1>2, <1>3, <1>4, GoneFacts
<1>6. LoaderTypes' /\ Nested' /\ Recorded'
  <2>1. LoaderTypes'
    BY <1>2, <1>4, <1>5 DEF LoaderTypes
  <2>2. Nested'
    BY <1>2, <1>4, <1>5 DEF Nested
  <2>3. Recorded'
    BY <1>2, <1>4, <1>5, LessRecorded
  <2>. QED BY <2>1, <2>2, <2>3
<1>7. Kept' = Kept /\ Leaving' = Leaving /\ \A q \in Paths : Agrees(q)' <=> Agrees(q)
  BY <1>2 DEF Kept, Leaving, Agrees, Row
<1>8. job.stage # "over" => Planned'
  BY <1>2, <1>7 DEF LoaderInv, Planned
<1>9. job.stage = "kill" => Killing'
  BY <1>2, <1>5 DEF LoaderInv, Killing
<1>10. Sorted => Sorted'
  BY <1>2, <1>7 DEF Sorted, Row, Agrees
<1>11. Updating => Updating'
  BY <1>2, <1>5, <1>7 DEF Updating
<1>12. Mounted => Mounted'
  BY <1>2, <1>5, <1>7 DEF Mounted
<1>13. Replaced => Replaced'
  BY <1>2, <1>5 DEF Replaced
<1>14. Tidy => Tidy'
  BY <1>2, <1>5, <1>7 DEF Tidy, Returned, Agrees, Row
<1>. QED BY <1>2, <1>5, <1>6, <1>8, <1>9, <1>10, <1>11, <1>12, <1>13, <1>14 DEF LoaderInv

LEMMA KillKeeps ==
  ASSUME LoaderInv, NEW p \in Paths, Kill(p)
  PROVE  LoaderInv'
PROOF
<1>1. /\ job.stage = "kill" /\ p \in job.kill /\ inst' = Gone(Under(p))
      /\ live' = live /\ jobs' = jobs
      /\ \/ job' = [job EXCEPT !.kill = @ \ {p}]
         \/ job' = Raised("interrupted")
  BY DEF Kill, At
<1>2. LoaderTypes /\ Nested /\ NothingLost /\ Recorded /\ Planned /\ Killing /\ Sorted
  BY <1>1 DEF LoaderInv
<1>3. Under(p) \in SUBSET Paths /\ \A q \in Paths : Parent[q] \in Under(p) => q \in Under(p)
  BY UnderFacts
<1>4. /\ inst' \in [Paths -> Instance \cup {None}]
      /\ NothingLost' /\ Live' = Live /\ Running' = Running \ Under(p)
      /\ \A q \in Running' : inst'[q] = inst[q]
  BY <1>1, <1>2, <1>3, GoneFacts
<1>5. Nested'
  BY <1>1, <1>2, <1>4 DEF Nested
<1>6. CASE job' = [job EXCEPT !.kill = @ \ {p}]
  <2>1. /\ job' \in JobType /\ job'.kill = job.kill \ {p} /\ SamePlan
        /\ job'.stage = "kill" /\ job'.outcome = job.outcome /\ job'.torn = job.torn
        /\ job'.mount = job.mount /\ job'.update = job.update
        /\ job'.touched = job.touched /\ job'.failed = job.failed
    BY <1>1, <1>2, <1>6 DEF LoaderTypes, JobType, SamePlan
  <2>2. LoaderTypes'
    BY <1>1, <1>2, <1>4, <2>1 DEF LoaderTypes
  <2>3. Recorded'
    BY <1>1, <1>2, <1>4, <2>1, LessRecorded
  <2>4. Planned' /\ Kept' = Kept
    BY <1>1, <1>2, <2>1, PlanStays
  <2>5. Killing'
    <3>1. ASSUME NEW q \in Running' \cap job.doomed
          PROVE  Chain[q] \cap job'.kill # {}
      <4>1. Chain[q] \cap job.kill # {} /\ q \notin Under(p) /\ q \in Paths
        BY <1>2, <1>4 DEF Killing, Running
      <4>2. p \notin Chain[q]
        BY <4>1 DEF Under
      <4>. QED BY <2>1, <4>1, <4>2
    <3>. QED BY <1>1, <1>2, <2>1, <3>1 DEF Killing, SamePlan
  <2>6. Sorted'
    BY <1>1, <1>2, <2>1, <2>4 DEF Sorted, SamePlan, Agrees, Row
  <2>. QED BY <1>4, <1>5, <2>1, <2>2, <2>3, <2>4, <2>5, <2>6 DEF LoaderInv
<1>7. CASE job' = Raised("interrupted")
  <2>1. job' \in JobType /\ job'.stage = "over" /\ job'.outcome = "interrupted"
        /\ job'.torn = job.torn
    BY <1>2, <1>7 DEF LoaderTypes, JobType, Raised
  <2>2. LoaderTypes'
    BY <1>1, <1>2, <1>4, <2>1 DEF LoaderTypes
  <2>3. Recorded'
    BY <1>1, <1>2, <1>4, <2>1, LessRecorded
  <2>. QED BY <1>4, <1>5, <2>1, <2>2, <2>3, CutShort
<1>. QED BY <1>1, <1>6, <1>7
LEMMA ForgetKeeps ==
  ASSUME LoaderInv, Forget
  PROVE  LoaderInv'
PROOF
<1>1. /\ job.stage = "kill" /\ job.kill = {}
      /\ live' = [p \in Paths |-> IF p \in job.doomed THEN None ELSE live[p]]
      /\ inst' = inst /\ jobs' = jobs
  BY DEF Forget, At, KillEnds
<1>2. LoaderTypes /\ Nested /\ NothingLost /\ Recorded /\ Planned /\ Killing /\ Sorted
  BY <1>1 DEF LoaderInv
<1>3. Running \cap job.doomed = {} /\ Running' = Running
  BY <1>1, <1>2 DEF Killing, Running
<1>4. /\ Live = {p \in Paths : job.was[p] # None}
      /\ Live' = Kept /\ Kept = Live \ job.doomed
      /\ \A p \in Kept : live'[p] = live[p]
      /\ live' \in [Paths -> KnownDocs \cup {None}]
  BY <1>1, <1>2 DEF LoaderTypes, Live, Kept, Killing
<1>5. Nested'
  <2>1. ASSUME NEW p \in Kept, Parent[p] # Top
        PROVE  Parent[p] \in Kept
    <3>1. p \in Paths /\ p \in Live /\ Parent[p] \in Live /\ Parent[p] \in Paths
      BY <1>2, <1>4, <2>1, ChainOf DEF Nested
    <3>2. Chain[Parent[p]] \subseteq Chain[p]
      BY <2>1, <3>1, ChainOf
    <3>3. p \notin Leaving
      BY <1>2, <2>1 DEF Kept, Planned
    <3>4. Parent[p] \notin Leaving
      <4>1. job.kind = "reconcile" => p \in job.shown
        BY <1>4, <3>1, <3>3 DEF Leaving
      <4>2. job.kind = "reconcile" => Parent[p] \in job.shown
        BY <1>2, <2>1, <4>1 DEF Planned
      <4>3. ~ \E q \in Chain[p] : \/ q \in job.named
                                  \/ q \in job.shown /\ job.was[q][q].name # job.doc[q].name
        BY <1>4, <3>1, <3>3 DEF Leaving
      <4>. QED BY <3>2, <4>2, <4>3 DEF Leaving
    <3>. QED BY <1>2, <1>4, <3>1, <3>4 DEF Planned
  <2>2. \A p \in Kept : p \in DOMAIN live'[p]
    BY <1>2, <1>4 DEF Nested
  <2>. QED BY <1>4, <2>1, <2>2 DEF Nested
<1>6. NothingLost'
  BY <1>2, <1>3, <1>4 DEF NothingLost
<1>7. ASSUME job'.torn = job.torn PROVE Recorded'
  BY <1>1, <1>2, <1>3, <1>4, <1>7 DEF Recorded, NothingLost, Row
<1>8. ASSUME SamePlan, job' \in JobType, job'.stage = "update", job'.outcome = job.outcome,
             job'.torn = job.torn, job'.touched = job.touched, job'.update = job.update,
             job'.mount \subseteq job.mount, job.mount \subseteq job'.mount \cup job'.failed,
             job.failed \subseteq job'.failed
      PROVE  LoaderInv'
  <2>1. Planned' /\ Kept' = Kept
    BY <1>1, <1>2, <1>8, PlanStays
  <2>2. LoaderTypes'
    BY <1>1, <1>2, <1>4, <1>8 DEF LoaderTypes
  <2>3. \A p \in Kept : Row(p)' = Row(p) /\ (Agrees(p)' <=> Agrees(p))
    BY <1>4, <1>8 DEF SamePlan, Agrees, Row
  <2>4. job.update \subseteq Kept /\ job.unchanged \subseteq Kept /\ job.touched = {}
    BY <1>2 DEF Planned, Killing
  <2>5. Sorted'
    BY <1>2, <1>8, <2>1, <2>3, <2>4 DEF Sorted, SamePlan
  <2>6. Updating' /\ Replaced'
    BY <1>3, <1>4, <1>8, <2>1, <2>4 DEF Updating, Replaced, SamePlan
  <2>. QED BY <1>5, <1>6, <1>7, <1>8, <2>1, <2>2, <2>5, <2>6 DEF LoaderInv
<1>9. CASE job' = [job EXCEPT !.stage = "update"]
  <2>1. /\ job' \in JobType /\ SamePlan
        /\ job'.stage = "update" /\ job'.outcome = job.outcome /\ job'.torn = job.torn
        /\ job'.mount = job.mount /\ job'.update = job.update
        /\ job'.touched = job.touched /\ job'.failed = job.failed
    BY <1>2, <1>9 DEF LoaderTypes, JobType, SamePlan
  <2>. QED BY <1>8, <2>1
<1>10. CASE job' = Raised("interrupted")
  <2>1. job' \in JobType /\ job'.stage = "over" /\ job'.outcome = "interrupted"
        /\ job'.torn = job.torn
    BY <1>2, <1>10 DEF LoaderTypes, JobType, Raised
  <2>2. LoaderTypes'
    BY <1>1, <1>2, <1>4, <2>1 DEF LoaderTypes
  <2>. QED BY <1>5, <1>6, <1>7, <2>1, <2>2, CutShort
<1>11. ASSUME NEW fails \in SUBSET job.mount,
              job' = [job EXCEPT !.stage = "update", !.mount = @ \ fails, !.failed = @ \cup fails]
       PROVE  LoaderInv'
  <2>1. job.mount \in SUBSET Paths
    BY <1>2 DEF LoaderTypes, JobType
  <2>2. /\ job' \in JobType /\ SamePlan
        /\ job'.stage = "update" /\ job'.outcome = job.outcome /\ job'.torn = job.torn
        /\ job'.mount = job.mount \ fails /\ job'.update = job.update
        /\ job'.touched = job.touched /\ job'.failed = job.failed \cup fails
    BY <1>2, <1>11, <2>1 DEF LoaderTypes, JobType, SamePlan
  <2>. QED BY <1>8, <2>2
<1>. QED BY <1>9, <1>10, <1>11 DEF Forget

LEMMA UpdateKeeps ==
  ASSUME LoaderInv, NEW p \in Paths, Update(p)
  PROVE  LoaderInv'
PROOF
<1> DEFINE config == job.doc[p].config
<1>1. PICK healthy \in BOOLEAN :
        LET new == IF inst[p] = None THEN None ELSE Adopts(inst[p], config, healthy)
        IN \/ /\ inst' = [inst EXCEPT ![p] = new]
              /\ job' = IF new = None \/ new.up
                        THEN [job EXCEPT !.update = @ \ {p}, !.touched = @ \cup {p},
                                         !.torn = @ \ {p}]
                        ELSE Raised("start failed")
           \/ /\ inst' \in {inst, [inst EXCEPT ![p] = new]}
              /\ job' = [Raised("interrupted") EXCEPT !.torn = @ \cup {p}]
  BY DEF Update
<1> DEFINE new == IF inst[p] = None THEN None ELSE Adopts(inst[p], config, healthy)
<1>2. /\ job.stage = "update" /\ p \in job.update /\ jobs' = jobs
      /\ live' = [live EXCEPT ![p] = Within(job.doc, Under(p))]
  BY DEF Update, At
<1>3. /\ LoaderTypes /\ Nested /\ NothingLost /\ Recorded /\ Planned /\ Sorted
      /\ Updating /\ Replaced
  BY <1>2 DEF LoaderInv
<1>4. /\ job.doc \in KnownDocs /\ p \in DOMAIN job.doc /\ p \in Kept /\ p \in Live
      /\ p \in job.shown
  BY <1>2, <1>3 DEF LoaderTypes, JobType, Planned, Updating
<1>5. job.doc[p] \in Rows /\ config \in Configs
  BY <1>4, DocFacts, RowFacts
<1>6. inst \in [Paths -> Instance \cup {None}] /\ live \in [Paths -> KnownDocs \cup {None}]
  BY <1>3 DEF LoaderTypes
<1>7. /\ new \in Instance \cup {None} /\ (new = None <=> inst[p] = None)
      /\ new # None => /\ new.name = inst[p].name /\ new.by = inst[p].by
                       /\ config # Computed => new.holds = config
  BY <1>5, <1>6, AdoptsFacts
<1> HIDE DEF new, config
<1>8. /\ live' \in [Paths -> KnownDocs \cup {None}] /\ Live' = Live
      /\ p \in DOMAIN live'[p] /\ live'[p][p] = job.doc[p]
      /\ \A q \in Paths \ {p} : live'[q] = live[q]
  BY <1>2, <1>4, <1>6, WithinFacts, UnderFacts DEF Live
<1>9. inst' \in {inst, [inst EXCEPT ![p] = new]}
  BY <1>1 DEF new
<1>10. /\ inst' \in [Paths -> Instance \cup {None}] /\ Running' = Running
       /\ \A q \in Paths \ {p} : inst'[q] = inst[q]
       /\ inst'[p] \in {inst[p], new}
  BY <1>6, <1>7, <1>9 DEF Running
<1>11. Nested'
  BY <1>3, <1>8 DEF Nested, Live
<1>12. NothingLost'
  BY <1>3, <1>8, <1>10 DEF NothingLost
<1>13. ASSUME \/ inst'[p] = new /\ job.torn \subseteq job'.torn \cup {p}
              \/ job'.torn = job.torn \cup {p}
       PROVE  Recorded'
  <2>1. ASSUME NEW q \in Running, q # p
        PROVE  /\ inst'[q].by <= jobs
               /\ inst'[q].name = live'[q][q].name
               /\ q \notin job'.torn /\ live'[q][q].config # Computed =>
                    inst'[q].holds = live'[q][q].config
    BY <1>3, <1>8, <1>10, <1>13, <2>1 DEF Recorded, NothingLost, Row, Running
  <2>2. ASSUME p \in Running
        PROVE  /\ inst'[p].by <= jobs
               /\ inst'[p].name = live'[p][p].name
               /\ p \notin job'.torn /\ live'[p][p].config # Computed =>
                    inst'[p].holds = live'[p][p].config
    <3>1. /\ inst[p].by <= jobs /\ inst[p].name = job.doc[p].name /\ inst[p] # None
      BY <1>2, <1>3, <1>4, <2>2 DEF Recorded, Sorted, Running
    <3>2. inst'[p].by = inst[p].by /\ inst'[p].name = inst[p].name
      BY <1>7, <1>10, <3>1
    <3>3. inst'[p] = new /\ job.doc[p].config # Computed => inst'[p].holds = job.doc[p].config
      BY <1>7, <3>1 DEF config
    <3>. QED BY <1>8, <1>13, <3>1, <3>2, <3>3
  <2>. QED BY <1>2, <1>10, <2>1, <2>2 DEF Recorded, Row
<1>14. CASE inst' = [inst EXCEPT ![p] = new]
            /\ job' = [job EXCEPT !.update = @ \ {p}, !.touched = @ \cup {p}, !.torn = @ \ {p}]
  <2>1. /\ job' \in JobType /\ SamePlan
        /\ job'.stage = "update" /\ job'.outcome = job.outcome /\ job'.torn = job.torn \ {p}
        /\ job'.mount = job.mount /\ job'.update = job.update \ {p}
        /\ job'.touched = job.touched \cup {p} /\ job'.failed = job.failed
    BY <1>2, <1>3, <1>14 DEF LoaderTypes, JobType, SamePlan
  <2>2. LoaderTypes'
    BY <1>2, <1>3, <1>8, <1>10, <2>1 DEF LoaderTypes
  <2>3. Recorded'
    BY <1>6, <1>13, <1>14, <2>1
  <2>4. Planned' /\ Kept' = Kept
    BY <1>2, <1>3, <2>1, PlanStays
  <2>5. \A q \in Paths \ {p} : Row(q)' = Row(q) /\ (Agrees(q)' <=> Agrees(q))
    BY <1>8, <2>1 DEF SamePlan, Agrees, Row
  <2>6. Agrees(p)'
    BY <1>8, <2>1 DEF SamePlan, Agrees, Row
  <2>7. /\ job.update \subseteq Paths /\ job.unchanged \subseteq Paths
        /\ job.touched \subseteq Paths
    BY <1>3 DEF LoaderTypes, JobType
  <2>8. Sorted'
    <3>1. \A q \in job'.update : Row(q)'.name = job'.doc[q].name
      BY <1>3, <2>1, <2>5, <2>7 DEF Sorted, SamePlan
    <3>2. \A q \in job'.unchanged \cup job'.touched : Agrees(q)'
      BY <1>3, <2>1, <2>5, <2>6, <2>7 DEF Sorted, SamePlan
    <3>. QED BY <1>3, <2>1, <2>4, <3>1, <3>2 DEF Sorted, SamePlan
  <2>9. Updating'
    BY <1>3, <1>4, <1>8, <2>1, <2>4 DEF Updating, SamePlan
  <2>10. Replaced'
    BY <1>2, <1>3, <1>4, <1>10, <2>1 DEF Replaced, SamePlan, Kept, Running
  <2>. QED BY <1>11, <1>12, <2>1, <2>2, <2>3, <2>4, <2>8, <2>9, <2>10 DEF LoaderInv
<1>15. CASE inst' = [inst EXCEPT ![p] = new] /\ job' = Raised("start failed")
  <2>1. job' \in JobType /\ job'.stage = "over" /\ job'.outcome = "start failed"
        /\ job'.torn = job.torn
    BY <1>3, <1>15 DEF LoaderTypes, JobType, Raised
  <2>2. LoaderTypes'
    BY <1>2, <1>3, <1>8, <1>10, <2>1 DEF LoaderTypes
  <2>3. Recorded'
    BY <1>6, <1>13, <1>15, <2>1
  <2>. QED BY <1>11, <1>12, <2>1, <2>2, <2>3, CutShort
<1>16. CASE job' = [Raised("interrupted") EXCEPT !.torn = @ \cup {p}]
  <2>1. job' \in JobType /\ job'.stage = "over" /\ job'.outcome = "interrupted"
        /\ job'.torn = job.torn \cup {p}
    BY <1>3, <1>16 DEF LoaderTypes, JobType, Raised
  <2>2. LoaderTypes'
    BY <1>2, <1>3, <1>8, <1>10, <2>1 DEF LoaderTypes
  <2>. QED BY <1>11, <1>12, <1>13, <2>1, <2>2, CutShort
<1>. QED BY <1>1, <1>14, <1>15, <1>16 DEF new

LEMMA SettleKeeps ==
  ASSUME LoaderInv, Settle \/ SettleCut
  PROVE  LoaderInv'
PROOF
<1>1. job.stage = "settle" /\ live' = live /\ inst' = inst /\ jobs' = jobs
  BY DEF Settle, SettleCut, At
<1>2. /\ LoaderTypes /\ Nested /\ NothingLost /\ Recorded /\ Planned /\ Sorted /\ Mounted
  BY <1>1 DEF LoaderInv
<1>3. Live' = Live /\ Running' = Running
  BY <1>1 DEF Live, Running
<1>4. Nested' /\ NothingLost'
  BY <1>1, <1>2, <1>3 DEF Nested, NothingLost
<1>5. ASSUME job'.torn = job.torn PROVE Recorded'
  BY <1>1, <1>2, <1>3, <1>5 DEF Recorded, Row
<1>6. CASE Settle
  <2> DEFINE sick == {p \in job.touched \cap Running : ~inst[p].up}
  <2>1. sick \subseteq Paths
    BY DEF Running
  <2>2. job' = [job EXCEPT !.stage = "over", !.outcome = "returned", !.failed = @ \cup sick]
    BY <1>6 DEF Settle
  <2> HIDE DEF sick
  <2>3. /\ job' \in JobType /\ SamePlan /\ job'.stage = "over" /\ job'.torn = job.torn
        /\ job'.failed = job.failed \cup sick /\ job'.touched = job.touched
    BY <1>2, <2>1, <2>2 DEF LoaderTypes, JobType, SamePlan
  <2>4. LoaderTypes'
    BY <1>1, <1>2, <2>3 DEF LoaderTypes
  <2>5. Tidy'
    <3>. SUFFICES ASSUME job.kind = "reconcile"
                  PROVE  Tidy'
      BY <2>3 DEF Tidy, Returned, SamePlan
    <3>1. Live \subseteq job.shown /\ job.shown \ Live \subseteq job.failed
      BY <1>2 DEF Planned, Mounted, Sorted
    <3>2. \A p \in Live : Agrees(p)
      BY <1>2, <3>1 DEF Mounted, Sorted
    <3>3. \A p \in Live : Agrees(p)'
      BY <1>1, <2>3, <3>2 DEF Agrees, SamePlan, Row
    <3>4. \A p \in job'.touched \cap Running' : ~inst'[p].up => p \in job'.failed
      BY <1>1, <1>3, <2>3 DEF sick
    <3>. QED BY <1>3, <2>3, <3>1, <3>3, <3>4 DEF Tidy, SamePlan
  <2>. QED BY <1>4, <1>5, <2>3, <2>4, <2>5 DEF LoaderInv
<1>7. CASE SettleCut
  <2>1. job' \in JobType /\ job'.stage = "over" /\ job'.outcome = "interrupted"
        /\ job'.torn = job.torn
    BY <1>2, <1>7 DEF SettleCut, LoaderTypes, JobType, Raised
  <2>2. LoaderTypes'
    BY <1>1, <1>2, <2>1 DEF LoaderTypes
  <2>. QED BY <1>4, <1>5, <2>1, <2>2, CutShort
<1>. QED BY <1>6, <1>7
LEMMA MountKeeps ==
  ASSUME LoaderInv, Mount
  PROVE  LoaderInv'
PROOF
<1> DEFINE refused == {p \in job.mount : Parent[p] \notin job.mount \cup Running \cup {Top}}
           dead == {q \in Passed : \E p \in refused : Parent[p] = q}
<1>1. PICK done \in SUBSET job.mount, renewed \in SUBSET Passed, sick \in SUBSET job.mount :
        /\ \A p \in done : Parent[p] \in done \cup renewed \cup {Top}
        /\ sick \subseteq {p \in done : job.doc[p].name # Group}
        /\ IF refused = {} THEN done = job.mount /\ renewed = Passed
           ELSE done \cap refused = {} /\ renewed \cap dead # {}
        /\ live' = [p \in Paths |-> IF p \in done \cup renewed
                                    THEN Within(job.doc, Under(p)) ELSE live[p]]
        /\ inst' = [p \in Paths |-> IF p \in done THEN NewInst(p, p \notin sick) ELSE inst[p]]
        /\ job' = IF refused = {}
                  THEN [job EXCEPT !.stage = "settle", !.touched = @ \cup done,
                                   !.torn = @ \ done]
                  ELSE [Raised("interrupted") EXCEPT !.torn = @ \ done]
  BY Zenon DEF Mount
<1>2. job.stage = "update" /\ job.update = {} /\ jobs' = jobs
  <2>1. At("update") /\ job.update = {} /\ UNCHANGED <<jobs, lost>>
    BY Zenon DEF Mount
  <2>. QED BY <2>1 DEF At
<1>3. /\ LoaderTypes /\ Nested /\ NothingLost /\ Recorded /\ Planned /\ Sorted
      /\ Updating /\ Replaced
  BY <1>2 DEF LoaderInv
<1>4. /\ done \subseteq job.mount /\ done \cap Kept = {}
      /\ renewed \subseteq job.unchanged /\ renewed \subseteq Kept
      /\ done \cup renewed \subseteq Paths /\ done \cup renewed \subseteq DOMAIN job.doc
      /\ job.doc \in KnownDocs /\ Live = Kept
  BY <1>3 DEF Passed, Planned, LoaderTypes, JobType, Updating
<1>5. ASSUME NEW p \in done PROVE Parent[p] \in done \cup Running \cup {Top}
  <2>1. Parent[p] \in job.mount \cup Running \cup {Top}
    BY <1>1, <1>4
  <2>2. job.mount \cap Kept = {}
    BY <1>3 DEF Planned
  <2>. QED BY <1>1, <1>4, <2>1, <2>2
<1> HIDE DEF refused, dead
<1>6. inst \in [Paths -> Instance \cup {None}] /\ live \in [Paths -> KnownDocs \cup {None}]
  BY <1>3 DEF LoaderTypes
<1>7. /\ live' \in [Paths -> KnownDocs \cup {None}] /\ Live' = Live \cup done
      /\ \A p \in done \cup renewed : p \in DOMAIN live'[p] /\ live'[p][p] = job.doc[p]
      /\ \A p \in Paths \ (done \cup renewed) : live'[p] = live[p]
  <2>1. ASSUME NEW p \in done \cup renewed
        PROVE  /\ live'[p] \in KnownDocs /\ live'[p] # None
               /\ p \in DOMAIN live'[p] /\ live'[p][p] = job.doc[p]
    BY <1>1, <1>4, WithinFacts, UnderFacts
  <2>2. \A p \in Paths \ (done \cup renewed) : live'[p] = live[p]
    BY <1>1
  <2>3. DOMAIN live' = Paths /\ live' = [p \in Paths |-> live'[p]]
    BY <1>1
  <2>4. live' \in [Paths -> KnownDocs \cup {None}]
    BY <1>6, <2>1, <2>2, <2>3
  <2>5. Live' = Live \cup done
    BY <1>4, <2>1, <2>2 DEF Live
  <2>. QED BY <2>1, <2>2, <2>4, <2>5
<1>8. /\ inst' \in [Paths -> Instance \cup {None}] /\ Running' = Running \cup done
      /\ \A p \in done : /\ inst'[p].name = job.doc[p].name /\ inst'[p].by = jobs
                         /\ job.doc[p].config # Computed =>
                              inst'[p].holds = job.doc[p].config
      /\ \A p \in Paths \ done : inst'[p] = inst[p]
  <2>1. ASSUME NEW p \in done
        PROVE  /\ inst'[p] \in Instance /\ inst'[p] # None
               /\ inst'[p].name = job.doc[p].name /\ inst'[p].by = jobs
               /\ job.doc[p].config # Computed => inst'[p].holds = job.doc[p].config
    <3>1. inst'[p] = NewInst(p, p \notin sick) /\ p \in DOMAIN job.doc
      BY <1>1, <1>4
    <3>2. (p \notin sick) \in BOOLEAN
      OBVIOUS
    <3>. QED BY <1>3, <3>1, <3>2, NewInstFacts
  <2>2. \A p \in Paths \ done : inst'[p] = inst[p]
    BY <1>1
  <2>3. DOMAIN inst' = Paths /\ inst' = [p \in Paths |-> inst'[p]]
    BY <1>1
  <2>4. inst' \in [Paths -> Instance \cup {None}]
    BY <1>6, <2>1, <2>2, <2>3
  <2>5. Running' = Running \cup done
    BY <1>4, <2>1, <2>2 DEF Running
  <2>. QED BY <2>1, <2>2, <2>4, <2>5
<1>9. Nested'
  <2>1. ASSUME NEW p \in Live, p \notin done
        PROVE  p \in DOMAIN live'[p] /\ Parent[p] \in Live \cup {Top}
    BY <1>3, <1>7, <2>1 DEF Nested, Live
  <2>2. ASSUME NEW p \in done
        PROVE  p \in DOMAIN live'[p] /\ Parent[p] \in Live \cup done \cup {Top}
    BY <1>1, <1>4, <1>7
  <2>. QED BY <1>7, <2>1, <2>2 DEF Nested
<1>10. NothingLost'
  BY <1>3, <1>5, <1>7, <1>8 DEF NothingLost
<1>11. ASSUME NEW p \in job.unchanged PROVE Agrees(p)
  BY <1>3 DEF Sorted
<1>12. ASSUME job'.torn = job.torn \ done PROVE Recorded'
  <2>1. ASSUME NEW p \in done
        PROVE  /\ inst'[p].by <= jobs
               /\ inst'[p].name = live'[p][p].name
               /\ live'[p][p].config # Computed => inst'[p].holds = live'[p][p].config
    BY <1>3, <1>7, <1>8 DEF LoaderTypes
  <2>2. ASSUME NEW p \in Running, p \notin done
        PROVE  /\ inst'[p].by <= jobs
               /\ inst'[p].name = live'[p][p].name
               /\ p \notin job.torn /\ live'[p][p].config # Computed =>
                    inst'[p].holds = live'[p][p].config
    <3>1. /\ p \in Paths /\ inst'[p] = inst[p] /\ inst[p].by <= jobs
          /\ inst[p].name = Row(p).name
          /\ p \notin job.torn /\ Row(p).config # Computed => inst[p].holds = Row(p).config
      BY <1>3, <1>8, <2>2 DEF Recorded, NothingLost, Running
    <3>2. live'[p][p].name = Row(p).name /\ live'[p][p].config = Row(p).config
      <4>1. CASE p \in renewed
        BY <1>4, <1>7, <1>11, <4>1 DEF Agrees
      <4>2. CASE p \notin renewed
        BY <1>7, <2>2, <3>1, <4>2 DEF Row
      <4>. QED BY <4>1, <4>2
    <3>. QED BY <3>1, <3>2
  <2>. QED BY <1>2, <1>8, <1>12, <2>1, <2>2 DEF Recorded, Row
<1>13. CASE refused = {}
  <2>1. done = job.mount
        /\ job' = [job EXCEPT !.stage = "settle", !.touched = @ \cup done, !.torn = @ \ done]
    BY <1>1, <1>13
  <2>2. /\ job' \in JobType /\ SamePlan
        /\ job'.stage = "settle" /\ job'.outcome = job.outcome /\ job'.torn = job.torn \ done
        /\ job'.mount = job.mount /\ job'.update = job.update
        /\ job'.touched = job.touched \cup done /\ job'.failed = job.failed
    BY <1>3, <1>4, <2>1 DEF LoaderTypes, JobType, SamePlan
  <2>3. LoaderTypes'
    BY <1>2, <1>3, <1>7, <1>8, <2>2 DEF LoaderTypes
  <2>4. Planned' /\ Kept' = Kept
    BY <1>2, <1>3, <2>2, PlanStays
  <2>5. ASSUME NEW p \in job.unchanged \cup job.touched \cup done
        PROVE  Agrees(p)'
    <3>1. CASE p \in done \cup renewed
      BY <1>7, <2>2, <3>1 DEF Agrees, Row, SamePlan
    <3>2. CASE p \notin done \cup renewed
      <4>1. p \in Paths /\ Agrees(p)
        BY <1>3, <3>2 DEF Sorted, LoaderTypes, JobType
      <4>. QED BY <1>7, <2>2, <3>2, <4>1 DEF Agrees, Row, SamePlan
    <3>. QED BY <3>1, <3>2
  <2>6. Sorted'
    BY <1>2, <1>3, <2>2, <2>4, <2>5 DEF Sorted, SamePlan
  <2>7. Mounted'
    BY <1>2, <1>4, <1>7, <2>1, <2>2, <2>4 DEF Mounted
  <2>8. Replaced'
    BY <1>2, <1>3, <1>4, <1>8, <2>2 DEF Replaced, SamePlan, Running
  <2>. QED BY <1>9, <1>10, <1>12, <2>2, <2>3, <2>4, <2>6, <2>7, <2>8 DEF LoaderInv
<1>14. CASE refused # {}
  <2>1. job' = [Raised("interrupted") EXCEPT !.torn = @ \ done]
    BY <1>1, <1>14
  <2>2. job' \in JobType /\ job'.stage = "over" /\ job'.outcome = "interrupted"
        /\ job'.torn = job.torn \ done
    BY <1>3, <2>1 DEF LoaderTypes, JobType, Raised
  <2>3. LoaderTypes'
    BY <1>2, <1>3, <1>7, <1>8, <2>2 DEF LoaderTypes
  <2>. QED BY <1>9, <1>10, <1>12, <2>2, <2>3, CutShort
<1>. QED BY <1>13, <1>14
\* What the loader remembers is a document (remount plans from it).
LEMMA RememberedFacts ==
  ASSUME LoaderTypes
  PROVE  Remembered \in KnownDocs
PROOF
<1> DEFINE rowed == {p \in Paths : \E q \in Chain[p] \cap Live :
                        Parent[q] = Top /\ p \in DOMAIN live[q]}
           highest(p) == CHOOSE q \in Chain[p] : Parent[q] = Top
<1>1. ASSUME NEW p \in rowed PROVE live[highest(p)][p] \in Rows
  <2>1. PICK q \in Chain[p] \cap Live : Parent[q] = Top /\ p \in DOMAIN live[q]
    OBVIOUS
  <2>2. highest(p) \in Chain[p] /\ Parent[highest(p)] = Top
    BY <2>1
  <2>3. highest(p) = q
    <3> HIDE DEF highest
    <3>. QED BY <2>1, <2>2, OneTop
  <2>4. live[q] \in KnownDocs
    BY <2>1 DEF LoaderTypes, Live
  <2>. QED BY <2>1, <2>3, <2>4, DocFacts
<1>2. Remembered = [p \in rowed |-> live[highest(p)][p]]
  BY DEF Remembered
<1>3. rowed \in SUBSET Paths
  OBVIOUS
<1> HIDE DEF rowed, highest
<1>4. Remembered \in [rowed -> Rows]
  BY <1>1, <1>2
<1>. QED BY <1>3, <1>4 DEF KnownDocs

LEMMA PlanKeeps ==
  ASSUME LoaderInv, job.stage = "over", NEW kind \in {"reconcile", "remount"},
         NEW doc \in KnownDocs, NEW named \in SUBSET Live, NEW decided, NEW broken,
         kind = "reconcile" => \A p \in DOMAIN doc : Parent[p] \in DOMAIN doc \cup {Top},
         job' = Plan(kind, doc, named, decided, broken),
         jobs' = jobs + 1, live' = live, inst' = inst
  PROVE  LoaderInv'
PROOF
<1> DEFINE shown == Shown(doc, decided)
           reshaped == {p \in shown \cap Live : ~SameShape(Row(p), doc[p])}
           unwanted == IF kind = "reconcile" THEN Live \ shown ELSE {}
           tops == named \cup reshaped \cup unwanted
           doomed == Doomed(tops)
           fresh == shown \ (Live \ doomed)
           mount == {p \in fresh : Resolves(doc[p], broken)}
           update == {p \in shown \ fresh :
                        doc[p].name # Group /\ Row(p).config # doc[p].config}
           kill == {p \in tops : Chain[p] \cap tops = {p}}
           failed == (fresh \ mount) \cup Undecided(doc, decided)
<1>1. /\ LoaderTypes /\ Nested /\ NothingLost /\ Recorded
  BY DEF LoaderInv
<1>2. /\ live \in [Paths -> KnownDocs \cup {None}] /\ inst \in [Paths -> Instance \cup {None}]
      /\ job \in JobType /\ job.torn \in SUBSET Paths /\ jobs \in Nat
  BY <1>1 DEF LoaderTypes, JobType
<1>3. DOMAIN doc \subseteq Paths /\ \A p \in DOMAIN doc : doc[p] \in Rows
  BY DocFacts
<1>4. shown \subseteq DOMAIN doc
  BY DEF Shown
<1>5. ASSUME kind = "reconcile", NEW p \in shown, NEW q \in Chain[p]
      PROVE  q \in shown
  <2>1. p \in DOMAIN doc /\ \A r \in Chain[p] : Flag(doc, decided, r) = "no"
    BY DEF Shown
  <2>2. Chain[p] \subseteq DOMAIN doc
    BY <1>3, <1>5, <2>1, ChainLeast
  <2>3. Chain[q] \subseteq Chain[p]
    BY <1>3, <2>1, ChainUp
  <2>. QED BY <2>1, <2>2, <2>3 DEF Shown
<1>6. Undecided(doc, decided) \subseteq DOMAIN doc
  BY DEF Undecided
<1> HIDE DEF shown
<1>7. Live \subseteq Paths /\ \A p \in Live : Row(p) \in Rows
  <2>1. ASSUME NEW p \in Live PROVE Row(p) \in Rows
    <3>1. live[p] \in KnownDocs /\ p \in DOMAIN live[p]
      BY <1>1, <1>2 DEF Live, Nested
    <3>. QED BY <3>1, DocFacts DEF Row
  <2>. QED BY <2>1 DEF Live
<1>8. /\ reshaped \subseteq shown \cap Live /\ unwanted \subseteq Live
      /\ tops \subseteq Paths /\ kill \subseteq tops
      /\ doomed \subseteq Live /\ fresh \subseteq shown /\ mount \subseteq fresh
      /\ update \subseteq shown \ fresh /\ failed \subseteq Paths
  BY <1>3, <1>4, <1>6, <1>7 DEF Doomed
<1>9. ASSUME NEW p \in Live
      PROVE  p \in doomed <=> Chain[p] \cap tops # {}
  BY <1>7 DEF Doomed
<1>10. \A p \in reshaped : Row(p).name # doc[p].name
  BY DEF SameShape
<1>11. \A p \in (shown \cap Live) \ reshaped : Row(p).name = doc[p].name
  BY DEF SameShape
<1>12. \A p \in (shown \ fresh) \ update : doc[p].name = Group \/ Row(p).config = doc[p].config
  OBVIOUS
<1>13. fresh \subseteq mount \cup failed
  OBVIOUS
<1>14. \A p \in tops : Chain[p] \cap tops = {p} => p \in kill
  OBVIOUS
<1>15. \A p \in update : Row(p).config # doc[p].config
  OBVIOUS
<1>16. kind = "reconcile" => Live \ shown \subseteq unwanted
  OBVIOUS
<1>17. \A p \in unwanted : kind = "reconcile" /\ p \notin shown
  OBVIOUS
<1> DEFINE unchanged == shown \ (fresh \cup update)
<1>18. job' = [kind |-> kind, stage |-> "kill", outcome |-> "none", doc |-> doc,
               named |-> named, shown |-> shown, kill |-> kill, doomed |-> doomed,
               mount |-> mount, update |-> update, unchanged |-> unchanged,
               failed |-> failed, touched |-> {}, torn |-> job.torn,
               before |-> inst, was |-> live]
  <2>1. job' = Plan(kind, doc, named, decided, broken)
    OBVIOUS
  <2>. QED BY <2>1 DEF Plan, shown
<1> HIDE DEF reshaped, unwanted, doomed, mount, update, kill, failed
<1>19. /\ job'.kind = kind /\ job'.stage = "kill" /\ job'.outcome = "none"
       /\ job'.doc = doc /\ job'.named = named /\ job'.shown = shown /\ job'.kill = kill
       /\ job'.doomed = doomed /\ job'.mount = mount /\ job'.update = update
       /\ job'.unchanged = unchanged /\ job'.failed = failed /\ job'.touched = {}
       /\ job'.torn = job.torn /\ job'.before = inst /\ job'.was = live
  BY <1>18
<1>20. job' \in JobType
  <2>1. /\ named \in SUBSET Paths /\ shown \in SUBSET Paths /\ kill \in SUBSET Paths
        /\ doomed \in SUBSET Paths /\ mount \in SUBSET Paths /\ update \in SUBSET Paths
        /\ unchanged \in SUBSET Paths /\ failed \in SUBSET Paths /\ {} \in SUBSET Paths
    BY <1>3, <1>4, <1>7, <1>8
  <2>2. /\ kind \in {"none", "reconcile", "remount"} /\ "kill" \in {"kill", "update", "settle", "over"}
        /\ "none" \in {"none", "returned", "interrupted", "start failed"}
        /\ live \in [Paths -> KnownDocs \cup {None}] /\ inst \in [Paths -> Instance \cup {None}]
        /\ job.torn \in SUBSET Paths
    BY <1>2
  <2> HIDE DEF unchanged
  <2>. QED BY <1>18, <2>1, <2>2 DEF JobType
<1>21. LoaderTypes'
  BY <1>2, <1>20 DEF LoaderTypes
<1>22. Live' = Live /\ Running' = Running
  BY DEF Live, Running
<1>23. Nested' /\ NothingLost'
  BY <1>1, <1>22 DEF Nested, NothingLost
<1>24. Recorded'
  <2>1. \A p \in Running : inst[p] \in Instance /\ inst[p].by \in Nat
    BY <1>2 DEF Running, Instance
  <2>2. \A p \in Running : inst[p].by <= jobs + 1
    BY <1>1, <1>2, <2>1 DEF Recorded
  <2>. QED BY <1>1, <1>19, <1>22, <2>2 DEF Recorded, Row
<1>25. Kept' = Live \ doomed
  BY <1>19 DEF Kept, Live
<1>26. Leaving' = doomed
  <2>1. ASSUME NEW p \in Paths
        PROVE  p \in Leaving' <=>
                 /\ p \in Live
                 /\ \/ kind = "reconcile" /\ p \notin shown
                    \/ \E q \in Chain[p] : \/ q \in named
                                           \/ q \in shown /\ live[q][q].name # doc[q].name
    BY <1>19 DEF Leaving, Live
  <2>2. ASSUME NEW p \in Live, kind = "reconcile", p \notin shown
        PROVE  p \in doomed
    BY <1>7, <1>9, <1>16, <2>2, ChainOf
  <2>3. ASSUME NEW p \in Live, NEW q \in Chain[p],
               \/ q \in named
               \/ q \in shown /\ live[q][q].name # doc[q].name
        PROVE  p \in doomed
    <3>1. q \in Live
      BY <1>1, LiveAbove
    <3>2. q \in tops
      BY <1>11, <2>3, <3>1 DEF Row
    <3>. QED BY <1>9, <3>2
  <2>4. ASSUME NEW p \in doomed
        PROVE  \/ kind = "reconcile" /\ p \notin shown
               \/ \E q \in Chain[p] : \/ q \in named
                                      \/ q \in shown /\ live[q][q].name # doc[q].name
    <3>1. PICK q \in Chain[p] : q \in tops
      BY <1>8, <1>9
    <3>2. CASE q \in named \cup reshaped
      BY <1>8, <1>10, <3>2 DEF Row
    <3>3. CASE q \in unwanted
      BY <1>5, <1>17, <3>3
    <3>. QED BY <3>1, <3>2, <3>3
  <2>5. Leaving' \subseteq Paths /\ doomed \subseteq Paths
    BY <1>7, <1>8 DEF Leaving
  <2>. QED BY <1>8, <2>1, <2>2, <2>3, <2>4, <2>5
<1>27. Planned'
  <2>1. ASSUME NEW p \in Paths, inst[p] # None PROVE inst[p].by < jobs'
    <3>1. inst[p].by \in Nat /\ inst[p].by <= jobs
      BY <1>1, <1>2, <2>1 DEF Running, Recorded, Instance
    <3>. QED BY <1>2, <3>1
  <2>2. ASSUME kind = "reconcile"
        PROVE  /\ Live \ doomed \subseteq shown
               /\ \A p \in shown : Parent[p] \in shown \cup {Top}
    <3>1. ASSUME NEW p \in Live \ shown PROVE p \in doomed
      BY <1>7, <1>9, <1>16, <2>2, ChainOf
    <3>2. ASSUME NEW p \in shown PROVE Parent[p] \in shown \cup {Top}
      BY <1>3, <1>4, <1>5, <2>2, ChainClosed, ChainOf
    <3>. QED BY <3>1, <3>2
  <2>3. mount \subseteq shown \ (Live \ doomed)
    BY <1>8
  <2>4. update \cup unchanged \subseteq shown \cap (Live \ doomed)
    BY <1>8
  <2>5. \A p \in update : live[p][p].config # doc[p].config
    BY <1>15 DEF Row
  <2> HIDE DEF unchanged
  <2>. QED BY <1>4, <1>19, <1>25, <1>26, <2>1, <2>2, <2>3, <2>4, <2>5 DEF Planned
<1>28. Killing'
  <2>1. ASSUME NEW p \in Paths, Chain[p] \cap kill # {}, live[p] # None PROVE p \in doomed
    BY <1>8, <1>9, <2>1 DEF Live
  <2>2. ASSUME NEW p \in doomed PROVE Chain[p] \cap kill # {}
    <3>1. p \in Paths /\ Chain[p] \cap tops # {}
      BY <1>7, <1>8, <1>9
    <3>2. PICK q \in Chain[p] \cap tops : Chain[q] \cap tops = {q}
      BY <3>1, Topmost
    <3>. QED BY <1>14, <3>2
  <2>. QED BY <1>19, <1>22, <2>1, <2>2 DEF Killing
<1>29. Sorted'
  <2>1. ASSUME NEW p \in shown \cap (Live \ doomed)
        PROVE  Row(p).name = doc[p].name
    <3>1. p \notin reshaped
      BY <1>7, <1>9, ChainOf
    <3>. QED BY <1>11, <3>1
  <2>2. ASSUME NEW p \in unchanged
        PROVE  Row(p).name = doc[p].name /\ Row(p).config = doc[p].config
    <3>1. p \in shown \cap (Live \ doomed) /\ p \in DOMAIN doc
      BY <1>4
    <3>2. Row(p) \in Rows /\ doc[p] \in Rows /\ Row(p).name = doc[p].name
      BY <1>3, <1>7, <2>1, <3>1
    <3>3. CASE doc[p].name = Group
      BY <3>2, <3>3, RowFacts
    <3>4. CASE doc[p].name # Group
      BY <1>12, <3>2, <3>4
    <3>. QED BY <3>3, <3>4
  <2>3. shown \ (Live \ doomed) \subseteq mount \cup failed
    BY <1>13
  <2>4. shown \cap (Live \ doomed) \subseteq update \cup unchanged
    OBVIOUS
  <2>5. \A p \in update : Row(p).name = doc[p].name
    BY <1>8, <2>1
  <2>6. \A p \in Paths : Row(p)' = Row(p)
    BY DEF Row
  <2>7. unchanged \subseteq Paths /\ update \subseteq Paths
    BY <1>3, <1>4, <1>8
  <2> HIDE DEF unchanged
  <2>. QED BY <1>19, <1>25, <2>2, <2>3, <2>4, <2>5, <2>6, <2>7 DEF Sorted, Agrees
<1>. QED BY <1>19, <1>21, <1>23, <1>24, <1>27, <1>28, <1>29 DEF LoaderInv
-----------------------------------------------------------------------------
\* The theorems

LEMMA LoaderInvInit == LoaderInit => LoaderInv
PROOF
<1> SUFFICES ASSUME LoaderInit
             PROVE  LoaderInv
  OBVIOUS
<1>1. /\ live = [p \in Paths |-> None] /\ inst = [p \in Paths |-> None]
      /\ job = NoJob /\ jobs = 0
  BY DEF LoaderInit
<1>2. NoDoc \in KnownDocs
  <2>1. NoDoc \in [{} -> Rows]
    BY DEF NoDoc, Within
  <2>. QED BY <2>1 DEF KnownDocs
<1>3. NoJob \in JobType
  <2>1. /\ "none" \in {"none", "reconcile", "remount"}
        /\ "over" \in {"kill", "update", "settle", "over"}
        /\ "none" \in {"none", "returned", "interrupted", "start failed"}
        /\ {} \in SUBSET Paths
        /\ [p \in Paths |-> None] \in [Paths -> Instance \cup {None}]
        /\ [p \in Paths |-> None] \in [Paths -> KnownDocs \cup {None}]
    OBVIOUS
  <2>. QED BY <1>2, <2>1 DEF NoJob, JobType
<1>4. LoaderTypes
  BY <1>1, <1>3 DEF LoaderTypes
<1>5. Live = {} /\ Running = {}
  BY <1>1 DEF Live, Running
<1>6. job.stage = "over" /\ job.outcome = "none"
  BY <1>1 DEF NoJob
<1>. QED BY <1>4, <1>5, <1>6 DEF LoaderInv, Nested, NothingLost, Recorded, Tidy, Returned

LEMMA StutterKeeps ==
  ASSUME LoaderInv, UNCHANGED loaderVars
  PROVE  LoaderInv'
PROOF
<1>1. live' = live /\ inst' = inst /\ job' = job /\ jobs' = jobs
  BY DEF loaderVars
<1>2. /\ Live' = Live /\ Running' = Running /\ Kept' = Kept /\ Leaving' = Leaving
      /\ \A p \in Paths : Agrees(p)' <=> Agrees(p)
      /\ \A p \in Paths : Row(p)' = Row(p)
  BY <1>1 DEF Live, Running, Kept, Leaving, Agrees, Row
<1>3. LoaderTypes' /\ Nested' /\ NothingLost' /\ Recorded'
  BY <1>1, <1>2 DEF LoaderInv, LoaderTypes, Nested, NothingLost, Recorded, Row
<1>4. Planned => Planned'
  BY <1>1, <1>2 DEF Planned
<1>5. Killing => Killing'
  BY <1>1, <1>2 DEF Killing
<1>6. Sorted => Sorted'
  BY <1>1, <1>2 DEF Sorted, Agrees, Row
<1>7. (Updating => Updating') /\ (Mounted => Mounted') /\ (Replaced => Replaced')
  BY <1>1, <1>2 DEF Updating, Mounted, Replaced
<1>8. Tidy => Tidy'
  BY <1>1, <1>2 DEF Tidy, Returned, Agrees, Row
<1>. QED BY <1>1, <1>3, <1>4, <1>5, <1>6, <1>7, <1>8 DEF LoaderInv

LEMMA LoaderStepKeeps ==
  ASSUME LoaderInv, [LoaderNext]_loaderVars
  PROVE  LoaderInv'
PROOF
<1>1. ASSUME NEW doc \in Documents, Reconcile(doc) PROVE LoaderInv'
  <2>1. PICK decided \in Decisions(doc), broken \in SUBSET {doc[p].name : p \in DOMAIN doc} :
          job' = Plan("reconcile", doc, {}, decided, broken \ {Group})
    BY <1>1, Zenon DEF Reconcile
  <2>2. job.stage = "over" /\ jobs' = jobs + 1 /\ live' = live /\ inst' = inst
    <3>1. Free /\ jobs' = jobs + 1 /\ UNCHANGED <<live, inst, lost>>
      BY <1>1, Zenon DEF Reconcile
    <3>. QED BY <3>1 DEF Free
  <2>3. doc \in KnownDocs /\ \A p \in DOMAIN doc : Parent[p] \in DOMAIN doc \cup {Top}
    BY LoaderAssumption
  <2>. QED BY <2>1, <2>2, <2>3, PlanKeeps
<1>2. ASSUME NEW named \in SUBSET Paths, Remount(named) PROVE LoaderInv'
  <2>1. PICK decided \in Decisions(Remembered),
             broken \in SUBSET {Remembered[p].name : p \in DOMAIN Remembered} :
          job' = Plan("remount", Remembered, named, decided, broken \ {Group})
    BY <1>2, Zenon DEF Remount
  <2>2. job.stage = "over" /\ named \subseteq Live /\ jobs' = jobs + 1
        /\ live' = live /\ inst' = inst
    <3>1. Free /\ named \subseteq Live /\ jobs' = jobs + 1 /\ UNCHANGED <<live, inst, lost>>
      BY <1>2, Zenon DEF Remount
    <3>. QED BY <3>1 DEF Free
  <2>3. Remembered \in KnownDocs
    BY RememberedFacts DEF LoaderInv
  <2>. QED BY <2>1, <2>2, <2>3, PlanKeeps
<1>3. ASSUME NEW p \in Paths, Kill(p) \/ Update(p) \/ Lose(p) PROVE LoaderInv'
  BY <1>3, KillKeeps, UpdateKeeps, LoseKeeps
<1>4. CASE Forget \/ Mount \/ Settle \/ SettleCut
  BY <1>4, ForgetKeeps, MountKeeps, SettleKeeps
<1>5. CASE UNCHANGED loaderVars
  BY <1>5, StutterKeeps
<1>. QED BY <1>1, <1>2, <1>3, <1>4, <1>5, Zenon DEF LoaderNext

\* What the loader remembers, what runs, and what the job in progress has decided
\* and has still to do stay in step through every interruption.
THEOREM LoaderInvHolds == LoaderSpec => []LoaderInv
PROOF
<1>1. LoaderInit => LoaderInv
  BY LoaderInvInit
<1>2. LoaderInv /\ [LoaderNext]_loaderVars => LoaderInv'
  BY LoaderStepKeeps
<1>. QED BY <1>1, <1>2, PTL DEF LoaderSpec

\* Whatever raises or is cancelled, every instance that runs is remembered and runs
\* below the group its path names (_apply forgets only what it has disposed of).
THEOREM NothingLostHolds == LoaderSpec => []NothingLost
PROOF
<1>1. LoaderInv => NothingLost
  BY DEF LoaderInv
<1>. QED BY <1>1, LoaderInvHolds, PTL

\* After a reconcile that returned, the tree is the one the document describes,
\* whatever jobs before it left unfinished (reconcile, _plan, _apply).
THEOREM MatchesHolds == LoaderSpec => []Matches
PROOF
<1>1. LoaderInv => Matches
  <2> SUFFICES ASSUME LoaderInv, Returned("reconcile")
               PROVE  /\ Live \subseteq job.shown /\ job.shown \ Live \subseteq job.failed
                      /\ \A p \in Live :
                           /\ Agrees(p)
                           /\ inst[p] # None =>
                                /\ inst[p].name = job.doc[p].name
                                /\ p \notin job.torn /\ job.doc[p].config # Computed =>
                                     inst[p].holds = job.doc[p].config
                                /\ p \in job.touched /\ ~inst[p].up => p \in job.failed
    BY DEF Matches, Agrees
  <2>1. job.stage = "over"
    BY DEF LoaderInv, Planned, Returned
  <2>2. Tidy /\ Recorded
    BY <2>1 DEF LoaderInv
  <2>3. /\ Live \subseteq job.shown /\ job.shown \ Live \subseteq job.failed
        /\ \A p \in Live : Agrees(p)
        /\ \A p \in job.touched \cap Running : ~inst[p].up => p \in job.failed
    BY <2>2 DEF Tidy
  <2>4. ASSUME NEW p \in Live, inst[p] # None
        PROVE  /\ inst[p].name = job.doc[p].name
               /\ p \notin job.torn /\ job.doc[p].config # Computed =>
                    inst[p].holds = job.doc[p].config
               /\ p \in job.touched /\ ~inst[p].up => p \in job.failed
    <3>1. p \in Running
      BY <2>4 DEF Live, Running
    <3>2. /\ inst[p].name = Row(p).name
          /\ p \notin job.torn /\ Row(p).config # Computed => inst[p].holds = Row(p).config
      BY <2>2, <3>1 DEF Recorded
    <3>. QED BY <2>3, <3>1, <3>2 DEF Agrees
  <2>. QED BY <2>3, <2>4
<1>. QED BY <1>1, LoaderInvHolds, PTL

\* SEM-008: when a job begins to update and to mount, nothing runs any more of the
\* entries it removes or replaces (the disposals of _apply are awaited first).
THEOREM RemovalsFirstHolds == LoaderSpec => []RemovalsFirst
PROOF
<1>1. LoaderInv => RemovalsFirst
  <2> SUFFICES ASSUME LoaderInv, job.stage \in {"update", "settle"},
                      NEW p \in Leaving, inst[p] # None
               PROVE  inst[p] # job.before[p]
    BY DEF RemovalsFirst
  <2>1. Planned /\ Replaced /\ jobs \in Nat
    BY DEF LoaderInv, LoaderTypes
  <2>2. p \in Paths /\ p \in Running \cap job.doomed
    BY <2>1 DEF Planned, Leaving, Running
  <2>3. inst[p].by = jobs
    BY <2>1, <2>2 DEF Replaced
  <2>4. job.before[p] # None => job.before[p].by < jobs
    BY <2>1, <2>2 DEF Planned
  <2>5. ~(jobs < jobs)
    BY <2>1
  <2>. QED BY <2>3, <2>4, <2>5
<1>. QED BY <1>1, LoaderInvHolds, PTL

\* One step of a job and the instances of the entries that stay as they were.
LEMMA StepTouchesNot ==
  ASSUME LoaderInv, LoaderNext, lost \in Nat, lost' = lost,
         NEW p \in job.shown \ Leaving,
         job.was[p] # None, job.was[p][p].config = job.doc[p].config
  PROVE  inst'[p] = inst[p]
PROOF
<1>1. p \in Paths /\ inst \in [Paths -> Instance \cup {None}]
  BY DEF LoaderInv, LoaderTypes, JobType
<1>2. ASSUME Planned PROVE p \notin job.doomed /\ p \in Kept
  BY <1>1, <1>2 DEF Planned, Kept
<1>3. ASSUME NEW q \in Paths, Kill(q) PROVE inst'[p] = inst[p]
  <2>1. job.stage = "kill" /\ q \in job.kill /\ inst' = Gone(Under(q))
    BY <1>3 DEF Kill, At
  <2>2. Planned /\ Killing
    BY <2>1 DEF LoaderInv
  <2>3. p \notin Under(q)
    <3>. SUFFICES ASSUME p \in Under(q)
                  PROVE  FALSE
      OBVIOUS
    <3>1. Chain[p] \cap job.kill # {}
      BY <2>1 DEF Under
    <3>2. live[p] # None
      BY <2>2 DEF Killing
    <3>. QED BY <1>1, <1>2, <2>2, <3>1, <3>2 DEF Killing
  <2>. QED BY <1>1, <2>1, <2>3 DEF Gone
<1>4. ASSUME NEW q \in Paths, Update(q) PROVE inst'[p] = inst[p]
  <2>1. At("update") /\ q \in job.update
    BY <1>4, Zenon DEF Update
  <2>2. Planned
    BY <2>1 DEF LoaderInv, At
  <2>3. p # q
    BY <2>1, <2>2 DEF Planned
  <2>4. \E new : inst' \in {inst, [inst EXCEPT ![q] = new]}
    BY <1>4 DEF Update
  <2>. QED BY <1>1, <2>3, <2>4
<1>5. ASSUME NEW q \in Paths, Lose(q) PROVE FALSE
  <2>1. lost' = lost + 1
    BY <1>5 DEF Lose
  <2>. QED BY <2>1
<1>6. ASSUME Mount PROVE inst'[p] = inst[p]
  <2>1. At("update")
    BY <1>6, Zenon DEF Mount
  <2>2. Planned
    BY <2>1 DEF LoaderInv, At
  <2>3. p \notin job.mount
    BY <1>2, <2>2 DEF Planned
  <2>4. PICK done \in SUBSET job.mount, sick \in SUBSET job.mount :
          inst' = [q \in Paths |-> IF q \in done THEN NewInst(q, q \notin sick) ELSE inst[q]]
    BY <1>6, Zenon DEF Mount
  <2>. QED BY <1>1, <2>3, <2>4
<1>7. ASSUME NEW doc \in Documents, Reconcile(doc) PROVE inst'[p] = inst[p]
  <2>1. UNCHANGED <<live, inst, lost>>
    BY <1>7, Zenon DEF Reconcile
  <2>. QED BY <2>1
<1>8. ASSUME NEW named \in SUBSET Paths, Remount(named) PROVE inst'[p] = inst[p]
  <2>1. UNCHANGED <<live, inst, lost>>
    BY <1>8, Zenon DEF Remount
  <2>. QED BY <2>1
<1>9. ASSUME Forget PROVE inst'[p] = inst[p]
  <2>1. UNCHANGED <<inst, jobs, lost>>
    BY <1>9, Zenon DEF Forget
  <2>. QED BY <2>1
<1>10. ASSUME Settle \/ SettleCut PROVE inst'[p] = inst[p]
  BY <1>10 DEF Settle, SettleCut
<1>. QED BY <1>3, <1>4, <1>5, <1>6, <1>7, <1>8, <1>9, <1>10, Zenon DEF LoaderNext

Counted == lost \in Nat

LEMMA LossesCounted == Counted /\ [LoaderNext]_loaderVars => Counted'
PROOF
<1> SUFFICES ASSUME lost \in Nat, [LoaderNext]_loaderVars
             PROVE  lost' \in {lost, lost + 1}
  BY DEF Counted
<1>1. ASSUME NEW doc \in Documents, Reconcile(doc) PROVE lost' = lost
  <2>1. UNCHANGED <<live, inst, lost>>
    BY <1>1, Zenon DEF Reconcile
  <2>. QED BY <2>1
<1>2. ASSUME NEW named \in SUBSET Paths, Remount(named) PROVE lost' = lost
  <2>1. UNCHANGED <<live, inst, lost>>
    BY <1>2, Zenon DEF Remount
  <2>. QED BY <2>1
<1>3. ASSUME NEW p \in Paths, Kill(p) PROVE lost' = lost
  BY <1>3 DEF Kill
<1>4. ASSUME NEW p \in Paths, Update(p) PROVE lost' = lost
  <2>1. UNCHANGED <<jobs, lost>>
    BY <1>4, Zenon DEF Update
  <2>. QED BY <2>1
<1>5. ASSUME NEW p \in Paths, Lose(p) PROVE lost' = lost + 1
  BY <1>5 DEF Lose
<1>6. ASSUME Forget PROVE lost' = lost
  <2>1. UNCHANGED <<inst, jobs, lost>>
    BY <1>6, Zenon DEF Forget
  <2>. QED BY <2>1
<1>7. ASSUME Mount PROVE lost' = lost
  <2>1. UNCHANGED <<jobs, lost>>
    BY <1>7, Zenon DEF Mount
  <2>. QED BY <2>1
<1>8. ASSUME Settle \/ SettleCut PROVE lost' = lost
  BY <1>8 DEF Settle, SettleCut
<1>9. ASSUME UNCHANGED loaderVars PROVE lost' = lost
  BY <1>9 DEF loaderVars
<1>10. (\E p \in Paths : Lose(p)) \/ lost' = lost
  BY <1>1, <1>2, <1>3, <1>4, <1>6, <1>7, <1>8, <1>9, Zenon DEF LoaderNext
<1>. QED BY <1>5, <1>10

\* SEM-002: no step of a job touches the instance of an entry that stays where it
\* was, with the target and the config it had (_step, _apply).
THEOREM UntouchedHolds == LoaderSpec => Untouched
PROOF
<1>1. LoaderInit => Counted
  BY DEF LoaderInit, Counted
<1>2. Counted /\ [LoaderNext]_loaderVars => Counted'
  BY LossesCounted
<1>3. LoaderInv /\ Counted /\ [LoaderNext]_loaderVars =>
        [lost' = lost =>
           \A p \in job.shown \ Leaving :
              job.was[p] # None /\ job.was[p][p].config = job.doc[p].config
                  => inst'[p] = inst[p]]_loaderVars
  <2> SUFFICES ASSUME LoaderInv, Counted, LoaderNext, lost' = lost,
                      NEW p \in job.shown \ Leaving,
                      job.was[p] # None, job.was[p][p].config = job.doc[p].config
               PROVE  inst'[p] = inst[p]
    OBVIOUS
  <2>. QED BY StepTouchesNot DEF Counted
<1>. QED BY <1>1, <1>2, <1>3, LoaderInvHolds, PTL DEF LoaderSpec, Untouched
=============================================================================
