----------------------------- MODULE Lifecycle -----------------------------
(***************************************************************************)
(* What the tree of mounted instances promises, without the tasks that     *)
(* keep it: six states per instance (04-fiber-lifecycle SEM-001, SEM-002), *)
(* mounting under live instances only, and an unload that ends only when   *)
(* everything mounted below has been disposed.  Fiber implements it.       *)
(***************************************************************************)
CONSTANTS
  Instances,  \* every instance there will ever be
  Root        \* the one that is there from the start

ASSUME RootAssumption == Root \in Instances

States == {"PENDING", "LOADING", "ACTIVE", "FAILED", "UNLOADING", "DISPOSED"}
Live   == {"PENDING", "LOADING", "ACTIVE"}

VARIABLES
  life,  \* instance -> its state, "ABSENT" before its mount
  above  \* instance -> the instance it was mounted under

vars == <<life, above>>

Init ==
  /\ life = [f \in Instances |-> IF f = Root THEN "ACTIVE" ELSE "ABSENT"]
  /\ above = [f \in Instances |-> Root]

\* Mutant: nobody asks whether the instance is live.
MountUnchecked(f, g) ==
  /\ life[f] # "ABSENT"
  /\ life[g] = "ABSENT"
  /\ life' = [life EXCEPT ![g] = "PENDING"]
  /\ above' = [above EXCEPT ![g] = f]

\* ctx.plugin
Mount(f, g) ==
  /\ life[f] \in Live
  /\ life[g] = "ABSENT"
  /\ life' = [life EXCEPT ![g] = "PENDING"]
  /\ above' = [above EXCEPT ![g] = f]

Moves(f, from, to) ==
  /\ life[f] \in from
  /\ life' = [life EXCEPT ![f] = to]
  /\ UNCHANGED above

Load(f)    == Moves(f, {"PENDING"}, "LOADING")
Succeed(f) == Moves(f, {"LOADING"}, "ACTIVE")
Fail(f)    == Moves(f, {"LOADING"}, "FAILED")

Unload(f) == Moves(f, {"PENDING", "ACTIVE", "FAILED"}, "UNLOADING")

\* The instances mounted under f.
MountedUnder(f) == {g \in Instances \ {Root} : life[g] # "ABSENT" /\ above[g] = f}

\* The unload is over: for a reload, or for good.
Land(f) ==
  /\ \A g \in MountedUnder(f) : life[g] = "DISPOSED"
  /\ Moves(f, {"UNLOADING"}, "PENDING") \/ Moves(f, {"UNLOADING"}, "DISPOSED")

Next ==
  \/ \E f, g \in Instances : Mount(f, g)
  \/ \E f \in Instances : Load(f) \/ Succeed(f) \/ Fail(f) \/ Unload(f) \/ Land(f)

Spec == Init /\ [][Next]_vars

----------------------------------------------------------------------------

\* Types.
TypeOK ==
  /\ life \in [Instances -> States \cup {"ABSENT"}]
  /\ above \in [Instances -> Instances]
  /\ life[Root] # "ABSENT"

\* dispose(): "Unload this instance and everything it mounted": what is below a
\* disposed instance is disposed.  (Along every edge, so along every path.)
Buried ==
  \A f \in Instances :
    life[f] = "DISPOSED" => \A g \in MountedUnder(f) : life[g] = "DISPOSED"

\* 04 SEM-003: DISPOSED is terminal, and an instance stays where it was mounted.
Terminal ==
  [][\A f \in Instances :
       /\ life[f] = "DISPOSED" => life'[f] = "DISPOSED"
       /\ life[f] # "ABSENT" => above'[f] = above[f]]_vars
=============================================================================
