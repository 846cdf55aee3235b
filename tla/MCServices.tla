----------------------------- MODULE MCServices -----------------------------
(* Small instances of the tree of instances and of what the instances use    *)
(* while they run: timers, the record channel, scoped registration and the   *)
(* registry of a capability package.  They share nothing, and one of them is *)
(* explored at a time: `focus` says which.  The others stay as they began.   *)
EXTENDS Lifecycle, Timer, LogChannel, Seam, Scoped, TLC

CONSTANTS a, b, c

VARIABLE focus

-----------------------------------------------------------------------------
\* A root and three instances, which have no order, mounted in every shape of tree.
Interchangeable == Permutations({a, b, c})

\* One helper of each kind, explored one after the other.
Kinds == {"spawn", "timeout", "interval", "throttle", "debounce"}
OneOfEach == [h \in Kinds |-> h]
Periods == [h \in Kinds |-> IF h = "interval" THEN 1 ELSE 2]

\* An exporter that wants everything and one that wants warnings.
Interests == [all |-> 1, warnings |-> 2]

\* Two items of one key and one of another.
Keys == [a |-> "ka", a2 |-> "ka", b |-> "kb"]

-----------------------------------------------------------------------------

ASSUME LogConstants

ServicesInit ==
    /\ focus \in {"tree", "records", "seam", "scopes"} \cup Kinds
    /\ Init /\ TimerInit /\ LogInit /\ SeamInit /\ ScopedInit

ServicesNext ==
    /\ UNCHANGED focus
    /\ \/ focus = "tree" /\ Next /\ UNCHANGED <<timerVars, logVars, seamVars, scopedVars>>
       \/ focus \in Kinds /\ (Advance \/ Step(focus)) /\ UNCHANGED <<vars, logVars, seamVars, scopedVars>>
       \/ focus = "records" /\ LogNext /\ UNCHANGED <<vars, timerVars, seamVars, scopedVars>>
       \/ focus = "seam" /\ SeamNext /\ UNCHANGED <<vars, timerVars, logVars, scopedVars>>
       \/ focus = "scopes" /\ ScopedNext /\ UNCHANGED <<vars, timerVars, logVars, seamVars>>

ServicesSpec ==
    ServicesInit /\ [][ServicesNext]_<<focus, vars, timerVars, logVars, seamVars, scopedVars>>
=============================================================================
