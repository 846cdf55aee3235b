-------------------------- MODULE MCFiberScenarios --------------------------
(* Three applications of the same plugins, explored one at a time.           *)
EXTENDS MCFiber

CONSTANTS v1, v2, o1, o2

VARIABLE scenario

\* A service, a consumer that awaits before it mounts a helper, and two callers
\* that restart or dispose of anything.
Plain == INSTANCE Fiber WITH
           TopLevel <- {db, web}, LateMounts <- {}, MayFail <- {}, Invalid <- {},
           Kinds <- {"restart", "dispose"}, MayRaise <- FALSE, MayCancel <- FALSE,
           Bootstrap <- FALSE

\* A tool whose body may raise anywhere, disposers that raise and callers that are
\* cancelled.
Faults == INSTANCE Fiber WITH
            TopLevel <- {tool}, LateMounts <- {}, MayFail <- {tool}, Invalid <- {},
            Kinds <- {"restart", "dispose"}, MayRaise <- TRUE, MayCancel <- TRUE,
            Bootstrap <- FALSE

\* What is mounted before the loop runs, mounts from outside into a running
\* instance, updates to configs that do and do not validate, and a failing helper.
Booted == INSTANCE Fiber WITH
            TopLevel <- {db, web}, LateMounts <- MCLateMounts, MayFail <- {job},
            Invalid <- {v2}, Kinds <- {"await", "update"}, MayRaise <- FALSE,
            MayCancel <- FALSE, Bootstrap <- TRUE

\* Bound: one caller in the scenario that is booted.
OneCaller == scenario = "booted" => op[o2].kind = "none"

ScenariosInit ==
    \/ scenario = "plain" /\ Plain!Init
    \/ scenario = "faults" /\ Faults!Init
    \/ scenario = "booted" /\ Booted!Init

ScenariosNext ==
    /\ UNCHANGED scenario
    /\ \/ scenario = "plain" /\ Plain!Next
       \/ scenario = "faults" /\ Faults!Next
       \/ scenario = "booted" /\ Booted!Next /\ OneCaller'

ScenariosSpec == ScenariosInit /\ [][ScenariosNext]_<<scenario, vars>>
=============================================================================
