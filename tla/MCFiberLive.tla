----------------------------- MODULE MCFiberLive ----------------------------
(* Two applications under a fair event loop, explored one at a time.         *)
EXTENDS MCFiber

CONSTANTS o1, o2

VARIABLE scenario

\* A service and an asynchronous consumer, and two callers.
Pair == INSTANCE Fiber WITH Body <- MCLeafBody, MayFail <- {}

\* The consumer mounts a helper and may fail, before it awaits and after.  Nothing
\* is restarted, so there is one helper.
Family == INSTANCE Fiber WITH
            Body <- MCFailingBody, MayFail <- {web}, Kinds <- {"await", "dispose"}

\* Bound: one caller where a helper is mounted.
OneCaller == scenario = "family" => op[o2].kind = "none"

LiveInit ==
    \/ scenario = "pair" /\ Pair!Init
    \/ scenario = "family" /\ Family!Init

LiveNext ==
    /\ UNCHANGED scenario
    /\ \/ scenario = "pair" /\ Pair!Next
       \/ scenario = "family" /\ Family!Next /\ OneCaller'

LiveLoop ==
    /\ UNCHANGED scenario
    /\ \/ scenario = "pair" /\ Pair!Loop
       \/ scenario = "family" /\ Family!Loop

LiveSpec ==
    /\ LiveInit /\ [][LiveNext]_<<scenario, vars>>
    /\ WF_<<scenario, vars>>(LiveLoop)
=============================================================================
