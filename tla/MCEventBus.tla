----------------------------- MODULE MCEventBus -----------------------------
(* An instance of the event bus: a context that inherits the filter of the   *)
(* one around it, which hides the filter of the root.                        *)
EXTENDS EventBus, TLC
CONSTANTS f1, f2, inner, d1, d2, h1, h2

MCLineage == inner :> <<"inner", "outer", "root">>
MCOwnFilter == ("inner" :> None) @@ ("outer" :> f1) @@ ("root" :> f2)
\* Bound: two dispatches at once are explored while no error handler is installed.
QuietPairs == (\A d \in Dispatches : disp[d].mode # None) => handlers = <<>>
Sym == Permutations({d1, d2}) \cup Permutations({h1, h2})
=============================================================================
