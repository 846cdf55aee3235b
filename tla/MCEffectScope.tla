--------------------------- MODULE MCEffectScope ---------------------------
(***************************************************************************)
(* Small instances of EffectScope: a root scope with a child scope in it,  *)
(* effects of every shape and disposers of every kind.                     *)
(***************************************************************************)
EXTENDS EffectScope, TLC

CONSTANTS root, kid, e1, e2, e3, d1, d2, d3, d4

\* A root and a scope nested in it.
MCParentOf == root :> None @@ kid :> root
MCFlatParentOf == root :> None

\* A pool and a task that uses it, closed by one effect of each shape.
MCOwner == e1 :> root @@ e2 :> root @@ e3 :> kid
MCFlatOwner == e1 :> root @@ e2 :> root
MCShape == e1 :> "sync" @@ e2 :> "iterator" @@ e3 :> "awaitable"
MCFlatShape == e1 :> "sync" @@ e2 :> "iterator"
MCYields == e1 :> <<None, d1>> @@ e2 :> <<d2, d3>> @@ e3 :> <<d4>>
MCKind == d1 :> "plain" @@ d2 :> "plain" @@ d3 :> "async" @@ d4 :> "mixed"

\* Both effects in the nested scope: a synchronous disposer before a batch of two
\* asynchronous ones, one of which the other effect yields again.
MCSharedOwner == e1 :> kid @@ e2 :> kid
MCSharedYields == e1 :> <<d1, d2, d3>> @@ e2 :> <<d2>>
MCSharedKind == d1 :> "plain" @@ d2 :> "async" @@ d3 :> "async"
=============================================================================
