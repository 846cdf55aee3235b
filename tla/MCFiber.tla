------------------------------ MODULE MCFiber ------------------------------
(***************************************************************************)
(* Small instances of Fiber: a service, a consumer of it, a helper the     *)
(* consumer mounts and a tool that mounts one too but needs nothing.       *)
(***************************************************************************)
EXTENDS Fiber, TLC

CONSTANTS db, web, job, tool, sql

\* The service binds its name at once; the consumer awaits before it mounts.
MCRequires == db :> {} @@ web :> {sql} @@ job :> {} @@ tool :> {}
MCBody ==
  db :> <<Step("provide", sql)>>
    @@ web :> <<Step("await", None), Step("mount", job)>>
    @@ tool :> <<Step("await", None), Step("mount", job), Step("await", None)>>
    @@ job :> <<>>

\* The same without the helper.
MCLeafBody == [MCBody EXCEPT ![web] = <<Step("await", None)>>]

\* A body that mounts before it awaits.
MCFailingBody == [MCBody EXCEPT ![web] = <<Step("mount", job), Step("await", None)>>]

\* Somebody who holds the consumer's context mounts a second service under it.
MCLateMounts == {<<web, db>>}
=============================================================================
