------------------------------ MODULE MCLoader ------------------------------
(* A group of two and an entry beside it, and what a file may say of them.   *)
EXTENDS Loader, TLC

MCParent == [p \in Paths |-> IF p \in {"g.a", "g.b"} THEN "g" ELSE Top]
MCReads == [p \in Paths |-> IF p = "g.a" THEN "g.b" ELSE "g.a"]

Entry(name, config, disabled) == [name |-> name, config |-> config, disabled |-> disabled]
Grouped == "g" :> Entry(Group, None, "no")

\* As first written; every config edited, one to an expression; the group replaced
\* by a plugin and a config that is invalid; another plugin in a row, and rows
\* taken out by an expression and for good.
AsWritten ==
    Grouped @@ "g.a" :> Entry("t1", "v1", "no") @@ "g.b" :> Entry("t1", "v1", "no")
            @@ "c" :> Entry("t1", "v1", "no")
MCDocuments == {
    AsWritten,
    Grouped @@ "g.a" :> Entry("t1", Computed, "no") @@ "g.b" :> Entry("t1", "v2", "no")
            @@ "c" :> Entry("t1", "v2", "no"),
    "g" :> Entry("t2", "v1", "no") @@ "c" :> Entry("t1", "bad", "no"),
    Grouped @@ "g.a" :> Entry("t2", "v1", "no") @@ "g.b" :> Entry("t1", "v1", Computed)
            @@ "c" :> Entry("t1", "v1", "yes")}

\* Bound: the first job reconciles the file as first written.
StartsAsWritten == jobs = 1 => job.doc = AsWritten
=============================================================================
