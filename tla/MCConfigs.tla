----------------------------- MODULE MCConfigs -----------------------------
(* Configs to be computed: every small expression over two constants and a   *)
(* neighbour's fields, one of them computed itself; and small documents with *)
(* and without expressions under schemas of every sort.                      *)
EXTENDS Naturals, Sequences, TLC

Leaf(is, n) == [is |-> is, n |-> n]
Struct(f) == [is |-> "map", of |-> f]
Marked(n) == Struct("$expr" :> Leaf("text", n))
Beside == Struct("port" :> Leaf("int", 2) @@ "host" :> Marked(1))

Op(op, operands) == [op |-> op, of |-> operands]
Item(of, key) == [op |-> "item", key |-> key, of |-> <<of>>]
Named(id) == [op |-> "name", id |-> id]
Neighbour == Item(Named("entries"), "beside")
Consts == {[op |-> "const", value |-> v] : v \in {Leaf("int", 3), Leaf("text", 2)}}
Operands == Consts \cup {Item(Neighbour, "port"), Item(Neighbour, "host")}
Compounds(left, right) ==
    {Op(op, <<l, r>>) : op \in {"add", "mult", "in", "and", "or", "list"}, l \in left, r \in right}
Simple ==
    Compounds(Operands, Operands) \cup {Op("len", <<l>>) : l \in Operands}
      \cup {Op("if", <<l, r, Named("nobody")>>) : l, r \in Operands}
Expressions ==
    Operands \cup Simple \cup Compounds(Simple, Consts) \cup Compounds(Consts, Simple)
      \cup {Op("len", <<l>>) : l \in Simple}

Parts == {Leaf("int", 2), Leaf("bool", 1), Leaf("text", 2), Struct("$expr" :> Leaf("int", 1))}
           \cup {Marked(n) : n \in {1, 2, 9}}
Texts ==
    Parts \cup {Struct("tags" :> p) : p \in Parts}
      \cup {Struct("port" :> p @@ "tags" :> Struct("a" :> q)) : p, q \in Parts}
      \cup {Struct("port" :> p @@ "tags" :> [is |-> "list", of |-> <<q, r>>]) : p, q, r \in Parts}

Schema(s) == [s |-> s]
SchemaOf(s, of) == [s |-> s, of |-> of]
Schemas ==
    {Schema("any"),
     SchemaOf("map", SchemaOf("union", <<Schema("int"), SchemaOf("map", Schema("int"))>>)),
     [s |-> "class", needed |-> {"port"},
      of |-> "port" :> Schema("int") @@ "tags" :> SchemaOf("list", Schema("float"))
               @@ "name" :> Schema("text")],
     [s |-> "class", needed |-> {"port", "name"}, of |-> "port" :> Schema("bool")]}

Case(doc, programs, schema) ==
    [doc |-> doc, beside |-> Beside, programs |-> programs, budget |-> 12, schema |-> schema]
ExpressionCases == {Case(Marked(1), 1 :> t, Schema("any")) : t \in Expressions}
DocumentCases ==
    {Case(d, 1 :> Item(Neighbour, "port") @@ 2 :> Neighbour, s) : d \in Texts, s \in Schemas}
MCCases == ExpressionCases \cup DocumentCases
OneCase == Case(Marked(1), 1 :> Neighbour, Schema("any"))
=============================================================================
