------------------------------- MODULE Configs -------------------------------
(***************************************************************************)
(* What becomes of one config: read from a document with the expressions   *)
(* in it marked (expr.py: parse_expressions), written back by an editor,   *)
(* computed at every load, within a budget, from what the entries beside   *)
(* it show of theirs, and held against a schema (config.py) before the     *)
(* body gets it (plugin.py: _prepare_config).                              *)
(*                                                                         *)
(* A text is its length, as if there were one letter; the source of an     *)
(* expression is a text, and `programs` has what it parses to.  Addition   *)
(* and multiplication stand for the arithmetic, `in` for the comparisons,  *)
(* an item of a map for an attribute, and len for the allowed functions.   *)
(***************************************************************************)
EXTENDS Naturals, Sequences, FiniteSets, SequencesExt

CONSTANT
    MaxSteps    \* bound: budgets compared with their successors

VARIABLES
    case,    \* [doc, beside, programs, budget, schema]: what is explored
    stage,   \* written, refused, read, running, failed
    doc,     \* the config in the document
    config,  \* the config as the instance keeps it, its expressions unevaluated
    given,   \* what the body got
    issues   \* the places named in the report

configVars == <<case, stage, doc, config, given, issues>>

\* Values.  A map is a function, a list a sequence; both are walked alike.
Num(n) == [is |-> "int", n |-> n]
Bool(n) == [is |-> "bool", n |-> n]
Text(n) == [is |-> "text", n |-> n]
Map(f) == [is |-> "map", of |-> f]
List(s) == [is |-> "list", of |-> s]
Expr(n) == [is |-> "expr", n |-> n]
Null == [is |-> "none", n |-> 0]
Opaque == [is |-> "opaque", n |-> 0]
Nested(v) == v.is \in {"map", "list"}

IsEnvelope(v) ==
    v.is = "map" /\ DOMAIN v.of = {"$expr"} /\ v.of["$expr"].is = "text"
Envelope(e) == Map([k \in {"$expr"} |-> Text(e.n)])

-----------------------------------------------------------------------------
\* Documents

RECURSIVE Parse(_), Unparse(_), Hide(_), ExprPaths(_), Part(_, _)
Parse(v) ==
    IF IsEnvelope(v) THEN Expr(v.of["$expr"].n)
    ELSE IF Nested(v) THEN [v EXCEPT !.of = [k \in DOMAIN v.of |-> Parse(v.of[k])]]
    ELSE v

Unparse(v) ==
    IF v.is = "expr" THEN Envelope(v)
    ELSE IF Nested(v) THEN [v EXCEPT !.of = [k \in DOMAIN v.of |-> Unparse(v.of[k])]]
    ELSE v

\* opaque: an entry as the expressions beside it may see it.
Hide(v) ==
    IF v.is = "expr" THEN Opaque
    ELSE IF Nested(v) THEN [v EXCEPT !.of = [k \in DOMAIN v.of |-> Hide(v.of[k])]]
    ELSE v

\* The paths below a place, by the paths below each of its parts.
Below(v, Paths(_)) == UNION {{<<k>> \o p : p \in Paths(v.of[k])} : k \in DOMAIN v.of}

ExprPaths(v) ==
    IF v.is = "expr" \/ IsEnvelope(v) THEN {<<>>}
    ELSE IF Nested(v) THEN Below(v, ExprPaths)
    ELSE {}

Part(v, path) == IF path = <<>> THEN v ELSE Part(v.of[Head(path)], Tail(path))

\* The expressions that do not compile, each cached with its reason.
Problems(v, programs) == {p \in ExprPaths(v) : Part(v, p).n \notin DOMAIN programs}

-----------------------------------------------------------------------------
\* The machine.  An outcome has the value, what is left of the budget, and for
\* the properties the size of the largest value built.

Size(v) == IF v.is = "text" THEN v.n
           ELSE IF v.is = "list" THEN Len(v.of)
           ELSE IF v.is = "map" THEN Cardinality(DOMAIN v.of) ELSE 0
Done(v, left, peak) == [why |-> "ok", value |-> v, left |-> left, peak |-> peak]
Fails(why) == [why |-> why, value |-> Null, left |-> 0, peak |-> 0]

Then(r, F(_)) == IF r.why = "ok" THEN F(r) ELSE r
Spend(r, cost, F(_)) ==
    IF r.why # "ok" THEN r
    ELSE IF cost > r.left THEN Fails("over budget") ELSE F([r EXCEPT !.left = @ - cost])
Built(r, v) == Done(v, r.left, IF Size(v) > r.peak THEN Size(v) ELSE r.peak)
Guard(r) == IF r.why = "ok" /\ r.value = Opaque THEN Fails("computed") ELSE r

Truth(v) == IF v.is \in {"text", "map", "list"} THEN Size(v) > 0 ELSE v.n # 0
Numeric(v) == v.is \in {"int", "bool"}
Repeated(s, n) == [i \in 1..Len(s) * n |-> s[((i - 1) % Len(s)) + 1]]

\* Mutant: `3 * text` is charged like a product of numbers.
RepeatOneWay(l, r) == IF r.is = "int" THEN Size(l) * r.n ELSE 0

\* _repeat: what a repetition costs, whichever way round it is written.
Repeat(l, r) ==
    IF r.is = "int" /\ Size(l) > 0 THEN Size(l) * r.n
    ELSE IF l.is = "int" THEN Size(r) * l.n ELSE 0

Cost(op, l, r) == IF op = "mult" THEN Repeat(l, r) ELSE Size(l) + Size(r)

Apply(op, l, r) ==
    CASE Numeric(l) /\ Numeric(r) -> <<Num(IF op = "mult" THEN l.n * r.n ELSE l.n + r.n)>>
      [] op = "add" /\ l.is = r.is /\ l.is = "text" -> <<Text(l.n + r.n)>>
      [] op = "add" /\ l.is = r.is /\ l.is = "list" -> <<List(l.of \o r.of)>>
      [] op = "mult" /\ l.is = "text" /\ Numeric(r) -> <<Text(l.n * r.n)>>
      [] op = "mult" /\ l.is = "list" /\ Numeric(r) -> <<List(Repeated(l.of, r.n))>>
      [] op = "mult" /\ Numeric(l) /\ r.is = "text" -> <<Text(l.n * r.n)>>
      [] op = "mult" /\ Numeric(l) /\ r.is = "list" -> <<List(Repeated(r.of, l.n))>>
      [] OTHER -> <<>>

Same(l, r) == l = r \/ (Numeric(l) /\ Numeric(r) /\ l.n = r.n)
Member(l, r) ==
    LET answer(yes) == <<Bool(IF yes THEN 1 ELSE 0)>>
    IN CASE r.is = "list" -> answer(\E i \in DOMAIN r.of : Same(r.of[i], l))
         [] r.is = "text" /\ l.is = "text" -> answer(l.n <= r.n)
         [] r.is = "map" /\ ~Nested(l) -> answer(FALSE)    \* the keys are no texts of these
         [] OTHER -> <<>>

Holds(v, key) == v.is = "map" /\ key \in DOMAIN v.of

\* Nodes have an op; `of` are the operands, in the order they are evaluated.
RECURSIVE Eval(_, _, _), EvalAll(_, _, _), EvalUntil(_, _, _, _)

\* The operands one after the other; the value is the sequence of theirs.
EvalAll(nodes, env, start) ==
    IF nodes = <<>> THEN [start EXCEPT !.value = <<>>]
    ELSE LET rest == Tail(nodes)
             last(r) == Then(EvalAll(rest, env, r),
                             LAMBDA s : [s EXCEPT !.value = <<r.value>> \o @])
         IN Then(Eval(Head(nodes), env, start), last)

\* _boolop: up to the first operand that decides.
EvalUntil(nodes, wanted, env, start) ==
    Then(Eval(Head(nodes), env, start),
         LAMBDA r : IF Len(nodes) = 1 \/ Truth(r.value) # wanted THEN r
                    ELSE EvalUntil(Tail(nodes), wanted, env, r))

Step(node, env, r) ==
    CASE node.op = "const" -> [r EXCEPT !.value = node.value]
      [] node.op = "name" ->
           IF Holds(env, node.id) THEN Guard([r EXCEPT !.value = env.of[node.id]])
           ELSE Fails("unknown name")
      [] node.op = "item" ->
           Then(EvalAll(node.of, env, r),
                LAMBDA s : Spend(s, 1,
                    LAMBDA t : IF Holds(t.value[1], node.key)
                               THEN Guard([t EXCEPT !.value = @[1].of[node.key]])
                               ELSE Fails("no such item")))
      [] node.op \in {"and", "or"} -> EvalUntil(node.of, node.op = "and", env, r)
      [] node.op = "if" ->
           Then(Eval(node.of[1], env, r),
                LAMBDA s : Eval(node.of[IF Truth(s.value) THEN 2 ELSE 3], env, s))
      [] node.op \in {"add", "mult"} ->
           Then(EvalAll(node.of, env, r),
                LAMBDA s : Spend(s, Cost(node.op, s.value[1], s.value[2]),
                    LAMBDA t : LET v == Apply(node.op, t.value[1], t.value[2])
                               IN IF v = <<>> THEN Fails("type") ELSE Built(t, v[1])))
      [] node.op = "in" ->
           Then(EvalAll(node.of, env, r),
                LAMBDA s : Spend(s, Size(s.value[2]),
                    LAMBDA t : LET v == Member(t.value[1], t.value[2])
                               IN IF v = <<>> THEN Fails("type") ELSE Built(t, v[1])))
      [] node.op = "len" ->
           Then(EvalAll(node.of, env, r),
                LAMBDA s : Spend(s, Size(s.value[1]),
                    LAMBDA t : IF t.value[1].is \in {"text", "map", "list"}
                               THEN Built(t, Num(Size(t.value[1]))) ELSE Fails("type")))
      [] node.op = "list" ->
           Then(EvalAll(node.of, env, r),
                LAMBDA s : Spend(s, Len(s.value), LAMBDA t : Built(t, List(t.value))))

Eval(node, env, start) == Spend(start, 1, LAMBDA r : Step(node, env, r))

Evaluate(tree, env, budget) == Eval(tree, env, Done(Null, budget, 0))

\* substitute: every expression for itself, with a budget of its own; the first
\* that fails fails the config.
RECURSIVE Substitute(_, _)
Outcome(v, env) == Evaluate(case.programs[v.n], env, case.budget)

Fitting(v, env) == \A p \in ExprPaths(v) : Outcome(Part(v, p), env).why = "ok"
Substitute(v, env) ==
    IF v.is = "expr" THEN Outcome(v, env).value
    ELSE IF Nested(v) THEN [v EXCEPT !.of = [k \in DOMAIN v.of |-> Substitute(v.of[k], env)]]
    ELSE v

-----------------------------------------------------------------------------
\* Schemas: [s |-> "any" or a primitive], unions, lists and maps `of` a schema,
\* and dataclasses `of` fields, those without a default in `needed`.

\* _resolve_primitive: stricter with bools than Python, and no stricter with floats.
Accepts(s, v) ==
    CASE s = "float" -> v.is \in {"int", "float"} [] OTHER -> v.is = s

RECURSIVE Issues(_, _)
Issues(schema, v) ==
    LET inside(Of(_)) == UNION {{<<k>> \o p : p \in Issues(Of(k), v.of[k])} : k \in DOMAIN v.of}
    IN CASE schema.s = "any" -> {}
         [] schema.s = "union" ->
              IF \E i \in DOMAIN schema.of : Issues(schema.of[i], v) = {} THEN {} ELSE {<<>>}
         [] schema.s \in {"list", "map"} ->
              IF v.is # schema.s THEN {<<>>} ELSE inside(LAMBDA k : schema.of)
         [] schema.s = "class" ->
              IF v.is # "map" THEN {<<>>}
              ELSE {<<k>> : k \in schema.needed \ DOMAIN v.of}
                   \cup inside(LAMBDA k : IF k \in DOMAIN schema.of THEN schema.of[k]
                                          ELSE [s |-> "unknown"])
         [] OTHER -> IF Accepts(schema.s, v) THEN {} ELSE {<<>>}

-----------------------------------------------------------------------------

Begins(c) ==
    /\ case = c
    /\ stage = "written" /\ doc = c.doc
    /\ config = Null /\ given = Null /\ issues = {}

\* _read_config: a document with a bad source mounts nothing.
Read ==
    /\ stage = "written"
    /\ config' = Parse(doc)
    /\ issues' = Problems(config', case.programs)
    /\ stage' = IF issues' = {} THEN "read" ELSE "refused"
    /\ UNCHANGED <<case, doc, given>>

\* An editor reads the document and writes it back.
Rewrite ==
    /\ stage \in {"read", "refused"}
    /\ doc' = Unparse(config)
    /\ stage' = "written" /\ issues' = {}
    /\ UNCHANGED <<case, config, given>>

\* _environment, _siblings: the literal part of the entries of the level, this
\* one included.
Env == Map([k \in {"entries"} |->
              Map([e \in {"me", "beside"} |->
                     IF e = "me" THEN Hide(config) ELSE Hide(Parse(case.beside))])])

\* A load: computed, validated, and held back or given to the body.
Load ==
    /\ stage = "read"
    /\ IF Fitting(config, Env)
       THEN /\ issues' = Issues(case.schema, Substitute(config, Env))
            /\ stage' = IF issues' = {} THEN "running" ELSE "failed"
            /\ given' = IF issues' = {} THEN Substitute(config, Env) ELSE given
       ELSE stage' = "failed" /\ UNCHANGED <<given, issues>>
    /\ UNCHANGED <<case, doc, config>>

\* The next load starts from the config as it was read.
Unload ==
    /\ stage \in {"running", "failed"}
    /\ stage' = "read" /\ given' = Null /\ issues' = {}
    /\ UNCHANGED <<case, doc, config>>

ConfigsNext == Read \/ Rewrite \/ Load \/ Unload

-----------------------------------------------------------------------------
\* Properties

\* Reading and writing back changes nothing: an expression comes out as the text
\* that went in, at the place it was, evaluated by nobody (15 SEM-006).
RoundTrip ==
    /\ doc = case.doc
    /\ stage # "written" => ExprPaths(config) = ExprPaths(doc) /\ Parse(doc) = config

RECURSIVE Leaves(_)
Leaves(v) == IF Nested(v) THEN Below(v, Leaves) ELSE {<<>>}

\* What the body gets has no expression in it and differs from the document only
\* where one stood; a hidden field of a neighbour is in it only as a part of
\* something an expression took whole, never as what it asked for (opaque, _guard).
NothingHidden ==
    stage = "running" =>
      /\ \A p \in Leaves(given) : Part(given, p).is # "expr"
      /\ \A p \in Leaves(doc) : \/ \E e \in ExprPaths(doc) : IsPrefix(e, p)
                                \/ Part(doc, p) = Part(given, p)
      /\ \A p \in ExprPaths(doc) : Part(given, p) # Opaque

\* An evaluation never builds a text or a list larger than its budget, a larger
\* budget changes nothing but that it is not exceeded, and some budget is enough
\* (_spend, _repeat, 15 PROP-EXPR-003).
Budgeted ==
    stage = "read" => \A n \in DOMAIN case.programs :
      LET with == [b \in 0..MaxSteps + 1 |-> Evaluate(case.programs[n], Env, b)]
      IN /\ \A b \in 0..MaxSteps :
              /\ with[b].peak <= b
              /\ with[b].why = "ok" => /\ with[b + 1].value = with[b].value
                                       /\ with[b + 1].left = with[b].left + 1
              /\ with[b].why # "over budget" => with[b + 1].why = with[b].why
         /\ with[MaxSteps].why # "over budget"

RECURSIVE Fits(_, _)
Fits(schema, v) ==     \* the reference: what a schema means
    CASE schema.s = "any" -> TRUE
      [] schema.s = "union" -> \E i \in DOMAIN schema.of : Fits(schema.of[i], v)
      [] schema.s \in {"list", "map"} ->
           v.is = schema.s /\ \A k \in DOMAIN v.of : Fits(schema.of, v.of[k])
      [] schema.s = "class" ->
           /\ v.is = "map" /\ schema.needed \subseteq DOMAIN v.of
           /\ DOMAIN v.of \subseteq DOMAIN schema.of
           /\ \A k \in DOMAIN v.of : Fits(schema.of[k], v.of[k])
      [] schema.s = "float" -> v.is \in {"float", "int"}
      [] OTHER -> v.is = schema.s

\* The body runs on a config its schema means, and one that is held back is: of the
\* parts of a structure exactly those that do not fit are named, and those that are
\* missing (_resolve, _resolve_dataclass).
Conforms ==
    /\ stage = "running" => Fits(case.schema, given)
    /\ stage = "failed" /\ Fitting(config, Env) =>
         LET v == Substitute(config, Env)
             fits(k) == IF case.schema.s # "class" THEN Fits(case.schema.of, v.of[k])
                        ELSE k \in DOMAIN case.schema.of /\ Fits(case.schema.of[k], v.of[k])
         IN /\ ~Fits(case.schema, v)
            /\ <<>> \notin issues =>
                 /\ \A k \in DOMAIN v.of : fits(k) <=> \A p \in issues : Head(p) # k
                 /\ \A p \in issues : \/ Head(p) \in DOMAIN v.of
                                       \/ Head(p) \in case.schema.needed

\* A config is computed and checked as it was written, each load anew.
Computed == RoundTrip /\ NothingHidden /\ Budgeted /\ Conforms
=============================================================================
