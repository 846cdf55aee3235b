---------------------------- MODULE MCDeployment ----------------------------
(* Small instances of what a deployment is made of: the service registry,    *)
(* contexts and their frames, layers of configuration, the configs in them,  *)
(* hot reload, and the reports on what waits.  One of them is explored at a  *)
(* time: `focus` says which.                                                 *)
EXTENDS Registry, Frames, ImportGraph, Hmr, Waiting, Layering, MCConfigs, TLC

CONSTANTS top, sub, iso, outer, inner, apart, sql, now, gated, opened, reader, aside

VARIABLES
    focus,
    case, stage, doc, config, given, issues

configs == <<case, stage, doc, config, given, issues>>

-----------------------------------------------------------------------------
\* The registry: a context that enters a nested realm and one that isolates a name.
MCOuter == outer :> None @@ inner :> outer @@ apart :> None
MCAbove == top :> None @@ sub :> top @@ iso :> sub
MCEnters == top :> None @@ sub :> inner @@ iso :> None
MCIsolates == [x \in {top, sub, iso} |-> sql :> (IF x = iso THEN apart ELSE None)]

\* One name bound by two providers of the default realm, at once and behind a
\* gate, and by an iterator in the nested realm.
MCNameOf == [p \in Providers |-> sql]
MCFrom == now :> top @@ gated :> top @@ opened :> sub
MCGate == now :> "none" @@ gated :> "await" @@ opened :> "generator"

\* A consumer in the nested realm and one in the isolated context.
MCNeeds == [c \in {reader, aside} |-> sql]
MCAt == reader :> sub @@ aside :> iso

\* Every program of three modules.
MCRank == [a |-> 1, b |-> 2, c |-> 3]
OneProgram == CHOOSE p \in Programs : TRUE

\* Three callers over two files, one of them a watch, which sees one that is saved
\* twice; the other is asked for and not saved.
MCWatched == [w |-> {"x"}]
MCMaxVersion == [x |-> 2, y |-> 0]

\* Three instances and two names, one of which an instance may be isolated in.
MCMounted == <<"a", "b", "c">>
MCTokens == <<"x", "y">>
OneTree == CHOOSE t \in Trees : TRUE

\* A group with a row, a row beside it, and patches of them from two layers, some
\* of which insert a row or a whole group.
Row(value) == [name |-> "t1", config |-> value, group |-> FALSE]
Grouped == [name |-> "group", config |-> "none", group |-> TRUE]
MCBase == <<"g">> :> Grouped @@ <<"g", "a">> :> Row("v1") @@ <<"c">> :> Row("v1")
MCPatches ==
    {p \in [id : {<<>>, <<"g">>, <<"g", "a">>, <<"c">>, <<"h">>, <<"h", "b">>, <<"c", "b">>},
            name : {"any", "t1"},
            fields : {Nothing, "config" :> "v2"},
            insert : {Nothing, <<"b">> :> Row("v1"),
                      <<"h">> :> Grouped @@ <<"h", "b">> :> Row("v3")}] :
        p.id = <<>> => p.fields = Nothing /\ p.name = "any"}
MCSources == <<"bundle", "cli">>

\* One name, extended, isolated and intercepted with values and with nulls.
MCMetas == {sql :> "v", sql :> "null"}
MCEntries == {"f" :> "x", "f" :> "null", "g" :> "x"}
MCDefault == "f" :> "d"

\* Thirty steps are enough for every expression of MCConfigs.
V == INSTANCE Configs WITH MaxSteps <- 30

-----------------------------------------------------------------------------

ASSUME FramesConstants /\ ImportConstants /\ HmrConstants /\ WaitingConstants /\ LayeringConstants

assembly == <<graphVars, hmrVars, waitingVars, layeringVars>>

DeploymentInit ==
    /\ focus \in {"registry", "contexts", "configs", "programs", "reloads", "waiting", "layering"}
    /\ focus # "programs" => program = OneProgram
    /\ tree \in IF focus = "waiting" THEN Trees ELSE {OneTree}
    /\ Init /\ GraphInit /\ HmrInit /\ WaitingInit /\ LayeringInit /\ FramesInit
    /\ \E c \in IF focus = "configs" THEN MCCases ELSE {OneCase} : V!Begins(c)

DeploymentNext ==
    /\ UNCHANGED focus
    /\ \/ focus = "registry" /\ Next /\ UNCHANGED <<assembly, framesVars, configs>>
       \/ focus = "contexts" /\ FramesNext /\ UNCHANGED <<vars, assembly, configs>>
       \/ focus = "configs" /\ V!ConfigsNext /\ UNCHANGED <<vars, assembly, framesVars>>
       \/ /\ UNCHANGED <<vars, framesVars, configs>>
          /\ \/ focus = "programs" /\ GraphNext /\ UNCHANGED <<hmrVars, waitingVars, layeringVars>>
             \/ focus = "reloads" /\ HmrNext /\ UNCHANGED <<graphVars, waitingVars, layeringVars>>
             \/ focus = "waiting" /\ WaitingNext /\ UNCHANGED <<graphVars, hmrVars, layeringVars>>
             \/ focus = "layering" /\ LayeringNext /\ UNCHANGED <<graphVars, hmrVars, waitingVars>>

DeploymentSpec == DeploymentInit /\ [][DeploymentNext]_<<focus, vars, assembly, framesVars, configs>>

-----------------------------------------------------------------------------
\* Properties: those of the modules, and of Configs by the name it has there.

\* A config is computed and checked as it was written, each load anew (Configs).
Computed == focus = "configs" => V!Computed
=============================================================================
