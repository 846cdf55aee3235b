------------------------------ MODULE EventBus ------------------------------
(***************************************************************************)
(* The event bus (events.py) and the admission of listeners by the filter  *)
(* of the context they were registered under (filter.py).                  *)
(*                                                                         *)
(* One channel: listeners of different names never meet, and events of one *)
(* name share a channel whatever their mode.  An entry is one registration *)
(* (the code compares entries by identity), a dispatch is one call of one  *)
(* of the five dispatchers.  Whatever a listener, a filter or an error     *)
(* handler does while it runs - register, dispose, dispatch - is an action *)
(* that comes between the step that calls it and the step it returns in.   *)
(***************************************************************************)
EXTENDS Naturals, Sequences, FiniteSets, SequencesExt

CONSTANTS
    MaxEntries,  \* bound: registrations
    Contexts,    \* the contexts a listener is registered through
    Lineage,     \* a context's frames, the nearest first
    OwnFilter,   \* the filter a frame declares itself, or None
    Filters,     \* the predicates
    Dispatches,  \* dispatches, each made once
    Handlers,    \* error handlers
    Modes,       \* the modes explored, among AllModes
    Paired,      \* bound: the modes explored in two dispatches at once
    MaxNext,     \* bound: calls a listener makes of one next
    None

AllModes == {"emit", "parallel", "serial", "bail", "waterfall"}

\* An entry is named by its number, the order it was made in.
Entries == 1..MaxEntries

\* None abstains; what is false is an answer like any other.
Answers == {"false", "true"}

ASSUME BusAssumption ==
    /\ None \notin Contexts \cup Filters /\ None \notin Entries
    /\ None \notin AllModes \cup Answers \cup {"yes", "no"}
    /\ Lineage \in [Contexts -> Seq(DOMAIN OwnFilter)]
    /\ OwnFilter \in [DOMAIN OwnFilter -> Filters \cup {None}]
    /\ Modes \subseteq AllModes /\ Paired \subseteq Modes /\ MaxEntries \in Nat /\ MaxNext \in Nat

VARIABLES
    prepended, normal,  \* the two groups of the channel (_Channel)
    ctx,                \* the context of every entry made, or None
    gone,               \* the entries disposed of
    handlers,           \* EventBus._error_handlers
    disp                \* what each dispatch has done so far

vars == <<prepended, normal, ctx, gone, handlers, disp>>
channel == <<prepended, normal, ctx, gone>>

Undone == [phase |-> "idle", mode |-> None,
           todo |-> <<>>,      \* entries whose admission is undecided
           verdict |-> [p \in Filters |-> None],
           list |-> <<>>,      \* the admitted entries, in calling order
           called |-> <<>>,    \* the entries called, in the order of the calls
           running |-> {},     \* those that have not returned
           failed |-> {},      \* those that raised
           spoke |-> {},       \* those that gave an answer
           answer |-> None,    \* what the dispatch returned
           asked |-> [e \in Entries |-> 0],   \* calls of next per listener
           audience |-> <<>>,  \* the handlers of the failure being reported
           told |-> <<>>,      \* those of them that have been called
           present |-> {},     \* the entries live when it began
           installed |-> {}]   \* the handlers installed at its last failure

Init ==
    /\ prepended = <<>> /\ normal = <<>> /\ ctx = <<>> /\ gone = {}
    /\ handlers = <<>>
    /\ disp = [d \in Dispatches |-> Undone]

Snapshot == prepended \o normal
Position(s, e) == CHOOSE i \in DOMAIN s : s[i] = e
Live == DOMAIN ctx \ gone

-----------------------------------------------------------------------------
\* Registration

Enlist(c, first) ==
    LET e == Len(ctx) + 1
    IN /\ e \in Entries
       /\ ctx' = Append(ctx, c)
       /\ prepended' = IF first THEN <<e>> \o prepended ELSE prepended
       /\ normal' = IF first THEN normal ELSE Append(normal, e)
       /\ UNCHANGED <<gone, handlers, disp>>

\* Without a context, or with global_: no filter is ever asked.
On(first) == Enlist(None, first)

\* BoundBus.on: the same, under the context of the view.
BoundOn(c, first) == Enlist(c, first)

\* Nothing stands in a group, or among the handlers, twice.
Drop(s, e) == IF e \in ToSet(s) THEN RemoveAt(s, Position(s, e)) ELSE s

Withdraw(e) ==
    /\ e \in Live
    /\ prepended' = Drop(prepended, e)
    /\ normal' = Drop(normal, e)
    /\ gone' = gone \cup {e}
    /\ UNCHANGED <<ctx, handlers, disp>>

OnError(h) ==
    /\ h \notin ToSet(handlers)
    /\ handlers' = Append(handlers, h)
    /\ UNCHANGED <<channel, disp>>

StopHandler(h) ==
    /\ h \in ToSet(handlers)
    /\ handlers' = Drop(handlers, h)
    /\ UNCHANGED <<channel, disp>>

-----------------------------------------------------------------------------
\* Admission

FilterOf(c) ==
    LET declaring == {i \in DOMAIN Lineage[c] : OwnFilter[Lineage[c][i]] # None}
    IN IF declaring = {} THEN None ELSE OwnFilter[Lineage[c][Min(declaring)]]

\* The filter to ask about an entry, None when it is admitted unasked.
Question(e) == IF ctx[e] = None THEN None ELSE FilterOf(ctx[e])

Startable(d, mode) ==
    /\ disp[d].phase = "idle"
    /\ \A c \in Dispatches : disp[c].mode # None => {mode, disp[c].mode} \subseteq Paired

Begun(d, mode) ==
    [disp[d] EXCEPT !.mode = mode, !.present = Live]

\* A dispatch on the bus has no carrier, asks nobody and admits everybody.
Dispatch(d, mode) ==
    /\ Startable(d, mode)
    /\ disp' = [disp EXCEPT ![d] =
                   [Begun(d, mode) EXCEPT !.phase = "open", !.list = Snapshot]]
    /\ UNCHANGED <<channel, handlers>>

\* One through a context carries it, and the filters are asked about it.
BoundDispatch(d, mode) ==
    /\ Startable(d, mode)
    /\ disp' = [disp EXCEPT ![d] =
                   [Begun(d, mode) EXCEPT !.phase = "admitting", !.todo = Snapshot]]
    /\ UNCHANGED <<channel, handlers>>

\* The event is of another mode: refused before any listener is looked at.
WrongMode(d, mode) ==
    /\ Startable(d, mode)
    /\ disp' = [disp EXCEPT ![d] = [Begun(d, mode) EXCEPT !.phase = "raised"]]
    /\ UNCHANGED <<channel, handlers>>

\* Failures being reported: the handlers yet to be called are those of
\* Audience(d) after the first Len(told).
Audience(d) == disp[d].audience
Reporting(d) == Len(disp[d].told) < Len(Audience(d))

Failing(r) == [r EXCEPT !.audience = handlers, !.told = <<>>,
                        !.installed = ToSet(handlers)]

Decided(r, e, verdict) ==
    [r EXCEPT !.todo = Tail(@),
              !.list = IF verdict = "yes" THEN Append(@, e) ELSE @]

KnownVerdict(d, p) == disp[d].verdict[p]

\* One turn of the loop in _admitted: an entry nobody has to be asked about, one
\* whose filter has answered in this dispatch, or a question.
Admit(d) ==
    LET r == disp[d]
        e == Head(r.todo)
        p == Question(e)
    IN /\ r.phase = "admitting" /\ r.todo # <<>> /\ ~Reporting(d)
       /\ \/ /\ p = None
             /\ disp' = [disp EXCEPT ![d] = Decided(r, e, "yes")]
          \/ /\ p # None /\ KnownVerdict(d, p) # None
             /\ disp' = [disp EXCEPT ![d] = Decided(r, e, KnownVerdict(d, p))]
          \/ /\ p # None /\ KnownVerdict(d, p) = None
             /\ \E says \in {"yes", "no", "raises"} :
                  LET verdict == IF says = "raises" THEN "no" ELSE says
                      asked == [Decided(r, e, verdict) EXCEPT !.verdict[p] = verdict]
                  IN disp' = [disp EXCEPT ![d] =
                                IF says = "raises" THEN Failing(asked) ELSE asked]
       /\ UNCHANGED <<channel, handlers>>

Admitted(d) ==
    /\ disp[d].phase = "admitting" /\ disp[d].todo = <<>> /\ ~Reporting(d)
    /\ disp' = [disp EXCEPT ![d].phase = "open"]
    /\ UNCHANGED <<channel, handlers>>

\* The error channel calls its handlers one by one; one that raises ends the
\* dispatch with its own error.  With no handler the failure goes to stderr.
Report(d) ==
    /\ disp[d].phase \in {"admitting", "open"} /\ Reporting(d)
    /\ \E raises \in BOOLEAN :
         disp' = [disp EXCEPT
                    ![d].told = Append(@, Audience(d)[Len(@) + 1]),
                    ![d].phase = IF raises THEN "raised" ELSE @]
    /\ UNCHANGED <<channel, handlers>>

-----------------------------------------------------------------------------
\* The dispatchers

InTurn == {"emit", "serial", "bail"}
\* Mutant: the loop runs over the live list.
LiveRound(d) == Snapshot

Round(d) == disp[d].list
Open(d, modes) == disp[d].phase = "open" /\ disp[d].mode \in modes

\* emit, serial and bail call one listener after another.
Call(d) ==
    LET n == Len(disp[d].called) + 1
    IN /\ Open(d, InTurn) /\ disp[d].running = {} /\ ~Reporting(d)
       /\ IF n <= Len(Round(d))
          THEN disp' = [disp EXCEPT ![d].called = Append(@, Round(d)[n]),
                                    ![d].running = {Round(d)[n]}]
          ELSE disp' = [disp EXCEPT ![d].phase = "returned"]
       /\ UNCHANGED <<channel, handlers>>

\* An exception is contained and reported; a cancellation is no Exception.
EmitReturn(d, e) ==
    LET r == [disp[d] EXCEPT !.running = {}]
    IN /\ Open(d, {"emit"}) /\ e \in disp[d].running
       /\ disp' = [disp EXCEPT ![d] = r]
             \/ disp' = [disp EXCEPT ![d] = Failing([r EXCEPT !.failed = @ \cup {e}])]
             \/ disp' = [disp EXCEPT ![d] = [r EXCEPT !.phase = "cancelled"]]
       /\ UNCHANGED <<channel, handlers>>

IsAnswer(a) == a # None

AskReturn(d, e) ==
    LET r == [disp[d] EXCEPT !.running = {}]
    IN /\ Open(d, {"serial", "bail"}) /\ e \in disp[d].running
       /\ \/ \E a \in Answers \cup {None} :
               LET heard == [r EXCEPT !.spoke = IF a = None THEN @ ELSE @ \cup {e}]
               IN disp' = [disp EXCEPT ![d] =
                             IF IsAnswer(a)
                             THEN [heard EXCEPT !.phase = "returned", !.answer = a]
                             ELSE heard]
          \* it raises, or a listener of bail returns something to be awaited
          \/ disp' = [disp EXCEPT ![d] = [r EXCEPT !.phase = "raised",
                                                   !.failed = @ \cup {e}]]
       /\ UNCHANGED <<channel, handlers>>

\* parallel: all at once, and the errors of all at the end.
ParallelStart(d) ==
    /\ Open(d, {"parallel"}) /\ disp[d].called = <<>>
    /\ disp' = [disp EXCEPT ![d].called = disp[d].list,
                            ![d].running = ToSet(disp[d].list),
                            ![d].phase = IF disp[d].list = <<>> THEN "returned" ELSE @]
    /\ UNCHANGED <<channel, handlers>>

GatherEnds(r) == r.running = {}

\* A listener that is cancelled ends without an error gather would hand on.
ParallelReturn(d, e) ==
    /\ disp[d].mode = "parallel" /\ e \in disp[d].running
    /\ \E fails \in BOOLEAN :
         LET r == [disp[d] EXCEPT !.running = @ \ {e},
                                  !.failed = IF fails THEN @ \cup {e} ELSE @]
         IN disp' = [disp EXCEPT ![d] =
                       IF r.phase = "open" /\ GatherEnds(r)
                       THEN [r EXCEPT !.phase =
                               IF r.failed = {} THEN "returned" ELSE "raised"]
                       ELSE r]
    /\ UNCHANGED <<channel, handlers>>

\* The caller of parallel is cancelled: gather cancels what still runs.
ParallelCancel(d) ==
    /\ Open(d, {"parallel"}) /\ disp[d].running # {}
    /\ disp' = [disp EXCEPT ![d].phase = "cancelled"]
    /\ UNCHANGED <<channel, handlers>>

\* waterfall: entering link k calls its listener; behind the last one is the
\* default, which is called in place and stands in "called" as None.
Entered(r, k) ==
    IF k > Len(r.list)
    THEN [r EXCEPT !.called = Append(@, None),
                   !.phase = IF k = 1 THEN "returned" ELSE @]
    ELSE [r EXCEPT !.called = Append(@, r.list[k]), !.running = @ \cup {r.list[k]}]

WaterfallStart(d) ==
    /\ Open(d, {"waterfall"}) /\ disp[d].called = <<>>
    /\ disp' = [disp EXCEPT ![d] = Entered(disp[d], 1)]
    /\ UNCHANGED <<channel, handlers>>

\* Mutant: the guard is kept on the entry, not made anew for every invocation.
SpentByEntry(d, e) == \E c \in Dispatches : disp[c].asked[e] > 0

Spent(d, e) == disp[d].asked[e] > 0

\* next, called by the listener or by a task it left behind, once, twice, or
\* when the dispatch is over; a call after the first raises into its caller.
CallNext(d, e) ==
    LET r == disp[d]
        asked == [r EXCEPT !.asked[e] = @ + 1]
    IN /\ r.mode = "waterfall" /\ e \in ToSet(r.called) /\ r.asked[e] < MaxNext
       /\ disp' = [disp EXCEPT ![d] =
                     IF Spent(d, e) THEN asked
                     ELSE Entered(asked, Position(r.list, e) + 1)]
       /\ UNCHANGED <<channel, handlers>>

\* What the outermost listener returns or raises is what the dispatch does.
WaterfallReturn(d, e) ==
    LET r == disp[d]
    IN /\ r.mode = "waterfall" /\ e \in r.running
       /\ \E fails \in BOOLEAN :
            disp' = [disp EXCEPT
                       ![d].running = @ \ {e},
                       ![d].failed = IF fails THEN @ \cup {e} ELSE @,
                       ![d].phase = IF e # r.list[1] THEN @
                                    ELSE IF fails THEN "raised" ELSE "returned"]
       /\ UNCHANGED <<channel, handlers>>

Next ==
    \/ \E first \in BOOLEAN :
         On(first) \/ \E c \in Contexts : BoundOn(c, first)
    \/ \E e \in Entries : Withdraw(e)
    \/ \E h \in Handlers : OnError(h) \/ StopHandler(h)
    \/ \E d \in Dispatches, mode \in Modes :
         Dispatch(d, mode) \/ BoundDispatch(d, mode) \/ WrongMode(d, mode)
    \/ \E d \in Dispatches :
         \/ Admit(d) \/ Admitted(d) \/ Report(d) \/ Call(d)
         \/ ParallelStart(d) \/ ParallelCancel(d) \/ WaterfallStart(d)
    \/ \E d \in Dispatches, e \in Entries :
         \/ EmitReturn(d, e) \/ AskReturn(d, e) \/ ParallelReturn(d, e)
         \/ CallNext(d, e) \/ WaterfallReturn(d, e)

Spec == Init /\ [][Next]_vars

-----------------------------------------------------------------------------
\* Properties

Before(s, e, f) == Position(s, e) < Position(s, f)
Admits(d, e) == Question(e) = None \/ disp[d].mode = None
                \/ disp[d].verdict[Question(e)] # "no"

\* The channel holds the registrations that were not disposed of, and a dispatch
\* would call them: those that asked to be first, the latest of them first, and
\* then the others in the order they came (_Channel.snapshot, _remove).
Precedence ==
    /\ ToSet(Snapshot) = Live /\ Len(Snapshot) = Cardinality(Live)
    /\ \A e, f \in Live : Before(Snapshot, e, f) =>
         \/ e \in ToSet(prepended) /\ f \in ToSet(normal)
         \/ e \in ToSet(prepended) /\ f < e
         \/ f \in ToSet(normal) /\ e < f

\* A dispatch calls only what was registered when it began, nobody twice, and a
\* broadcast that returns has called every listener that was there at its
\* beginning and that no filter denied, whatever listeners registered, removed
\* or raised in the meantime (_snapshot, _emit, _parallel).
Reached ==
    \A d \in Dispatches : LET r == disp[d] IN
      /\ ToSet(r.called) \subseteq r.present \cup {None}
      /\ Cardinality(ToSet(r.called)) = Len(r.called)
      /\ r.phase = "returned" /\ r.mode \in {"emit", "parallel"}
            => {e \in r.present : Admits(d, e)} \subseteq ToSet(r.called)

\* Listeners under one filter are all admitted to a dispatch or all denied, even
\* when the filter would answer differently a second time or raises (_admitted).
OneVerdict ==
    \A d \in Dispatches : LET r == disp[d] IN
      r.phase \notin {"idle", "admitting"} /\ r.todo = <<>> /\ r.list # <<>> =>
        \A e, f \in r.present :
          Question(e) = Question(f) /\ e \in ToSet(r.list) => f \in ToSet(r.list)

\* Every handler installed when a failure happened has heard of it when the
\* dispatch goes on, whoever installs or removes handlers while it is reported;
\* only a handler that raises cuts the report short (_report_failure).
HandlersHear ==
    \A d \in Dispatches :
      disp[d].phase # "raised" /\ ~Reporting(d) =>
        disp[d].installed \subseteq ToSet(disp[d].told)

\* serial and bail stop at the first listener with an answer, a false one
\* included, and nobody behind it is asked (_serial, _bail).
FirstAnswer ==
    \A d \in Dispatches : LET r == disp[d] IN
      r.spoke # {} => /\ r.answer # None /\ r.phase = "returned"
                      /\ r.spoke = {r.called[Len(r.called)]}

\* parallel neither returns nor raises before every listener has ended, and it
\* raises exactly when one of them raised (_parallel).
ParallelWaits ==
    \A d \in Dispatches : LET r == disp[d] IN
      r.mode = "parallel" /\ r.called # <<>> /\ r.phase \in {"returned", "raised"}
        => r.running = {} /\ (r.phase = "raised" <=> r.failed # {})

\* In one dispatch the rest of the chain behind a listener runs once if the
\* listener called next, however often and however late, and not at all if it
\* did not - whatever other dispatches of the chain do (_link).
NextOnce ==
    \A d \in Dispatches : LET r == disp[d] IN
      r.mode = "waterfall" =>
        \A k \in DOMAIN r.list :
          LET behind == IF k = Len(r.list) THEN None ELSE r.list[k + 1]
          IN Cardinality({i \in DOMAIN r.called : r.called[i] = behind})
               = IF r.asked[r.list[k]] > 0 THEN 1 ELSE 0

\* Every mode of dispatch reaches the listeners it owes, in their order, and ends as
\* its mode says, whatever happens to the channel meanwhile.
Delivered ==
    Precedence /\ Reached /\ HandlersHear /\ OneVerdict /\ FirstAnswer /\ ParallelWaits
=============================================================================
