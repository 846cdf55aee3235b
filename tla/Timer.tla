------------------------------- MODULE Timer -------------------------------
(***************************************************************************)
(* Scheduling (timer.py): work whose lifetime is its scope's.  A helper is *)
(* one call of spawn, timeout, interval, throttle or debounce; it owns     *)
(* tasks, and one effect whose disposer stops them.  Time is the clock     *)
(* service: a sleep ends at its due time or later, when the event loop     *)
(* comes to the task.  The effects themselves are those of EffectScope.    *)
(***************************************************************************)
EXTENDS Naturals, Sequences, FiniteSets

CONSTANTS
    Helpers,   \* the helpers of one scope
    Kind,      \* "spawn", "timeout", "interval", "throttle" or "debounce"
    Period,    \* their delay or period, a positive number
    MaxTime,   \* bound: the last moment explored
    MaxCalls   \* bound: calls of one wrapper

\* A period is not zero (interval, throttle and debounce refuse it).
ASSUME TimerAssumption == Period \in [Helpers -> Nat \ {0}] /\ MaxTime \in Nat

VARIABLES
    clock,     \* Clock.now()
    helper,    \* what each helper keeps
    tasks      \* the tasks each has started, in the order it started them

timerVars == <<clock, helper, tasks>>

Wrapper(h) == Kind[h] \in {"throttle", "debounce"}

NewHelper == [effect |-> "none",      \* then recorded, stopping, stopped
              pending |-> 0,          \* state.task, or the task of the disposer
              call |-> 0,             \* state.call: the number of the waiting call
              awaited |-> 0,          \* the task stop() waits for
              owned |-> 0,            \* the tasks started before stop() ran
              calls |-> 0, calledAt |-> 0,
              completed |-> 0, skipped |-> 0,
              fired |-> <<>>]         \* the invocations of fn, for the properties

NewTask(c) == [phase |-> "new", cancel |-> FALSE, call |-> c,
               begun |-> 0, tick |-> 1, due |-> 0]

TimerInit ==
    /\ clock = 0
    /\ helper = [h \in Helpers |-> NewHelper]
    /\ tasks = [h \in Helpers |-> <<>>]

Advance == clock < MaxTime /\ clock' = clock + 1 /\ UNCHANGED <<helper, tasks>>

\* spawn, timeout and interval start their task at once; throttle and debounce
\* record a disposer for whatever task they will own (_register).
Set(h) ==
    /\ helper[h].effect = "none"
    /\ helper' = [helper EXCEPT ![h].effect = "recorded",
                                ![h].pending = IF Wrapper(h) THEN 0 ELSE 1]
    /\ tasks' = [tasks EXCEPT ![h] = IF Wrapper(h) THEN @ ELSE <<NewTask(0)>>]
    /\ UNCHANGED clock

WindowClosed(h) == helper[h].pending = 0

Called(h) == [helper EXCEPT ![h].calls = @ + 1, ![h].calledAt = clock]

\* The wrapper of throttle.  Nobody asks whether the scope still lives.
CallThrottled(h) ==
    /\ Kind[h] = "throttle" /\ helper[h].effect # "none" /\ helper[h].calls < MaxCalls
    /\ LET n == helper[h].calls + 1
       IN IF WindowClosed(h)
          THEN /\ tasks' = [tasks EXCEPT ![h] = Append(@, NewTask(n))]
               /\ helper' = [Called(h) EXCEPT ![h].call = n,
                                              ![h].pending = Len(tasks[h]) + 1]
          ELSE tasks' = tasks /\ helper' = [Called(h) EXCEPT ![h].call = n]
    /\ UNCHANGED clock

\* The pending task of a wrapper is asked to stop; it may be about to wake.
Superseded(h) ==
    [i \in DOMAIN tasks[h] |->
        IF i = helper[h].pending THEN [tasks[h][i] EXCEPT !.cancel = TRUE] ELSE tasks[h][i]]

\* The wrapper of debounce: every call replaces the pending one.
CallDebounced(h) ==
    /\ Kind[h] = "debounce" /\ helper[h].effect # "none" /\ helper[h].calls < MaxCalls
    /\ tasks' = [tasks EXCEPT ![h] = Append(Superseded(h), NewTask(helper[h].calls + 1))]
    /\ helper' = [Called(h) EXCEPT ![h].pending = Len(tasks[h]) + 1]
    /\ UNCHANGED clock

Asked(h, i) == tasks[h][i].cancel

\* The first step of a task: it reads the clock and goes to sleep; spawn's
\* coroutine simply runs.
Begin(h, i) ==
    /\ tasks[h][i].phase = "new" /\ ~Asked(h, i)
    /\ tasks' = [tasks EXCEPT
         ![h][i] = [@ EXCEPT !.phase = IF Kind[h] = "spawn" THEN "running" ELSE "asleep",
                             !.begun = clock, !.due = clock + Period[h]]]
    /\ UNCHANGED <<clock, helper>>

\* A wrapper forgets its task, and throttle the call it takes along, before the
\* callable runs.
Forgotten(h) == [helper EXCEPT ![h].pending = 0, ![h].call = 0]

\* The sleep is over and the callable is invoked.
Wake(h, i) ==
    LET t == tasks[h][i]
        n == IF Kind[h] = "throttle" THEN helper[h].call ELSE t.call
        shot == [at |-> clock, call |-> n, tick |-> t.tick, ended |-> clock,
                 latest |-> helper[h].calls, since |-> helper[h].calledAt]
        kept == IF Wrapper(h) THEN Forgotten(h) ELSE helper
    IN /\ t.phase = "asleep" /\ ~Asked(h, i) /\ clock >= t.due
       /\ tasks' = [tasks EXCEPT ![h][i].phase = "running"]
       /\ helper' = [kept EXCEPT ![h].fired = Append(@, shot)]
       /\ UNCHANGED clock

\* Mutant: a deadline the iteration ended on counts as missed.
PastOrNow(at) == clock >= at

Past(at) == clock > at

\* The first deadline of the grid after `tick` that has not gone by.
NextTick(h, t) ==
    CHOOSE k \in t.tick + 1 .. t.tick + MaxTime + 2 :
        /\ ~Past(t.begun + k * Period[h])
        /\ \A j \in t.tick + 1 .. k - 1 : Past(t.begun + j * Period[h])

EndShot(h) ==
    [helper[h].fired EXCEPT ![Len(helper[h].fired)].ended = clock]

\* An iteration of interval ends, whether or not the callback raised: the
\* deadlines that went by meanwhile are counted as skipped.
Again(h, i) ==
    LET t == tasks[h][i]
        k == NextTick(h, t)
    IN /\ Kind[h] = "interval" /\ t.phase = "running" /\ ~Asked(h, i)
       /\ tasks' = [tasks EXCEPT
            ![h][i] = [@ EXCEPT !.phase = "asleep", !.tick = k,
                                !.due = t.begun + k * Period[h]]]
       /\ helper' = [helper EXCEPT ![h].completed = @ + 1,
                                   ![h].skipped = @ + (k - t.tick - 1),
                                   ![h].fired = EndShot(h)]
       /\ UNCHANGED clock

\* The callable returns, or raises and is reported (_guard, _run).  A report
\* that raises itself ends an interval too.
Return(h, i) ==
    /\ tasks[h][i].phase = "running" /\ ~Asked(h, i)
    /\ tasks' = [tasks EXCEPT ![h][i].phase = "over"]
    /\ helper' = IF Kind[h] = "spawn" THEN helper
                 ELSE [helper EXCEPT ![h].fired = EndShot(h)]
    /\ UNCHANGED clock

\* A task that was asked to stop ends: at once when it never ran or slept, after
\* some cleaning up when the callable was running.
Cancelled(h, i) ==
    /\ Asked(h, i) /\ tasks[h][i].phase # "over"
    /\ tasks' = [tasks EXCEPT ![h][i].phase = "over"]
    /\ UNCHANGED <<clock, helper>>

\* The disposer, called by the handle or by the unwind of the scope.
Stop(h) ==
    /\ helper[h].effect = "recorded"
    /\ helper' = [helper EXCEPT ![h].effect = "stopping", ![h].awaited = helper[h].pending,
                                ![h].owned = Len(tasks[h]),
                                ![h].pending = 0, ![h].call = 0]
    /\ tasks' = [tasks EXCEPT ![h] = Superseded(h)]
    /\ UNCHANGED clock

\* Mutant: stop() cancels the task and does not wait for it.
NotAwaited(h) == TRUE

Gathered(h) ==
    helper[h].awaited # 0 => tasks[h][helper[h].awaited].phase = "over"

Stopped(h) ==
    /\ helper[h].effect = "stopping" /\ Gathered(h)
    /\ helper' = [helper EXCEPT ![h].effect = "stopped"]
    /\ UNCHANGED <<clock, tasks>>

Step(h) ==
    \/ Set(h) \/ CallThrottled(h) \/ CallDebounced(h) \/ Stop(h) \/ Stopped(h)
    \/ \E i \in DOMAIN tasks[h] :
         Begin(h, i) \/ Wake(h, i) \/ Again(h, i) \/ Return(h, i) \/ Cancelled(h, i)

TimerNext == Advance \/ \E h \in Helpers : Step(h)

TimerSpec == TimerInit /\ [][TimerNext]_timerVars

-----------------------------------------------------------------------------
\* Properties

\* When a disposer has returned, no task it owned is left to run: that of spawn,
\* timeout and interval has stopped, and of a wrapper nothing that slept will
\* ever fire.  What a wrapper was just calling it had already disowned, and a
\* call that comes after the disposer starts a task of nobody (spawn, _register).
StopMeansStopped ==
    \A h \in Helpers : helper[h].effect = "stopped" =>
        \A i \in 1..helper[h].owned :
            \/ tasks[h][i].phase = "over"
            \/ Wrapper(h) /\ (tasks[h][i].phase = "running" \/ Asked(h, i))

\* The deadlines before the one an interval sleeps for are each accounted for
\* once: as an iteration that ran, or as skipped, and then an iteration that
\* began before it was still running after it (interval).
DeadlinesCounted ==
    \A h \in Helpers : Kind[h] = "interval" =>
      \A i \in DOMAIN tasks[h] : tasks[h][i].phase = "asleep" =>
        LET t == tasks[h][i]
            shots == helper[h].fired
            ran == {shots[n].tick : n \in DOMAIN shots}
        IN /\ helper[h].completed = Cardinality(ran)
           /\ helper[h].completed + helper[h].skipped = t.tick - 1
           /\ \A k \in (1..t.tick - 1) \ ran :
                \E n \in DOMAIN shots :
                  shots[n].tick < k /\ shots[n].ended > t.begun + k * Period[h]

\* A throttled callable is invoked at most once per period, with the last call
\* made by then (throttle).
RateLimited ==
    \A h \in Helpers : Kind[h] = "throttle" =>
      LET shots == helper[h].fired IN
      \A n \in DOMAIN shots :
        /\ shots[n].call = shots[n].latest
        /\ n > 1 => shots[n].at >= shots[n - 1].at + Period[h]

\* A debounced callable is invoked for the last call only, and when the delay has
\* passed since, even if a call comes as the pending one wakes (debounce).
BurstSettled ==
    \A h \in Helpers : Kind[h] = "debounce" =>
      \A n \in DOMAIN helper[h].fired : LET shot == helper[h].fired[n] IN
        shot.call = shot.latest /\ shot.at >= shot.since + Period[h]

\* Until its wrapper is stopped the last call was carried out or a task that
\* nobody cancelled is going to (throttle, debounce).
LastCallKept ==
    \A h \in Helpers : Wrapper(h) /\ helper[h].effect = "recorded" /\ helper[h].calls > 0 =>
      LET s == helper[h] IN
      \/ s.fired # <<>> /\ s.fired[Len(s.fired)].call = s.calls
      \/ /\ s.pending # 0
         /\ tasks[h][s.pending].phase \in {"new", "asleep"} /\ ~Asked(h, s.pending)
         /\ s.calls \in {s.call, tasks[h][s.pending].call}

\* The repeating and the rate limiting helpers fire when they should: every
\* deadline of an interval is accounted for, a throttled or debounced callable runs
\* as often, as late and with the call it should, and the last call is never lost.
OnSchedule == DeadlinesCounted /\ RateLimited /\ BurstSettled /\ LastCallKept
=============================================================================
