----------------------------- MODULE LogChannel -----------------------------
(***************************************************************************)
(* The record channel (logging.py).  Everything is synchronous, but an     *)
(* exporter or an error handler may itself write, register and dispose     *)
(* while it is called: deliveries nest, and the innermost one is the last  *)
(* frame of `deliveries`.  A record is its sequence number.                *)
(***************************************************************************)
EXTENDS Naturals, Sequences, FiniteSets

CONSTANTS
    Sinks,       \* registrations of an exporter, each made once at most
    Interest,    \* the lowest level each wants
    Levels,      \* severities, an interval of numbers
    Notice,      \* the level of the notice about dropped records
    BufferSize,  \* maxlen of the boot buffer
    MaxRecords,  \* bound: records written
    MaxNesting   \* bound: deliveries inside one another

VARIABLES
    sinks,       \* LoggerService._sinks
    level,       \* the level of each record built; its length is _seq
    threshold,   \* LoggerService._threshold
    parked,      \* the boot buffer
    evicted,     \* LoggerService._dropped: here the records themselves
    replayed,    \* LoggerService._replayed
    deliveries,  \* the deliveries and replays in progress
    got,         \* the records each sink was given, in order
    registered,  \* the sinks whose registration returned and was not disposed
    wanted,      \* who each record was written for, for the properties
    quietly      \* the records written while no delivery was in progress

logVars == <<sinks, level, threshold, parked, evicted, replayed, deliveries, got,
             registered, wanted, quietly>>

Members(s) == {s[i] : i \in DOMAIN s}
\* Level is an enumeration of numbers; an exporter may want any number.
LogConstants ==
    /\ Levels \in SUBSET Nat /\ \E l \in Levels : \A k \in Levels : k <= l
    /\ Notice \in Levels /\ Interest \in [Sinks -> Nat]
    /\ BufferSize \in Nat

Off == 1 + CHOOSE l \in Levels : \A k \in Levels : k <= l
Lowest(S) == CHOOSE l \in S : \A k \in S : l <= k

LogInit ==
    /\ sinks = <<>> /\ level = <<>> /\ threshold = Lowest(Levels)
    /\ parked = <<>> /\ evicted = {} /\ replayed = FALSE
    /\ deliveries = <<>> /\ got = [s \in Sinks |-> <<>>]
    /\ registered = {} /\ wanted = <<>> /\ quietly = {}

\* A frame goes through `jobs`, each a sink and a record for it; it has come to the
\* `next` of them, and `inside` says that this one's exporter has not returned.  The
\* frames of a registration have its sink in `adds`.
Frame(jobs, adds, replay) ==
    [jobs |-> jobs, adds |-> adds, replay |-> replay, next |-> 1, inside |-> FALSE]
Depth == Len(deliveries)
Innermost == deliveries[Depth]

\* Other code runs only while nothing is delivered, or inside an exporter.
MayAct == Depth > 0 => Innermost.inside

\* Mutant: without exporters the channel goes back to buffering.
Reopened(held) ==
    IF held = <<>> THEN Lowest(Levels) ELSE Lowest({Interest[s] : s \in Members(held)})

Recomputed(held) ==
    IF held # <<>> THEN Lowest({Interest[s] : s \in Members(held)})
    ELSE IF replayed THEN Off ELSE Lowest(Levels)

\* deque(maxlen): the oldest goes when the buffer is full.
Parked(r) ==
    IF BufferSize = 0 THEN <<>>
    ELSE IF Len(parked) = BufferSize THEN Append(Tail(parked), r) ELSE Append(parked, r)

Readers(l) == {s \in Members(sinks) : l >= Interest[s]}

\* write: a record below the threshold is not even built; one without readers is
\* parked, and any other goes through the sinks registered now.
Write(l, frames, adds) ==
    LET r == Len(level) + 1
    IN IF l < threshold
       THEN /\ deliveries' = frames
            /\ registered' = registered \cup adds
            /\ UNCHANGED <<level, parked, evicted, wanted, quietly>>
       ELSE /\ level' = Append(level, l)
            /\ wanted' = Append(wanted, Readers(l))
            /\ quietly' = IF frames = <<>> THEN quietly \cup {r} ELSE quietly
            /\ IF sinks = <<>>
               THEN /\ registered' = registered
                    /\ parked' = Parked(r)
                    /\ evicted' = evicted \cup (Members(Append(parked, r)) \ Members(Parked(r)))
                    /\ deliveries' = frames
               ELSE /\ deliveries' = Append(frames,
                           Frame([i \in DOMAIN sinks |-> [sink |-> sinks[i], record |-> r]], adds, FALSE))
                    /\ UNCHANGED <<parked, evicted, registered>>

Log(l) ==
    /\ MayAct /\ Len(level) < MaxRecords /\ Depth < MaxNesting
    /\ Write(l, deliveries, {})
    /\ UNCHANGED <<sinks, threshold, replayed, got>>

Boot(s) == [i \in DOMAIN parked |-> [sink |-> s, record |-> parked[i]]]

\* add_exporter: the first exporter ever gets what was parked for it before the
\* registration returns.
AddExporter(s) ==
    LET held == Append(sinks, s)
    IN /\ MayAct /\ Depth < MaxNesting
       /\ s \notin Members(sinks) \cup registered /\ got[s] = <<>>
       /\ sinks' = held
       /\ threshold' = Recomputed(held)
       /\ replayed' = TRUE
       /\ IF replayed
          THEN /\ registered' = registered \cup {s}
               /\ UNCHANGED <<parked, deliveries>>
          ELSE /\ parked' = <<>>
               /\ deliveries' = Append(deliveries,
                     Frame(Boot(s), {s}, TRUE))
               /\ UNCHANGED registered
       /\ UNCHANGED <<level, evicted, got, wanted, quietly>>

Without(s) ==
    LET k == CHOOSE k \in DOMAIN sinks : sinks[k] = s
    IN IF s \notin Members(sinks) THEN sinks
       ELSE [i \in 1..Len(sinks) - 1 |-> IF i < k THEN sinks[i] ELSE sinks[i + 1]]

\* The disposer of a registration, or its rollback.
RemoveExporter(s) ==
    /\ MayAct /\ s \in registered
    /\ sinks' = Without(s)
    /\ threshold' = Recomputed(sinks')
    /\ registered' = registered \ {s}
    /\ UNCHANGED <<level, parked, evicted, replayed, deliveries, got, wanted, quietly>>

Outer == SubSeq(deliveries, 1, Depth - 1)

Waits == Depth > 0 /\ ~Innermost.inside /\ Innermost.next <= Len(Innermost.jobs)
Job == Innermost.jobs[Innermost.next]
Wants == level[Job.record] >= Interest[Job.sink]
Replace(frame) == deliveries' = Append(Outer, frame)

\* _give: the next exporter is called, whether or not it was removed meanwhile.
Give ==
    /\ Waits /\ Wants
    /\ got' = [got EXCEPT ![Job.sink] = Append(@, Job.record)]
    /\ Replace([Innermost EXCEPT !.inside = TRUE])
    /\ UNCHANGED <<sinks, level, threshold, parked, evicted, replayed, registered, wanted, quietly>>

\* One that does not want the record is passed over.
Skip ==
    /\ Waits /\ ~Wants
    /\ Replace([Innermost EXCEPT !.next = @ + 1])
    /\ UNCHANGED <<sinks, level, threshold, parked, evicted, replayed, got, registered, wanted, quietly>>

\* The exporter returns; or it raises, and is reported.
GiveEnds ==
    /\ Depth > 0 /\ Innermost.inside
    /\ Replace([Innermost EXCEPT !.inside = FALSE, !.next = @ + 1])
    /\ UNCHANGED <<sinks, level, threshold, parked, evicted, replayed, got, registered, wanted, quietly>>

\* An error handler raises: the delivery ends there, and whoever wrote the record
\* hears of it.  A registration that ends so leaves its sink behind: the effect
\* has no disposer yet.
HandlerRaises ==
    /\ Depth > 0 /\ Innermost.inside
    /\ deliveries' = Outer
    /\ wanted' = [r \in DOMAIN wanted |->
          {s \in wanted[r] : \A i \in Innermost.next..Len(Innermost.jobs) :
                               Innermost.jobs[i] # [sink |-> s, record |-> r]}]
    /\ UNCHANGED <<sinks, level, threshold, parked, evicted, replayed, got, registered, quietly>>

\* A delivery is over; at the end of a replay comes the notice about what the
\* buffer lost, and the registration returns.
Delivered ==
    /\ Depth > 0 /\ Innermost.next > Len(Innermost.jobs)
    /\ IF Innermost.replay /\ evicted # {}
       THEN Write(Notice, Outer, Innermost.adds)
       ELSE /\ deliveries' = Outer
            /\ registered' = registered \cup Innermost.adds
            /\ UNCHANGED <<level, parked, evicted, wanted, quietly>>
    /\ UNCHANGED <<sinks, threshold, replayed, got>>

LogNext ==
    \/ \E l \in Levels : Log(l)
    \/ \E s \in Sinks : AddExporter(s) \/ RemoveExporter(s)
    \/ Give \/ Skip \/ GiveEnds \/ HandlerRaises \/ Delivered

LogSpec == LogInit /\ [][LogNext]_logVars

-----------------------------------------------------------------------------
\* Properties

Owed(s, r) ==
    \E f \in Members(deliveries) : \E i \in f.next..Len(f.jobs) :
        f.jobs[i] = [sink |-> s, record |-> r]
Given(s, r) == Cardinality({i \in DOMAIN got[s] : got[s][i] = r})

\* Every exporter registered when a record was written that wants its level gets
\* it, once, or is about to get it, and none is cut off by the threshold; nobody
\* else gets it but the first exporter, for whom it was parked.  No exporter that comes, goes, writes or raises while
\* another is being called changes that (_dispatch, _replay).
EachRecordOnce ==
    /\ \A s \in Members(sinks) : Interest[s] >= threshold
    /\ \A r \in DOMAIN level : \A s \in Sinks :
        /\ Given(s, r) <= 1
        /\ s \in wanted[r] => Given(s, r) = 1 \/ Owed(s, r)
        /\ Given(s, r) = 1 /\ s \notin wanted[r] => r \notin Members(parked) \cup evicted

\* What is parked is read by somebody or counted as dropped: the newest records
\* of the time before the first exporter, and nothing once it has come (_park,
\* _recompute).
ParkedAreNewest ==
    /\ replayed => parked = <<>>
    /\ \A r \in DOMAIN level : sinks = <<>> /\ ~replayed =>
          (r \in Members(parked) <=> r + BufferSize > Len(level))

\* An exporter sees ascending numbers, as far as they are not records written by
\* exporters while they were called: the notice about dropped records comes
\* after the records it is about (_replay, _dispatch).
Ascending ==
    \A s \in Sinks : \A i, j \in DOMAIN got[s] :
        i < j /\ got[s][i] \in quietly /\ got[s][j] \in quietly => got[s][i] < got[s][j]

\* The channel as a whole: nobody registered misses a record or gets one twice, what
\* was written before anybody read is kept as far as the buffer goes, and order holds.
Replayed == EachRecordOnce /\ ParkedAreNewest /\ Ascending
=============================================================================
