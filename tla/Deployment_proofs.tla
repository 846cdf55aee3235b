-------------------------- MODULE Deployment_proofs --------------------------
(***************************************************************************)
(* Proofs about what a deployment is made of: the service of hot reload    *)
(* (Hmr) and what it reads out of the program (ImportGraph), the reports   *)
(* on who waits for whom (Waiting), the fold of patches (Layering) and the *)
(* contexts (Frames), for any number of callers, files, modules,           *)
(* instances, layers, patches and contexts.                                *)
(***************************************************************************)
EXTENDS Frames, Hmr, ImportGraph, Layering, Waiting, FiniteSetTheorems, SequenceTheorems,
        WellFoundedInduction, TLAPS

\* Of a set of numbers one is the least.
Smaller == {p \in Nat \X Nat : p[1] < p[2]}

LEMMA LeastNumber ==
  ASSUME NEW S \in SUBSET Nat, S # {} PROVE \E n \in S : \A k \in S : n <= k
<1>1. IsWellFoundedOn(Smaller, Nat)
  BY NatLessThanWellFounded DEF OpToRel, Smaller
<1>2. PICK n \in S : \A k \in S : <<k, n>> \notin Smaller
  BY <1>1, WFMin
<1>3. ASSUME NEW k \in S PROVE n <= k
  <2>1. n \in Nat /\ k \in Nat /\ ~(k < n)
    BY <1>2 DEF Smaller
  <2> QED BY <2>1
<1> QED BY <1>3

-----------------------------------------------------------------------------
\* Hot reload: no change gets lost.

HmrTypeOK ==
    /\ pending \in SUBSET Changes /\ batch \in SUBSET Changes
    /\ queue \in Seq(Askers)
    /\ asker \in [Askers ->
         [at : {"idle", "waiting", "running", "reimported", "returned", "raised"},
          mine : SUBSET Changes, saw : [Changes -> Nat], report : SUBSET Changes]]
    /\ last \in SUBSET Changes
    /\ disk \in [Changes -> Nat]
    /\ loaded \in [Changes -> Nat] /\ dropped \in [Changes -> Nat]
    /\ stamps \in [Changes -> Nat \cup {Nobody}]

Runs(a) == asker[a].at \in {"running", "reimported"}

\* Who runs has the lock, and who waits is in line for it.
Locked ==
    \A a \in Askers :
      /\ Runs(a) => queue # <<>> /\ Head(queue) = a
      /\ asker[a].at = "waiting" => \E i \in DOMAIN queue : queue[i] = a

\* Nothing runs, was given up or was seen that has not been saved.
Behind ==
    \A c \in Changes :
      /\ loaded[c] <= disk[c] /\ dropped[c] <= disk[c]
      /\ \A a \in Askers : asker[a].saw[c] <= disk[c]
      /\ stamps[c] # Nobody => stamps[c] <= disk[c]

\* What a caller saved of a file is dealt with.
Met(a, c) == loaded[c] >= asker[a].saw[c] \/ dropped[c] >= asker[a].saw[c]

\* A run is about to read the file.
InRun(c) == c \in batch /\ \E b \in Askers : asker[b].at = "running"

\* What is asked for is met, or is going to be; for one that runs, by its own run.
Promised ==
    \A a \in Askers : \A c \in asker[a].mine :
      /\ asker[a].at = "waiting" => Met(a, c) \/ c \in pending \/ InRun(c)
      /\ asker[a].at = "running" => Met(a, c) \/ c \in batch
      /\ asker[a].at \in {"reimported", "returned"} => Met(a, c)

HmrInv == HmrTypeOK /\ Locked /\ Behind /\ Promised /\ Noticed

LEMMA HmrInvInit == ASSUME HmrConstants, HmrInit PROVE HmrInv
<1> USE DEF HmrConstants, HmrInit
<1>1. disk \in [Changes -> Nat] /\ \A c \in Changes : disk[c] = 0
  OBVIOUS
<1>2. PICK w \in Watchers : stamps = Stamps(disk, w)
  OBVIOUS
<1>3. stamps \in [Changes -> Nat \cup {Nobody}]
  BY <1>1, <1>2 DEF Stamps
<1>4. \A a \in Askers : asker[a] = Free
  OBVIOUS
<1>5. HmrTypeOK
  BY <1>1, <1>3 DEF HmrTypeOK, Free
<1>6. Locked /\ Promised
  BY <1>4 DEF Locked, Promised, Free, Runs
<1>7. Behind
  BY <1>1, <1>2, <1>4 DEF Behind, Free, Stamps
<1>8. Noticed
  BY <1>1 DEF Noticed
<1> QED BY <1>5, <1>6, <1>7, <1>8 DEF HmrInv

\* What the type says of one file.
LEMMA HmrValues ==
  ASSUME HmrTypeOK, NEW c \in Changes
  PROVE  /\ disk[c] \in Nat /\ loaded[c] \in Nat /\ dropped[c] \in Nat
         /\ stamps[c] \in Nat \cup {Nobody}
         /\ \A a \in Askers : asker[a].saw[c] \in Nat
BY DEF HmrTypeOK

LEMMA WatchedFiles ==
  ASSUME HmrConstants, NEW w \in Watchers PROVE w \in Askers /\ Watched[w] \subseteq Changes
BY DEF HmrConstants

\* A file is saved: what runs is as old as it was, and every stamp is out of date.
LEMMA SaveKeeps ==
  ASSUME HmrConstants, HmrInv, NEW c \in Changes, Save(c) PROVE HmrInv'
<1> USE DEF HmrInv
<1>1. HmrTypeOK'
  BY DEF HmrTypeOK, Save, service
<1>2. \A d \in Changes : disk'[d] = IF d = c THEN disk[d] + 1 ELSE disk[d]
  BY DEF Save, HmrTypeOK
<1>3. asker' = asker /\ loaded' = loaded /\ dropped' = dropped /\ stamps' = stamps
      /\ pending' = pending /\ batch' = batch /\ queue' = queue
  BY DEF Save, service
<1>4. Locked' /\ Promised'
  BY <1>3 DEF Locked, Promised, Met, InRun, Runs
<1>5. Behind'
  <2> SUFFICES ASSUME NEW d \in Changes
               PROVE  /\ loaded[d] <= disk'[d] /\ dropped[d] <= disk'[d]
                      /\ \A a \in Askers : asker[a].saw[d] <= disk'[d]
                      /\ stamps[d] # Nobody => stamps[d] <= disk'[d]
    BY <1>3 DEF Behind
  <2>1. /\ loaded[d] <= disk[d] /\ dropped[d] <= disk[d]
        /\ \A a \in Askers : asker[a].saw[d] <= disk[d]
        /\ stamps[d] # Nobody => stamps[d] <= disk[d]
    BY DEF Behind
  <2>2. disk[d] \in Nat /\ (disk'[d] = disk[d] \/ disk'[d] = disk[d] + 1)
    BY <1>2, HmrValues
  <2> QED BY <2>1, <2>2, HmrValues
<1>6. Noticed'
  <2> SUFFICES ASSUME NEW w \in Watchers, NEW d \in Watched[w]
               PROVE  \/ loaded[d] = disk'[d] \/ dropped[d] = disk'[d]
                      \/ stamps[d] # disk'[d]
                      \/ d \in pending
                      \/ d \in batch /\ \E a \in Askers : asker[a].at = "running"
    BY <1>3 DEF Noticed
  <2>0. d \in Changes
    BY WatchedFiles
  <2>1. CASE d # c
    BY <2>1, <2>0, <1>2 DEF Noticed
  <2>2. CASE d = c
    <3>1. disk[d] \in Nat /\ disk'[d] = disk[d] + 1
      BY <2>0, <2>2, <1>2, HmrValues
    <3>2. stamps[d] = Nobody \/ (stamps[d] \in Nat /\ stamps[d] <= disk[d])
      BY <2>0, HmrValues DEF Behind
    <3> QED BY <3>1, <3>2 DEF HmrConstants
  <2> QED BY <2>1, <2>2
<1> QED BY <1>1, <1>4, <1>5, <1>6

\* The members of a line that lost one of its places.
LEMMA LineWithout ==
  ASSUME NEW S, NEW q \in Seq(S), NEW i \in 1..Len(q), NEW r, r = RemoveAt(q, i)
  PROVE  /\ r \in Seq(S)
         /\ \A j \in DOMAIN q : q[j] # q[i] => \E k \in DOMAIN r : r[k] = q[j]
         /\ i # 1 => r # <<>> /\ Head(r) = Head(q)
<1>1. RemoveAt(q, i) = SubSeq(q, 1, i - 1) \o SubSeq(q, i + 1, Len(q))
  BY DEF RemoveAt
<1>2. /\ SubSeq(q, 1, i - 1) \in Seq(S) /\ Len(SubSeq(q, 1, i - 1)) = i - 1
      /\ \A k \in 1..i - 1 : SubSeq(q, 1, i - 1)[k] = q[k]
  OBVIOUS
<1>3. /\ SubSeq(q, i + 1, Len(q)) \in Seq(S) /\ Len(SubSeq(q, i + 1, Len(q))) = Len(q) - i
      /\ \A k \in 1..Len(q) - i : SubSeq(q, i + 1, Len(q))[k] = q[i + k]
  OBVIOUS
<1> DEFINE a == SubSeq(q, 1, i - 1)
           b == SubSeq(q, i + 1, Len(q))
<1> HIDE DEF a, b
<1>4. /\ a \in Seq(S) /\ Len(a) = i - 1 /\ \A k \in 1..i - 1 : a[k] = q[k]
      /\ b \in Seq(S) /\ Len(b) = Len(q) - i /\ \A k \in 1..Len(q) - i : b[k] = q[i + k]
  BY <1>2, <1>3 DEF a, b
<1>5. r = a \o b
  BY <1>1 DEF a, b
<1>6. /\ r \in Seq(S) /\ Len(r) = Len(q) - 1
      /\ \A k \in 1..Len(q) - 1 : r[k] = IF k <= i - 1 THEN q[k] ELSE q[k + 1]
  <2>1. Len(q) \in Nat /\ i \in Nat /\ i >= 1 /\ i <= Len(q)
    OBVIOUS
  <2>2. r \in Seq(S) /\ Len(r) = Len(a) + Len(b)
    BY <1>4, <1>5, ConcatProperties
  <2>3. \A k \in 1..Len(a) + Len(b) : r[k] = IF k <= Len(a) THEN a[k] ELSE b[k - Len(a)]
    BY <1>4, <1>5, ConcatProperties
  <2>4. ASSUME NEW k \in 1..Len(q) - 1
        PROVE  r[k] = IF k <= i - 1 THEN q[k] ELSE q[k + 1]
    <3>0. k \in 1..Len(a) + Len(b) /\ Len(a) = i - 1
      BY <2>1, <1>4
    <3>1. CASE k <= i - 1
      <4>1. k \in 1..i - 1
        BY <3>1, <2>1
      <4>2. r[k] = a[k] /\ a[k] = q[k]
        BY <3>0, <3>1, <4>1, <2>3, <1>4
      <4> QED BY <3>1, <4>2
    <3>2. CASE ~(k <= i - 1)
      <4>1. k - Len(a) \in 1..Len(q) - i /\ i + (k - Len(a)) = k + 1
        BY <3>2, <2>1, <1>4
      <4>2. r[k] = b[k - Len(a)]
        BY <3>0, <3>2, <2>3
      <4>3. b[k - Len(a)] = q[i + (k - Len(a))]
        BY <4>1, <1>4
      <4> QED BY <3>2, <4>1, <4>2, <4>3
    <3> QED BY <3>1, <3>2
  <2> QED BY <2>1, <2>2, <2>4, <1>4
<1>7. ASSUME NEW j \in DOMAIN q, q[j] # q[i] PROVE \E k \in DOMAIN r : r[k] = q[j]
  <2>1. CASE j < i
    BY <2>1, <1>6
  <2>2. CASE j > i
    <3>1. j - 1 \in 1..Len(r) /\ r[j - 1] = q[j]
      BY <2>2, <1>6
    <3> QED BY <3>1, <1>6
  <2> QED BY <2>1, <2>2, <1>7
<1>8. ASSUME i # 1 PROVE r # <<>> /\ Head(r) = Head(q)
  BY <1>6, <1>8
<1> QED BY <1>6, <1>7, <1>8

\* The head of the line leaves it.
LEMMA LineShorter ==
  ASSUME NEW S, NEW q \in Seq(S), q # <<>>
  PROVE  /\ Tail(q) \in Seq(S)
         /\ \A j \in DOMAIN q : q[j] # Head(q) => \E k \in DOMAIN Tail(q) : Tail(q)[k] = q[j]
<1>1. /\ Tail(q) \in Seq(S) /\ Len(Tail(q)) = Len(q) - 1 /\ Len(q) \in Nat
      /\ \A k \in 1..Len(q) - 1 : Tail(q)[k] = q[k + 1]
  OBVIOUS
<1>2. ASSUME NEW j \in DOMAIN q, q[j] # Head(q)
      PROVE  \E k \in DOMAIN Tail(q) : Tail(q)[k] = q[j]
  <2>1. j # 1 /\ j \in 1..Len(q)
    BY <1>2
  <2>2. j - 1 \in 1..Len(q) - 1 /\ (j - 1) + 1 = j
    BY <2>1, <1>1
  <2>3. j - 1 \in DOMAIN Tail(q) /\ Tail(q)[j - 1] = q[j]
    BY <2>2, <1>1
  <2> QED BY <2>3
<1> QED BY <1>1, <1>2

\* Somebody joins it.
LEMMA CallerJoins ==
  ASSUME queue \in Seq(Askers), NEW a \in Askers
  PROVE  /\ Append(queue, a) \in Seq(Askers) /\ Append(queue, a) # <<>>
         /\ queue # <<>> => Head(Append(queue, a)) = Head(queue)
         /\ \A j \in DOMAIN queue : \E k \in DOMAIN Append(queue, a) : Append(queue, a)[k] = queue[j]
         /\ \E k \in DOMAIN Append(queue, a) : Append(queue, a)[k] = a
<1>1. /\ Append(queue, a) \in Seq(Askers) /\ Len(Append(queue, a)) = Len(queue) + 1 /\ Len(queue) \in Nat
      /\ \A k \in 1..Len(queue) : Append(queue, a)[k] = queue[k]
      /\ Append(queue, a)[Len(queue) + 1] = a
  OBVIOUS
<1>2. DOMAIN queue = 1..Len(queue) /\ DOMAIN Append(queue, a) = 1..Len(queue) + 1
  BY <1>1
<1>3. Append(queue, a) # <<>> /\ (queue # <<>> => Head(Append(queue, a)) = Head(queue))
  <2>1. Append(queue, a) # <<>> /\ Head(Append(queue, a)) = Append(queue, a)[1]
    BY <1>1
  <2>2. queue # <<>> => 1 \in 1..Len(queue) /\ Head(queue) = queue[1]
    OBVIOUS
  <2> QED BY <1>1, <2>1, <2>2
<1>4. \A j \in DOMAIN queue : j \in DOMAIN Append(queue, a) /\ Append(queue, a)[j] = queue[j]
  BY <1>1, <1>2
<1>5. Len(queue) + 1 \in DOMAIN Append(queue, a)
  BY <1>1, <1>2
<1> QED BY <1>1, <1>3, <1>4, <1>5

\* Only the head of the line runs.
LEMMA OneRun ==
  ASSUME Locked, NEW a \in Askers, NEW b \in Askers, Runs(b), queue # <<>>, Head(queue) = a
  PROVE  b = a
BY DEF Locked

\* A call of reload(): what it asks for is pending, and it asks for what was saved.
LEMMA ReloadKeeps ==
  ASSUME HmrConstants, HmrInv, NEW a \in Askers, NEW mine \in SUBSET Changes,
         asker[a].at \in {"idle", "returned", "raised"}, Reload(a, mine),
         UNCHANGED <<disk, loaded, dropped>>
  PROVE  /\ Locked' /\ Promised'
         /\ pending' = pending \cup mine /\ batch' = batch
         /\ stamps' \in [Changes -> Nat \cup {Nobody}] => HmrTypeOK'
         /\ \A b \in Askers : b # a => asker'[b] = asker[b]
         /\ asker'[a].saw = disk /\ asker'[a].at = "waiting"
         /\ (\E b \in Askers : asker[b].at = "running") =>
              \E b \in Askers : asker'[b].at = "running"
<1> USE DEF HmrInv
<1>1. /\ pending' = pending \cup mine /\ batch' = batch /\ last' = last
      /\ queue' = Append(queue, a)
      /\ asker' = [asker EXCEPT ![a] = [at |-> "waiting", mine |-> mine, saw |-> disk,
                                       report |-> {}]]
      /\ disk' = disk /\ loaded' = loaded /\ dropped' = dropped
  BY DEF Reload, Joined
<1>2. /\ asker'[a] = [at |-> "waiting", mine |-> mine, saw |-> disk, report |-> {}]
      /\ \A b \in Askers : b # a => asker'[b] = asker[b]
  BY <1>1 DEF HmrTypeOK
<1>3. ASSUME stamps' \in [Changes -> Nat \cup {Nobody}] PROVE HmrTypeOK'
  BY <1>1, <1>3 DEF HmrTypeOK
<1>4. queue \in Seq(Askers)
  BY DEF HmrTypeOK
<1>5. Locked'
  <2> DEFINE line == Append(queue, a)
  <2>1. /\ line # <<>> /\ (queue # <<>> => Head(line) = Head(queue))
        /\ \A j \in DOMAIN queue : \E k \in DOMAIN line : line[k] = queue[j]
        /\ \E k \in DOMAIN line : line[k] = a
    BY <1>4, CallerJoins DEF line
  <2> HIDE DEF line
  <2>2. queue' = line
    BY <1>1 DEF line
  <2> SUFFICES ASSUME NEW b \in Askers
               PROVE  /\ Runs(b)' => line # <<>> /\ Head(line) = b
                      /\ asker'[b].at = "waiting" => \E i \in DOMAIN line : line[i] = b
    BY <2>2 DEF Locked
  <2>3. CASE b = a
    BY <2>1, <2>3, <1>2 DEF Runs
  <2>4. CASE b # a
    <3>1. /\ Runs(b)' => queue # <<>> /\ Head(queue) = b
          /\ asker'[b].at = "waiting" => \E i \in DOMAIN queue : queue[i] = b
      BY <2>4, <1>2 DEF Runs, Locked
    <3> QED BY <3>1, <2>1
  <2> QED BY <2>3, <2>4
<1>6. \A b \in Askers : asker[b].at = "running" => asker'[b].at = "running"
  BY <1>2
<1>7. Promised'
  <2> SUFFICES ASSUME NEW b \in Askers, NEW c \in asker'[b].mine
               PROVE  /\ asker'[b].at = "waiting" => Met(b, c)' \/ c \in pending' \/ InRun(c)'
                      /\ asker'[b].at = "running" => Met(b, c)' \/ c \in batch'
                      /\ asker'[b].at \in {"reimported", "returned"} => Met(b, c)'
    BY DEF Promised
  <2>1. CASE b = a
    BY <2>1, <1>1, <1>2
  <2>2. CASE b # a
    <3>1. Met(b, c)' = Met(b, c)
      BY <2>2, <1>1, <1>2 DEF Met
    <3>2. InRun(c) => InRun(c)'
      BY <1>1, <1>6 DEF InRun
    <3> QED BY <2>2, <1>1, <1>2, <3>1, <3>2 DEF Promised
  <2> QED BY <2>1, <2>2
<1> QED BY <1>1, <1>2, <1>3, <1>5, <1>6, <1>7

LEMMA AskKeeps ==
  ASSUME HmrConstants, HmrInv, NEW a \in Askers, NEW mine \in SUBSET Changes, Ask(a, mine)
  PROVE  HmrInv'
<1> USE DEF HmrInv
<1>1. /\ Locked' /\ Promised' /\ HmrTypeOK'
      /\ pending' = pending \cup mine /\ batch' = batch
      /\ \A b \in Askers : b # a => asker'[b] = asker[b]
      /\ asker'[a].saw = disk
      /\ (\E b \in Askers : asker[b].at = "running") => \E b \in Askers : asker'[b].at = "running"
  BY ReloadKeeps DEF Ask, HmrTypeOK
<1>2. disk' = disk /\ loaded' = loaded /\ dropped' = dropped /\ stamps' = stamps
  BY DEF Ask
<1>3. Behind'
  BY <1>1, <1>2, HmrValues DEF Behind
<1>4. Noticed'
  BY <1>1, <1>2 DEF Noticed
<1> QED BY <1>1, <1>3, <1>4

\* A poll: the new stamps tell nobody of a file the old ones told of, but then its
\* change is pending.
LEMMA PollKeeps ==
  ASSUME HmrConstants, HmrInv, NEW w \in Watchers, Poll(w) PROVE HmrInv'
<1> USE DEF HmrInv
<1> DEFINE changed == {c \in Watched[w] : stamps[c] # disk[c]}
<1>1. w \in Askers /\ changed \in SUBSET Changes
  BY WatchedFiles
<1>2. /\ asker[w].at \in {"idle", "returned", "raised"}
      /\ stamps' = Stamps(disk, w)
      /\ disk' = disk /\ loaded' = loaded /\ dropped' = dropped
      /\ IF changed = {} THEN UNCHANGED service ELSE Reload(w, changed)
  BY DEF Poll
<1> HIDE DEF changed
<1>3. stamps' \in [Changes -> Nat \cup {Nobody}]
  BY <1>2, HmrValues DEF Stamps
<1>4. /\ Locked' /\ Promised' /\ HmrTypeOK'
      /\ pending' = pending \cup changed /\ batch' = batch
      /\ \A b \in Askers : asker'[b] = asker[b] \/ asker'[b].saw = disk
      /\ (\E b \in Askers : asker[b].at = "running") => \E b \in Askers : asker'[b].at = "running"
  <2>1. CASE changed = {}
    <3>1. pending' = pending /\ queue' = queue /\ batch' = batch /\ last' = last /\ asker' = asker
      BY <2>1, <1>2 DEF service
    <3>2. HmrTypeOK'
      BY <3>1, <1>2, <1>3 DEF HmrTypeOK
    <3>3. Locked' /\ Promised'
      BY <3>1, <1>2 DEF Locked, Promised, Met, InRun, Runs
    <3> QED BY <2>1, <3>1, <3>2, <3>3
  <2>2. CASE changed # {}
    <3>1. Reload(w, changed)
      BY <2>2, <1>2
    <3> QED BY <3>1, <1>1, <1>2, <1>3, ReloadKeeps
  <2> QED BY <2>1, <2>2
<1>5. Behind'
  <2> SUFFICES ASSUME NEW c \in Changes
               PROVE  /\ loaded[c] <= disk[c] /\ dropped[c] <= disk[c]
                      /\ \A a \in Askers : asker'[a].saw[c] <= disk[c]
                      /\ stamps'[c] # Nobody => stamps'[c] <= disk[c]
    BY <1>2 DEF Behind
  <2>1. stamps'[c] = disk[c] \/ stamps'[c] = Nobody
    BY <1>2 DEF Stamps
  <2>2. disk[c] \in Nat
    BY HmrValues
  <2> QED BY <1>4, <2>1, <2>2 DEF Behind
<1>6. Noticed'
  <2> SUFFICES ASSUME NEW v \in Watchers, NEW c \in Watched[v]
               PROVE  \/ loaded[c] = disk[c] \/ dropped[c] = disk[c]
                      \/ stamps'[c] # disk[c]
                      \/ c \in pending'
                      \/ c \in batch' /\ \E a \in Askers : asker'[a].at = "running"
    BY <1>2 DEF Noticed
  <2>1. c \in Changes /\ disk[c] \in Nat
    BY WatchedFiles, HmrValues
  <2>2. CASE c \notin Watched[w]
    <3>1. stamps'[c] = Nobody
      BY <2>1, <2>2, <1>2 DEF Stamps
    <3> QED BY <2>1, <3>1 DEF HmrConstants
  <2>3. CASE c \in Watched[w] /\ stamps[c] # disk[c]
    BY <2>3, <1>4 DEF changed
  <2>4. CASE stamps[c] = disk[c]
    BY <2>4, <1>4 DEF Noticed
  <2> QED BY <2>2, <2>3, <2>4
<1> QED BY <1>4, <1>5, <1>6

\* How a caller leaves the line or goes on in it: whoever else waits still does.
LEMMA CallerGoesOn ==
  ASSUME HmrInv, NEW a \in Askers, NEW how,
         how \in {"running", "reimported", "returned", "raised"},
         asker'[a].at = how, \A b \in Askers : b # a => asker'[b] = asker[b],
         \/ Runs(a) \/ (asker[a].at = "waiting" /\ queue # <<>> /\ Head(queue) = a),
         queue' = IF how \in {"returned", "raised"} THEN Tail(queue) ELSE queue
  PROVE  /\ Locked' /\ queue' \in Seq(Askers)
         /\ \A b \in Askers : b # a => ~Runs(b) /\ asker'[b].at \notin {"running", "reimported"}
<1> USE DEF HmrInv
<1>1. queue \in Seq(Askers) /\ queue # <<>> /\ Head(queue) = a
  BY DEF HmrTypeOK, Locked
<1>2. \A b \in Askers : b # a => ~Runs(b)
  BY <1>1 DEF Locked
<1>3. /\ Tail(queue) \in Seq(Askers)
      /\ \A j \in DOMAIN queue : queue[j] # a => \E k \in DOMAIN Tail(queue) : Tail(queue)[k] = queue[j]
  BY <1>1, LineShorter
<1>4. ASSUME NEW b \in Askers, b # a
      PROVE  ~Runs(b)' /\ (asker'[b].at = "waiting" => \E i \in DOMAIN queue' : queue'[i] = b)
  <2>1. asker'[b] = asker[b] /\ ~Runs(b)
    BY <1>4, <1>2
  <2>2. ASSUME asker[b].at = "waiting" PROVE \E i \in DOMAIN queue' : queue'[i] = b
    <3>1. PICK i \in DOMAIN queue : queue[i] = b
      BY <2>2 DEF Locked
    <3>2. CASE how \in {"returned", "raised"}
      BY <3>1, <3>2, <1>3, <1>4
    <3>3. CASE how \notin {"returned", "raised"}
      BY <3>1, <3>3
    <3> QED BY <3>2, <3>3
  <2> QED BY <2>1, <2>2 DEF Runs
<1>5. /\ Runs(a)' => queue' # <<>> /\ Head(queue') = a
      /\ asker'[a].at # "waiting"
  BY <1>1 DEF Runs
<1>6. Locked'
  BY <1>4, <1>5 DEF Locked
<1> QED BY <1>2, <1>3, <1>4, <1>6, <1>1 DEF Runs

\* What a change of `at` and of `report` alone leaves of a caller.
LEMMA ReturnsFacts ==
  ASSUME HmrTypeOK, NEW a \in Askers, NEW how, NEW report \in SUBSET Changes,
         how \in {"idle", "waiting", "running", "reimported", "returned", "raised"},
         \/ asker' = Returns(a, how, report)
         \/ asker' = [asker EXCEPT ![a].at = how]
  PROVE  /\ asker' \in [Askers ->
              [at : {"idle", "waiting", "running", "reimported", "returned", "raised"},
               mine : SUBSET Changes, saw : [Changes -> Nat], report : SUBSET Changes]]
         /\ asker'[a].at = how
         /\ \A b \in Askers : /\ asker'[b].mine = asker[b].mine /\ asker'[b].saw = asker[b].saw
                              /\ b # a => asker'[b] = asker[b]
<1> DEFINE Kinds == {"idle", "waiting", "running", "reimported", "returned", "raised"}
           R == [at : Kinds, mine : SUBSET Changes, saw : [Changes -> Nat], report : SUBSET Changes]
<1>1. asker \in [Askers -> R] /\ asker[a] \in R
  BY DEF HmrTypeOK
<1>2. ASSUME NEW r \in R, asker' = [asker EXCEPT ![a] = r],
             r.at = how, r.mine = asker[a].mine, r.saw = asker[a].saw
      PROVE  /\ asker' \in [Askers -> R] /\ asker'[a].at = how
             /\ \A b \in Askers : /\ asker'[b].mine = asker[b].mine /\ asker'[b].saw = asker[b].saw
                                  /\ b # a => asker'[b] = asker[b]
  <2> HIDE DEF R
  <2> QED BY <1>1, <1>2
<1>3. CASE asker' = Returns(a, how, report)
  <2> DEFINE r == [[asker[a] EXCEPT !.at = how] EXCEPT !.report = report]
  <2>1. r \in R /\ r.at = how /\ r.mine = asker[a].mine /\ r.saw = asker[a].saw
    BY <1>1
  <2>2. asker' = [asker EXCEPT ![a] = r]
    BY <1>1, <1>3 DEF Returns
  <2> QED BY <2>1, <2>2, <1>2
<1>4. CASE asker' = [asker EXCEPT ![a].at = how]
  <2> DEFINE r == [asker[a] EXCEPT !.at = how]
  <2>1. r \in R /\ r.at = how /\ r.mine = asker[a].mine /\ r.saw = asker[a].saw
    BY <1>1
  <2>2. asker' = [asker EXCEPT ![a] = r]
    BY <1>4
  <2> QED BY <2>1, <2>2, <1>2
<1> QED BY <1>3, <1>4

\* The head of the line finds its changes gone: nobody runs, so they are met.
LEMMA CarriedKeeps ==
  ASSUME HmrConstants, HmrInv, NEW a \in Askers, Carried(a) PROVE HmrInv'
<1> USE DEF HmrInv
<1>1. /\ queue # <<>> /\ Head(queue) = a /\ asker[a].at = "waiting"
      /\ asker[a].mine \cap pending = {}
      /\ asker' = Returns(a, "returned", last) /\ queue' = Tail(queue)
      /\ pending' = pending /\ batch' = batch /\ last' = last
      /\ disk' = disk /\ loaded' = loaded /\ dropped' = dropped /\ stamps' = stamps
  BY DEF Carried
<1>2. /\ asker'[a].at = "returned"
      /\ \A b \in Askers : /\ asker'[b].mine = asker[b].mine /\ asker'[b].saw = asker[b].saw
                           /\ b # a => asker'[b] = asker[b]
      /\ asker' \in [Askers ->
              [at : {"idle", "waiting", "running", "reimported", "returned", "raised"},
               mine : SUBSET Changes, saw : [Changes -> Nat], report : SUBSET Changes]]
  BY <1>1, ReturnsFacts DEF HmrTypeOK
<1>3. /\ Locked' /\ queue' \in Seq(Askers)
      /\ \A b \in Askers : b # a => ~Runs(b) /\ asker'[b].at \notin {"running", "reimported"}
  BY <1>1, <1>2, CallerGoesOn
<1>4. \A b \in Askers : asker[b].at # "running" /\ asker'[b].at # "running"
  BY <1>1, <1>2, <1>3 DEF Runs
<1>5. HmrTypeOK'
  BY <1>1, <1>2, <1>3 DEF HmrTypeOK
<1>6. Behind'
  BY <1>1, <1>2 DEF Behind
<1>7. Promised'
  <2> SUFFICES ASSUME NEW b \in Askers, NEW c \in asker[b].mine
               PROVE  /\ asker'[b].at = "waiting" => Met(b, c) \/ c \in pending
                      /\ asker'[b].at = "running" => Met(b, c) \/ c \in batch
                      /\ asker'[b].at \in {"reimported", "returned"} => Met(b, c)
    BY <1>1, <1>2 DEF Promised, Met
  <2> QED BY <1>1, <1>2, <1>4 DEF Promised, InRun
<1>8. Noticed'
  BY <1>1, <1>4 DEF Noticed
<1> QED BY <1>5, <1>3, <1>6, <1>7, <1>8

\* One that waits gives up, wherever in the line it is.
LEMMA GiveUpKeeps ==
  ASSUME HmrConstants, HmrInv, NEW a \in Askers, GiveUp(a) PROVE HmrInv'
<1> USE DEF HmrInv
<1> DEFINE at == CHOOSE i \in DOMAIN queue : queue[i] = a
           rest == RemoveAt(queue, at)
<1>1. /\ asker[a].at = "waiting"
      /\ asker' = Returns(a, "raised", {}) /\ queue' = rest
      /\ pending' = pending /\ batch' = batch /\ last' = last
      /\ disk' = disk /\ loaded' = loaded /\ dropped' = dropped /\ stamps' = stamps
  BY DEF GiveUp
<1>2. /\ asker'[a].at = "raised"
      /\ \A b \in Askers : /\ asker'[b].mine = asker[b].mine /\ asker'[b].saw = asker[b].saw
                           /\ b # a => asker'[b] = asker[b]
      /\ asker' \in [Askers ->
              [at : {"idle", "waiting", "running", "reimported", "returned", "raised"},
               mine : SUBSET Changes, saw : [Changes -> Nat], report : SUBSET Changes]]
  BY <1>1, ReturnsFacts
<1>3. queue \in Seq(Askers) /\ at \in 1..Len(queue) /\ queue[at] = a
  <2>1. queue \in Seq(Askers) /\ \E i \in DOMAIN queue : queue[i] = a
    BY <1>1 DEF HmrTypeOK, Locked
  <2> QED BY <2>1
<1> HIDE DEF at
<1>4. /\ rest \in Seq(Askers)
      /\ \A j \in DOMAIN queue : queue[j] # a => \E k \in DOMAIN rest : rest[k] = queue[j]
      /\ at # 1 => rest # <<>> /\ Head(rest) = Head(queue)
  BY <1>3, LineWithout
<1> HIDE DEF rest
<1>5. Locked'
  <2> SUFFICES ASSUME NEW b \in Askers
               PROVE  /\ Runs(b)' => rest # <<>> /\ Head(rest) = b
                      /\ asker'[b].at = "waiting" => \E i \in DOMAIN rest : rest[i] = b
    BY <1>1 DEF Locked
  <2>1. CASE b = a
    BY <2>1, <1>2 DEF Runs
  <2>2. CASE b # a
    <3>1. Runs(b)' => Runs(b) /\ queue # <<>> /\ Head(queue) = b
      BY <2>2, <1>2 DEF Runs, Locked
    <3>2. Runs(b)' => at # 1
      BY <3>1, <2>2, <1>3
    <3>3. asker'[b].at = "waiting" => \E i \in DOMAIN queue : queue[i] = b
      BY <2>2, <1>2 DEF Locked
    <3> QED BY <3>1, <3>2, <3>3, <2>2, <1>4
  <2> QED BY <2>1, <2>2
<1>6. HmrTypeOK'
  BY <1>1, <1>2, <1>4 DEF HmrTypeOK
<1>7. Behind'
  BY <1>1, <1>2 DEF Behind
<1>8. \A b \in Askers : asker[b].at = "running" => asker'[b].at = "running"
  BY <1>1, <1>2
<1>9. Promised'
  <2> SUFFICES ASSUME NEW b \in Askers, NEW c \in asker[b].mine
               PROVE  /\ asker'[b].at = "waiting" => Met(b, c) \/ c \in pending \/ InRun(c)'
                      /\ asker'[b].at = "running" => Met(b, c) \/ c \in batch
                      /\ asker'[b].at \in {"reimported", "returned"} => Met(b, c)
    BY <1>1, <1>2 DEF Promised, Met
  <2> QED BY <1>1, <1>2, <1>8 DEF Promised, InRun
<1>10. Noticed'
  BY <1>1, <1>8 DEF Noticed
<1> QED BY <1>5, <1>6, <1>7, <1>9, <1>10

\* A run takes all that is pending; there was none before it.
LEMMA RunStartsKeeps ==
  ASSUME HmrConstants, HmrInv, NEW a \in Askers, RunStarts(a) PROVE HmrInv'
<1> USE DEF HmrInv
<1>1. /\ queue # <<>> /\ Head(queue) = a /\ asker[a].at = "waiting"
      /\ asker' = [asker EXCEPT ![a].at = "running"] /\ queue' = queue
      /\ pending' = {} /\ batch' = pending /\ last' = last
      /\ disk' = disk /\ loaded' = loaded /\ dropped' = dropped /\ stamps' = stamps
  BY DEF RunStarts
<1>2. /\ asker'[a].at = "running"
      /\ \A b \in Askers : /\ asker'[b].mine = asker[b].mine /\ asker'[b].saw = asker[b].saw
                           /\ b # a => asker'[b] = asker[b]
      /\ asker' \in [Askers ->
              [at : {"idle", "waiting", "running", "reimported", "returned", "raised"},
               mine : SUBSET Changes, saw : [Changes -> Nat], report : SUBSET Changes]]
  BY <1>1, ReturnsFacts
<1>3. /\ Locked' /\ queue' \in Seq(Askers)
      /\ \A b \in Askers : b # a => ~Runs(b) /\ asker'[b].at \notin {"running", "reimported"}
  BY <1>1, <1>2, CallerGoesOn
<1>4. \A b \in Askers : asker[b].at # "running"
  BY <1>1, <1>3 DEF Runs
<1>5. HmrTypeOK'
  BY <1>1, <1>2, <1>3 DEF HmrTypeOK
<1>6. Behind'
  BY <1>1, <1>2 DEF Behind
<1>7. Promised'
  <2> SUFFICES ASSUME NEW b \in Askers, NEW c \in asker[b].mine
               PROVE  /\ asker'[b].at = "waiting" => Met(b, c) \/ InRun(c)'
                      /\ asker'[b].at = "running" => Met(b, c) \/ c \in pending
                      /\ asker'[b].at \in {"reimported", "returned"} => Met(b, c)
    BY <1>1, <1>2 DEF Promised, Met
  <2>1. ~InRun(c) /\ (c \in pending => InRun(c)')
    BY <1>1, <1>2, <1>4 DEF InRun
  <2> QED BY <1>1, <1>2, <1>3, <2>1 DEF Promised, Runs
<1>8. Noticed'
  BY <1>1, <1>2, <1>4 DEF Noticed
<1> QED BY <1>3, <1>5, <1>6, <1>7, <1>8

\* What a run reads, or was to read, is as new as anything that was asked for.
LEMMA ReadKeeps ==
  ASSUME HmrConstants, HmrInv, NEW a \in Askers, asker[a].at = "running",
         NEW how \in {"reimported", "raised"},
         \A b \in Askers : /\ asker'[b].mine = asker[b].mine /\ asker'[b].saw = asker[b].saw
                           /\ b # a => asker'[b] = asker[b] /\ ~Runs(b),
         asker'[a].at = how,
         disk' = disk, stamps' = stamps, pending' = pending, batch' \in SUBSET Changes,
         \/ /\ loaded' = [c \in Changes |-> IF c \in batch THEN disk[c] ELSE loaded[c]]
            /\ dropped' = dropped
         \/ dropped' = Lost /\ loaded' = loaded
  PROVE  /\ Behind' /\ Promised' /\ Noticed'
         /\ loaded' \in [Changes -> Nat] /\ dropped' \in [Changes -> Nat]
<1> USE DEF HmrInv
<1>1. \A c \in Changes :
        /\ c \notin batch => loaded'[c] = loaded[c] /\ dropped'[c] = dropped[c]
        /\ c \in batch => \/ loaded'[c] = disk[c] /\ dropped'[c] = dropped[c]
                          \/ loaded'[c] = loaded[c] /\ dropped'[c] = disk[c]
  BY HmrValues DEF Lost
<1>2. loaded' \in [Changes -> Nat] /\ dropped' \in [Changes -> Nat]
  BY HmrValues DEF Lost, HmrTypeOK
<1>3. Behind'
  <2> SUFFICES ASSUME NEW c \in Changes PROVE loaded'[c] <= disk[c] /\ dropped'[c] <= disk[c]
    BY DEF Behind
  <2>1. loaded[c] <= disk[c] /\ dropped[c] <= disk[c] /\ disk[c] \in Nat
    BY HmrValues DEF Behind
  <2> QED BY <1>1, <2>1
<1>4. ASSUME NEW b \in Askers, NEW c \in Changes
      PROVE  /\ Met(b, c) => Met(b, c)'
             /\ c \in batch => Met(b, c)'
  <2>1. /\ disk[c] \in Nat /\ loaded[c] \in Nat /\ dropped[c] \in Nat /\ asker[b].saw[c] \in Nat
        /\ loaded[c] <= disk[c] /\ dropped[c] <= disk[c] /\ asker[b].saw[c] <= disk[c]
    BY HmrValues DEF Behind
  <2>2. asker'[b].saw = asker[b].saw
    OBVIOUS
  <2> QED BY <1>1, <2>1, <2>2 DEF Met
<1>5. Promised'
  <2> SUFFICES ASSUME NEW b \in Askers, NEW c \in asker[b].mine
               PROVE  /\ asker'[b].at = "waiting" => Met(b, c)' \/ c \in pending
                      /\ asker'[b].at # "running"
                      /\ asker'[b].at \in {"reimported", "returned"} => Met(b, c)'
    BY DEF Promised
  <2>1. c \in Changes
    BY DEF HmrTypeOK
  <2>2. CASE b = a
    <3>1. Met(a, c) \/ c \in batch
      BY <2>2 DEF Promised
    <3> QED BY <2>1, <2>2, <3>1, <1>4
  <2>3. CASE b # a
    <3>1. asker'[b] = asker[b] /\ ~Runs(b)
      BY <2>3
    <3> QED BY <2>1, <3>1, <1>4 DEF Promised, InRun, Runs
  <2> QED BY <2>2, <2>3
<1>6. Noticed'
  <2> SUFFICES ASSUME NEW w \in Watchers, NEW c \in Watched[w]
               PROVE  \/ loaded'[c] = disk[c] \/ dropped'[c] = disk[c]
                      \/ stamps[c] # disk[c]
                      \/ c \in pending
    BY DEF Noticed
  <2>1. c \in Changes
    BY WatchedFiles
  <2>2. \/ loaded[c] = disk[c] \/ dropped[c] = disk[c]
        \/ stamps[c] # disk[c]
        \/ c \in pending
        \/ c \in batch
    BY DEF Noticed
  <2>3. /\ loaded[c] = disk[c] => loaded'[c] = disk[c]\/ dropped'[c] = disk[c]
        /\ dropped[c] = disk[c] => loaded'[c] = disk[c]\/ dropped'[c] = disk[c]
        /\ c \in batch => loaded'[c] = disk[c]\/ dropped'[c] = disk[c]
    BY <2>1, <1>1
  <2> QED BY <2>2, <2>3
<1> QED BY <1>2, <1>3, <1>5, <1>6

LEMMA ReimportKeeps ==
  ASSUME HmrConstants, HmrInv, NEW a \in Askers, Reimport(a) \/ Refuse(a) PROVE HmrInv'
<1> USE DEF HmrInv
<1>1. /\ asker[a].at = "running"
      /\ asker' = [asker EXCEPT ![a].at = "reimported"] /\ queue' = queue
      /\ pending' = pending /\ batch' = batch /\ last' = last
      /\ disk' = disk /\ stamps' = stamps
      /\ \/ /\ loaded' = [c \in Changes |-> IF c \in batch THEN disk[c] ELSE loaded[c]]
            /\ dropped' = dropped
         \/ dropped' = Lost /\ loaded' = loaded
  BY DEF Reimport, Refuse
<1>2. /\ asker'[a].at = "reimported"
      /\ \A b \in Askers : /\ asker'[b].mine = asker[b].mine /\ asker'[b].saw = asker[b].saw
                           /\ b # a => asker'[b] = asker[b]
      /\ asker' \in [Askers ->
              [at : {"idle", "waiting", "running", "reimported", "returned", "raised"},
               mine : SUBSET Changes, saw : [Changes -> Nat], report : SUBSET Changes]]
  BY <1>1, ReturnsFacts DEF HmrTypeOK
<1>3. /\ Locked' /\ queue' \in Seq(Askers)
      /\ \A b \in Askers : b # a => ~Runs(b) /\ asker'[b].at \notin {"running", "reimported"}
  BY <1>1, <1>2, CallerGoesOn DEF Runs
<1>4. /\ Behind' /\ Promised' /\ Noticed'
      /\ loaded' \in [Changes -> Nat] /\ dropped' \in [Changes -> Nat]
  <2>1. batch' \in SUBSET Changes
    BY <1>1 DEF HmrTypeOK
  <2> QED BY <1>1, <1>2, <1>3, <2>1, ReadKeeps
<1>5. HmrTypeOK'
  BY <1>1, <1>2, <1>3, <1>4 DEF HmrTypeOK
<1> QED BY <1>3, <1>4, <1>5

\* A run that is over: its own callers' changes are met, and others' that it carried.
LEMMA RunEndsKeeps ==
  ASSUME HmrConstants, HmrInv, NEW a \in Askers, RunEnds(a) \/ RunRaises(a) PROVE HmrInv'
<1> USE DEF HmrInv
<1> DEFINE how == asker'[a].at
<1>1. /\ Runs(a)
      /\ \/ asker[a].at = "reimported" /\ asker' = Returns(a, "returned", batch)
         \/ asker' = Returns(a, "raised", {})
      /\ queue' = Tail(queue)
      /\ pending' = pending /\ batch' = {} /\ last' \in {last, batch}
      /\ disk' = disk /\ stamps' = stamps /\ loaded' = loaded
  BY DEF RunEnds, RunRaises, Runs
<1>2. /\ how \in {"returned", "raised"}
      /\ asker[a].at # "reimported" => how = "raised"
      /\ \A b \in Askers : /\ asker'[b].mine = asker[b].mine /\ asker'[b].saw = asker[b].saw
                           /\ b # a => asker'[b] = asker[b]
      /\ asker' \in [Askers ->
              [at : {"idle", "waiting", "running", "reimported", "returned", "raised"},
               mine : SUBSET Changes, saw : [Changes -> Nat], report : SUBSET Changes]]
  BY <1>1, ReturnsFacts DEF HmrTypeOK
<1> HIDE DEF how
<1>3. /\ Locked' /\ queue' \in Seq(Askers)
      /\ \A b \in Askers : b # a => ~Runs(b) /\ asker'[b].at \notin {"running", "reimported"}
  BY <1>1, <1>2, CallerGoesOn DEF how
<1>4. CASE asker[a].at = "running"
  <2>1. dropped' = Lost /\ how = "raised"
    BY <1>2, <1>4 DEF RunEnds, RunRaises
  <2>2. /\ Behind' /\ Promised' /\ Noticed'
        /\ loaded' \in [Changes -> Nat] /\ dropped' \in [Changes -> Nat]
    BY <1>1, <1>2, <1>3, <1>4, <2>1, ReadKeeps DEF how
  <2>3. HmrTypeOK'
    BY <1>1, <1>2, <1>3, <2>2 DEF HmrTypeOK
  <2> QED BY <1>3, <2>2, <2>3
<1>5. CASE asker[a].at = "reimported"
  <2>1. dropped' = dropped
    BY <1>5 DEF RunEnds, RunRaises
  <2>2. \A b \in Askers : asker[b].at # "running" /\ asker'[b].at # "running"
    BY <1>2, <1>3, <1>5 DEF Runs, how
  <2>3. HmrTypeOK'
    BY <1>1, <1>2, <1>3, <2>1 DEF HmrTypeOK
  <2>4. Behind'
    BY <1>1, <1>2, <2>1 DEF Behind
  <2>5. Promised'
    <3> SUFFICES ASSUME NEW b \in Askers, NEW c \in asker[b].mine
                 PROVE  /\ asker'[b].at = "waiting" => Met(b, c) \/ c \in pending
                        /\ asker'[b].at \in {"reimported", "returned"} => Met(b, c)
      BY <1>1, <1>2, <2>1, <2>2 DEF Promised, Met
    <3>1. CASE b = a
      BY <3>1, <1>2, <1>5 DEF Promised, how
    <3>2. CASE b # a
      BY <3>2, <1>2, <2>2 DEF Promised, InRun
    <3> QED BY <3>1, <3>2
  <2>6. Noticed'
    BY <1>1, <2>1, <2>2 DEF Noticed
  <2> QED BY <1>3, <2>3, <2>4, <2>5, <2>6
<1> QED BY <1>1, <1>4, <1>5 DEF Runs

\* The invariant of the service: the lock is held by the head of the line, nothing is
\* newer than what was saved, and whoever waits is met or will be.
THEOREM HmrInvHolds == ASSUME HmrConstants PROVE HmrSpec => []HmrInv
<1>1. HmrInit => HmrInv
  BY HmrInvInit
<1>2. HmrInv /\ [HmrNext]_hmrVars => HmrInv'
  <2> SUFFICES ASSUME HmrInv, [HmrNext]_hmrVars PROVE HmrInv'
    OBVIOUS
  <2>1. ASSUME NEW c \in Changes, Save(c) PROVE HmrInv'
    BY <2>1, SaveKeeps
  <2>2. ASSUME NEW a \in Askers, NEW mine \in SUBSET Changes, Ask(a, mine) PROVE HmrInv'
    BY <2>2, AskKeeps
  <2>3. ASSUME NEW w \in Watchers, Poll(w) PROVE HmrInv'
    BY <2>3, PollKeeps
  <2>4. ASSUME NEW a \in Askers, Carried(a) \/ GiveUp(a) \/ RunStarts(a) PROVE HmrInv'
    BY <2>4, CarriedKeeps, GiveUpKeeps, RunStartsKeeps
  <2>5. ASSUME NEW a \in Askers, Reimport(a) \/ Refuse(a) PROVE HmrInv'
    BY <2>5, ReimportKeeps
  <2>6. ASSUME NEW a \in Askers, RunEnds(a) \/ RunRaises(a) PROVE HmrInv'
    BY <2>6, RunEndsKeeps
  <2>7. CASE UNCHANGED hmrVars
    BY <2>7 DEF hmrVars, HmrInv, HmrTypeOK, Locked, Behind, Promised, Noticed, Runs, Met, InRun
  <2> QED BY <2>1, <2>2, <2>3, <2>4, <2>5, <2>6, <2>7 DEF HmrNext
<1> QED BY <1>1, <1>2, PTL DEF HmrSpec

\* No change that was saved, watched or asked for gets lost (reload, watch): for any
\* number of callers, watches and files, whoever gives up and whatever a run does.
THEOREM ChangesCarriedHolds == ASSUME HmrConstants PROVE HmrSpec => []ChangesCarried
<1>1. HmrInv => ChangesCarried
  <2> SUFFICES ASSUME HmrInv PROVE NothingForgotten /\ Noticed
    BY DEF ChangesCarried
  <2>1. NothingForgotten
    BY DEF HmrInv, Promised, Met, NothingForgotten
  <2> QED BY <2>1 DEF HmrInv
<1> QED BY <1>1, HmrInvHolds, PTL

-----------------------------------------------------------------------------
\* The import graph: what is reloaded, and in which order.

Loops == [module : SUBSET Modules, left : SUBSET Modules]
Placed == {order[i] : i \in DOMAIN order}

GraphTypeOK ==
    /\ program \in Programs
    /\ hit \in SUBSET Modules /\ seen \in SUBSET Modules
    /\ progress \in {"growing", "refused", "ordering", "ordered"}
    /\ calls \in Seq(Loops) /\ order \in Seq(Modules)

\* What is affected has been reached, and when the sweeps are over all of it is.
Closed(S) == \A n \in Modules : Imports(n) \cap S # {} => n \in S

Hit ==
    /\ program.names \subseteq hit
    /\ \A S \in SUBSET Modules : program.names \subseteq S /\ Closed(S) => hit \subseteq S
    /\ progress # "growing" => Closed(hit)
    /\ progress \in {"ordering", "ordered"} => Refused = {}
    /\ progress \notin {"ordering", "ordered"} => seen = {} /\ order = <<>> /\ calls = <<>>

\* What is placed is placed once, after what it imports, if that can be.
Behaved ==
    /\ Placed \subseteq Reloadable
    /\ \A i, j \in DOMAIN order : order[i] = order[j] => i = j
    /\ Acyclic => \A i \in DOMAIN order : \A n \in Visits(order[i]) :
                     \E j \in DOMAIN order : j < i /\ order[j] = n
    /\ progress = "ordered" => Reloadable \subseteq Placed

\* A visit in progress: its module has no place yet, whatever it imports was seen or
\* is still to be visited, and it is being visited for the sake of the one before it.
Pursues(i, m) ==
    /\ m \in seen /\ m \in Reloadable /\ m \notin Placed
    /\ Visits(m) \subseteq seen \cup calls[i].left
    /\ calls[i].left \subseteq Imports(m)
    /\ i + 1 \in DOMAIN calls => calls[i + 1].module \subseteq Imports(m)

Nested ==
    /\ Placed \subseteq seen
    /\ \A m \in seen : m \in Placed \/ \E i \in DOMAIN calls : m \in calls[i].module
    /\ \A i \in DOMAIN calls :
         /\ calls[i].left \subseteq Reloadable
         /\ IF i = 1 THEN calls[i].module = {} ELSE \E m \in Modules : calls[i].module = {m}
         /\ \A m \in calls[i].module : Pursues(i, m)
         /\ \A j \in DOMAIN calls : i # j => calls[i].module \cap calls[j].module = {}
    /\ progress = "ordering" => calls # <<>> /\ Reloadable \subseteq seen \cup calls[1].left

GraphInv == GraphTypeOK /\ Hit /\ Behaved /\ Nested

LEMMA GraphInvInit == ASSUME GraphInit PROVE GraphInv
<1> USE DEF GraphInit
<1>1. GraphTypeOK
  BY DEF GraphTypeOK, Programs
<1>2. Placed = {}
  BY DEF Placed
<1>3. Hit
  BY DEF Hit
<1>4. Behaved
  BY <1>2 DEF Behaved
<1>5. Nested
  BY <1>2 DEF Nested
<1> QED BY <1>1, <1>3, <1>4, <1>5 DEF GraphInv

\* Another module is reached, from what is affected: it is in every closed set.
LEMMA GrowKeeps ==
  ASSUME GraphInv, NEW m \in Modules, Grow(m) PROVE GraphInv'
<1> USE DEF GraphInv
<1>1. /\ progress = "growing" /\ Imports(m) \cap hit # {}
      /\ hit' = hit \cup {m}
      /\ program' = program /\ progress' = progress /\ calls' = calls
      /\ seen' = seen /\ order' = order
  BY DEF Grow, Reached
<1>2. seen = {} /\ order = <<>> /\ calls = <<>>
  BY <1>1 DEF Hit
<1>3. GraphTypeOK'
  BY <1>1 DEF GraphTypeOK
<1>4. Hit'
  <2>1. ASSUME NEW S \in SUBSET Modules, program.names \subseteq S, Closed(S)
        PROVE  hit' \subseteq S
    BY <2>1, <1>1 DEF Hit, Closed
  <2>2. \A S : Closed(S)' = Closed(S)
    BY <1>1 DEF Closed, Imports
  <2> QED BY <1>1, <1>2, <2>1, <2>2 DEF Hit
<1>5. Placed' = {}
  BY <1>1, <1>2 DEF Placed
<1>6. Behaved' /\ Nested'
  BY <1>1, <1>2, <1>5 DEF Behaved, Nested
<1> QED BY <1>3, <1>4, <1>6

\* The sweeps are over.
LEMMA EscalateKeeps ==
  ASSUME GraphInv, Escalate PROVE GraphInv'
<1> USE DEF GraphInv
<1>1. /\ progress = "growing" /\ \A m \in Modules : ~Reached(m)
      /\ \/ Refused # {} /\ progress' = "refused" /\ calls' = calls
         \/ Refused = {} /\ progress' = "ordering" /\ calls' = <<Loop>>
      /\ program' = program /\ hit' = hit /\ seen' = seen /\ order' = order
  BY DEF Escalate
<1>2. seen = {} /\ order = <<>> /\ calls = <<>>
  BY <1>1 DEF Hit
<1>3. Reloadable \in SUBSET Modules
  BY DEF GraphTypeOK, Reloadable
<1>4. GraphTypeOK'
  <2>1. Loop \in Loops
    BY <1>3 DEF Loop, Loops
  <2>2. <<Loop>> \in Seq(Loops) /\ calls \in Seq(Loops)
    BY <2>1 DEF GraphTypeOK
  <2>3. calls' \in Seq(Loops)
    BY <1>1, <2>2
  <2> QED BY <1>1, <2>3 DEF GraphTypeOK
<1>5. Reloadable' = Reloadable /\ Refused' = Refused
  BY <1>1 DEF Reloadable, Refused, Importers, Imports
<1>6. Hit'
  <2>1. \A S : Closed(S)' = Closed(S)
    BY <1>1 DEF Closed, Imports
  <2>2. Closed(hit)
    BY <1>1 DEF Closed, Reached
  <2> QED BY <1>1, <1>2, <1>5, <2>1, <2>2 DEF Hit
<1>7. Placed' = {}
  BY <1>1, <1>2 DEF Placed
<1>8. Behaved'
  BY <1>1, <1>2, <1>7 DEF Behaved
<1>9. Nested'
  <2>1. CASE progress' = "refused"
    BY <2>1, <1>1, <1>2, <1>7 DEF Nested
  <2>2. CASE progress' = "ordering"
    <3>1. calls' = <<Loop>> /\ DOMAIN calls' = {1} /\ calls'[1] = Loop /\ calls' # <<>>
      BY <2>2, <1>1
    <3>2. Loop.left = Reloadable /\ Loop.module = {}
      BY DEF Loop
    <3> QED BY <2>2, <3>1, <3>2, <1>1, <1>2, <1>5, <1>7 DEF Nested
  <2> QED BY <2>1, <2>2, <1>1
<1> QED BY <1>4, <1>6, <1>8, <1>9

\* The stack of visits without its last, and with something else in its place.
LEMMA StackFacts ==
  ASSUME NEW S, NEW s \in Seq(S), s # <<>>, NEW x \in S,
         NEW outer, outer = SubSeq(s, 1, Len(s) - 1)
  PROVE  /\ outer \in Seq(S) /\ Len(outer) = Len(s) - 1 /\ Len(s) \in Nat /\ Len(s) >= 1
         /\ DOMAIN outer = 1..Len(s) - 1 /\ DOMAIN s = 1..Len(s)
         /\ \A i \in 1..Len(s) - 1 : outer[i] = s[i]
         /\ Append(outer, x) \in Seq(S) /\ DOMAIN Append(outer, x) = 1..Len(s)
         /\ Len(Append(outer, x)) = Len(s)
         /\ \A i \in 1..Len(s) - 1 : Append(outer, x)[i] = s[i]
         /\ Append(outer, x)[Len(s)] = x
<1>1. Len(s) \in Nat /\ Len(s) >= 1 /\ DOMAIN s = 1..Len(s)
  <2>1. Len(s) \in Nat /\ Len(s) # 0
    OBVIOUS
  <2> QED BY <2>1
<1>2. outer \in Seq(S) /\ Len(outer) = Len(s) - 1 /\ \A i \in 1..Len(s) - 1 : outer[i] = s[i]
  BY <1>1
<1>3. DOMAIN outer = 1..Len(s) - 1
  BY <1>1, <1>2
<1>4. /\ Append(outer, x) \in Seq(S) /\ Len(Append(outer, x)) = Len(outer) + 1
      /\ \A i \in 1..Len(outer) : Append(outer, x)[i] = outer[i]
      /\ Append(outer, x)[Len(outer) + 1] = x
  BY <1>2
<1>5. Len(outer) + 1 = Len(s)
  BY <1>1, <1>2
<1>6. DOMAIN Append(outer, x) = 1..Len(s)
  BY <1>4, <1>5
<1>7. \A i \in 1..Len(s) - 1 : Append(outer, x)[i] = s[i]
  BY <1>2, <1>4
<1> QED BY <1>1, <1>2, <1>3, <1>4, <1>5, <1>6, <1>7

\* A call of visit: the caller has one module less to go, and one that was not seen
\* yet is visited next.
LEMMA VisitKeeps ==
  ASSUME GraphInv, NEW m \in Modules, Visit(m) PROVE GraphInv'
<1> USE DEF GraphInv
<1> DEFINE left == Innermost.left \ {m}
           top == [Innermost EXCEPT !.left = left]
           caller == Append(Beneath, top)
           next == Visiting(m, Visits(m))
<1>1. /\ progress = "ordering" /\ m \in Innermost.left
      /\ calls' = IF m \in seen THEN caller ELSE Append(caller, next)
      /\ seen' = seen \cup {m}
      /\ program' = program /\ hit' = hit /\ progress' = progress /\ order' = order
  BY DEF Visit
<1>2. calls \in Seq(Loops) /\ calls # <<>> /\ Reloadable \in SUBSET Modules
  BY <1>1 DEF Nested, GraphTypeOK, Reloadable
<1>3. /\ Depth \in Nat /\ Depth >= 1 /\ DOMAIN calls = 1..Depth /\ Innermost \in Loops
  BY <1>2 DEF Depth, Innermost
<1>4. top \in Loops /\ top.left = left /\ top.module = Innermost.module
  BY <1>3 DEF Loops
<1> HIDE DEF top
<1>5. /\ caller \in Seq(Loops) /\ DOMAIN caller = 1..Depth /\ Len(caller) = Depth
      /\ \A i \in 1..Depth - 1 : caller[i] = calls[i]
      /\ caller[Depth] = top
  <2>1. Beneath = SubSeq(calls, 1, Len(calls) - 1) /\ Depth = Len(calls)
    BY DEF Beneath, Depth
  <2> QED BY <2>1, <1>2, <1>4, StackFacts
<1> HIDE DEF caller
<1>6. \A i \in 1..Depth : /\ caller[i].module = calls[i].module
                          /\ caller[i].left \subseteq calls[i].left
                          /\ calls[i].left \subseteq caller[i].left \cup {m}
  <2> SUFFICES ASSUME NEW i \in 1..Depth
               PROVE  /\ caller[i].module = calls[i].module
                      /\ caller[i].left \subseteq calls[i].left
                      /\ calls[i].left \subseteq caller[i].left \cup {m}
    OBVIOUS
  <2>1. CASE i = Depth
    BY <2>1, <1>4, <1>5 DEF Innermost
  <2>2. CASE i # Depth
    <3>1. i \in 1..Depth - 1
      BY <2>2, <1>3
    <3> QED BY <3>1, <1>5
  <2> QED BY <2>1, <2>2
<1>7. m \in Reloadable /\ \A n \in Innermost.module : m \in Imports(n)
  <2>1. Depth \in DOMAIN calls
    BY <1>3
  <2> QED BY <2>1, <1>1 DEF Nested, Innermost, Pursues
<1>8. /\ Reloadable' = Reloadable /\ Placed' = Placed /\ Refused' = Refused
      /\ \A n : Imports(n)' = Imports(n) /\ Visits(n)' = Visits(n)
  BY <1>1 DEF Reloadable, Placed, Refused, Importers, Imports, Visits
<1>9. Hit'
  <2>1. \A S : Closed(S)' = Closed(S)
    BY <1>1 DEF Closed, Imports
  <2> QED BY <1>1, <1>8, <2>1 DEF Hit
<1>10. Behaved'
  <2>1. Acyclic' = Acyclic
    BY <1>8 DEF Acyclic
  <2> QED BY <1>1, <1>8, <2>1 DEF Behaved
<1>11. next \in Loops /\ next.module = {m} /\ next.left = Visits(m) /\ Visits(m) \subseteq Reloadable
  BY <1>2 DEF Visiting, Loops, Visits
<1> HIDE DEF next
<1>12. GraphTypeOK'
  <2>1. calls' \in Seq(Loops)
    BY <1>1, <1>5, <1>11
  <2> QED BY <1>1, <2>1 DEF GraphTypeOK
<1>13. /\ 1 \in 1..Depth /\ Reloadable \subseteq seen \cup calls[1].left
  BY <1>1, <1>3 DEF Nested
\* What is said of a visit that was in progress stays true.
<1>14. ASSUME NEW i \in 1..Depth
       PROVE  /\ caller[i].left \subseteq Reloadable
              /\ IF i = 1 THEN caller[i].module = {} ELSE \E n \in Modules : caller[i].module = {n}
              /\ \A n \in caller[i].module :
                   /\ n \in seen' /\ n \in Reloadable /\ n \notin Placed
                   /\ Visits(n) \subseteq seen' \cup caller[i].left
                   /\ caller[i].left \subseteq Imports(n)
                   /\ i + 1 \in 1..Depth => caller[i + 1].module \subseteq Imports(n)
              /\ \A j \in 1..Depth : i # j => caller[i].module \cap caller[j].module = {}
  <2>1. /\ calls[i].left \subseteq Reloadable
        /\ IF i = 1 THEN calls[i].module = {} ELSE \E n \in Modules : calls[i].module = {n}
        /\ \A n \in calls[i].module : Pursues(i, n)
        /\ \A j \in DOMAIN calls : i # j => calls[i].module \cap calls[j].module = {}
    BY <1>3 DEF Nested
  <2>2. \A n \in calls[i].module :
          /\ n \in seen /\ n \in Reloadable /\ n \notin Placed
          /\ Visits(n) \subseteq seen \cup calls[i].left
          /\ calls[i].left \subseteq Imports(n)
          /\ i + 1 \in DOMAIN calls => calls[i + 1].module \subseteq Imports(n)
    BY <2>1 DEF Pursues
  <2> QED BY <2>1, <2>2, <1>1, <1>3, <1>6
<1>15. CASE m \in seen
  <2>1. calls' = caller /\ seen' = seen
    BY <1>1, <1>15
  <2>2. \A n \in seen : n \in Placed \/ \E i \in DOMAIN calls' : n \in calls'[i].module
    BY <2>1, <1>3, <1>5, <1>6 DEF Nested
  <2>3. calls' # <<>> /\ Reloadable \subseteq seen \cup calls'[1].left
    BY <2>1, <1>3, <1>5, <1>6, <1>13, <1>15
  <2>4. \A i \in DOMAIN calls' :
          /\ calls'[i].left \subseteq Reloadable
          /\ IF i = 1 THEN calls'[i].module = {} ELSE \E n \in Modules : calls'[i].module = {n}
          /\ \A n \in calls'[i].module : Pursues(i, n)'
          /\ \A j \in DOMAIN calls' : i # j => calls'[i].module \cap calls'[j].module = {}
    BY <2>1, <1>5, <1>8, <1>14 DEF Pursues
  <2>5. Nested'
    BY <2>1, <2>2, <2>3, <2>4, <1>1, <1>8 DEF Nested
  <2> QED BY <2>5, <1>9, <1>10, <1>12
<1>16. CASE m \notin seen
  <2>1. /\ calls' = Append(caller, next) /\ DOMAIN calls' = 1..Depth + 1
        /\ \A i \in 1..Depth : calls'[i] = caller[i]
        /\ calls'[Depth + 1] = next
    BY <1>1, <1>3, <1>5, <1>11, <1>16
  <2>2. m \notin Placed /\ \A i \in 1..Depth : m \notin caller[i].module
    BY <1>3, <1>6, <1>16 DEF Nested, Pursues
  <2>3. \A n \in seen' : n \in Placed \/ \E i \in DOMAIN calls' : n \in calls'[i].module
    <3> SUFFICES ASSUME NEW n \in seen', n \notin Placed
                 PROVE  \E i \in DOMAIN calls' : n \in calls'[i].module
      OBVIOUS
    <3>1. CASE n = m
      <4>1. Depth + 1 \in DOMAIN calls' /\ n \in calls'[Depth + 1].module
        BY <3>1, <2>1, <1>3, <1>11
      <4> QED BY <4>1
    <3>2. CASE n \in seen
      <4>1. PICK i \in DOMAIN calls : n \in calls[i].module
        BY <3>2 DEF Nested
      <4>2. i \in DOMAIN calls' /\ n \in calls'[i].module
        BY <4>1, <2>1, <1>3, <1>6
      <4> QED BY <4>2
    <3> QED BY <3>1, <3>2, <1>1
  <2>4. calls' # <<>> /\ Reloadable \subseteq seen' \cup calls'[1].left
    BY <2>1, <1>1, <1>3, <1>6, <1>13
  <2>5. ASSUME NEW i \in 1..Depth
        PROVE  /\ calls'[i].left \subseteq Reloadable
               /\ IF i = 1 THEN calls'[i].module = {} ELSE \E n \in Modules : calls'[i].module = {n}
               /\ \A n \in calls'[i].module : Pursues(i, n)'
               /\ \A j \in DOMAIN calls' : i # j => calls'[i].module \cap calls'[j].module = {}
    <3>1. calls'[i] = caller[i]
      BY <2>1
    <3>2. ASSUME NEW n \in caller[i].module PROVE Pursues(i, n)'
      <4>1. i + 1 \in DOMAIN calls' => calls'[i + 1].module \subseteq Imports(n)
        <5>1. CASE i = Depth
          <6>1. calls'[i + 1].module = {m} /\ n \in Innermost.module
            BY <5>1, <2>1, <1>4, <1>5, <1>11
          <6> QED BY <6>1, <1>7
        <5>2. CASE i # Depth
          <6>1. i + 1 \in 1..Depth /\ calls'[i + 1] = caller[i + 1]
            BY <5>2, <2>1, <1>3
          <6> QED BY <6>1, <1>14
        <5> QED BY <5>1, <5>2
      <4> QED BY <3>1, <4>1, <1>8, <1>14 DEF Pursues
    <3>3. ASSUME NEW j \in DOMAIN calls', i # j PROVE calls'[i].module \cap calls'[j].module = {}
      <4>1. CASE j = Depth + 1
        BY <4>1, <3>1, <2>1, <2>2, <1>11
      <4>2. CASE j # Depth + 1
        <5>1. j \in 1..Depth /\ calls'[j] = caller[j]
          BY <4>2, <2>1, <1>3
        <5> QED BY <5>1, <3>1, <3>3, <1>14
      <4> QED BY <4>1, <4>2
    <3> QED BY <3>1, <3>2, <3>3, <1>14
  <2>6. ASSUME NEW i \in Nat, i = Depth + 1
        PROVE  /\ calls'[i].left \subseteq Reloadable
               /\ i # 1 /\ calls'[i].module = {m}
               /\ Pursues(i, m)'
               /\ \A j \in DOMAIN calls' : i # j => calls'[i].module \cap calls'[j].module = {}
    <3>1. i # 1 /\ i + 1 \notin 1..Depth + 1
      BY <2>6, <1>3
    <3>2. Pursues(i, m)'
      <4>1. Visits(m) \subseteq Imports(m)
        BY DEF Visits
      <4>2. m \in seen' /\ m \in Reloadable' /\ m \notin Placed'
        BY <1>1, <1>7, <1>8, <2>2
      <4>3. i + 1 \notin DOMAIN calls' /\ calls'[i].left = Visits(m)
        BY <3>1, <2>1, <2>6, <1>11
      <4> QED BY <4>1, <4>2, <4>3, <1>8 DEF Pursues
    <3>3. ASSUME NEW j \in DOMAIN calls', j # i PROVE m \notin calls'[j].module
      <4>1. j \in 1..Depth
        BY <3>3, <2>1, <2>6, <1>3
      <4> QED BY <4>1, <2>1, <2>2
    <3> QED BY <3>1, <3>2, <3>3, <2>1, <2>6, <1>11
  <2>7. Nested'
    <3>1. \A i \in DOMAIN calls' : i \in 1..Depth \/ i = Depth + 1
      BY <2>1, <1>3
    <3>2. Placed \subseteq seen'
      BY <1>1 DEF Nested
    <3>3. ASSUME NEW i \in DOMAIN calls'
          PROVE  /\ calls'[i].left \subseteq Reloadable
                 /\ IF i = 1 THEN calls'[i].module = {} ELSE \E n \in Modules : calls'[i].module = {n}
                 /\ \A n \in calls'[i].module : Pursues(i, n)'
                 /\ \A j \in DOMAIN calls' : i # j => calls'[i].module \cap calls'[j].module = {}
      <4>1. CASE i \in 1..Depth
        BY <4>1, <2>5
      <4>2. CASE i = Depth + 1
        <5>1. i \in Nat
          BY <4>2, <1>3
        <5> QED BY <4>2, <5>1, <2>6
      <4> QED BY <3>1, <4>1, <4>2
    <3> QED BY <3>2, <3>3, <2>3, <2>4, <1>8 DEF Nested
  <2> QED BY <2>7, <1>9, <1>10, <1>12
<1> QED BY <1>15, <1>16

\* Among visits in progress nobody imports one that comes before it, in a program
\* without cycles.
LEMMA NoWayBack ==
  ASSUME GraphInv, Acyclic, NEW k \in DOMAIN calls, NEW n \in calls[k].module,
         NEW m \in calls[Len(calls)].module
  PROVE  n \notin Imports(m)
<1> SUFFICES ASSUME n \in Imports(m) PROVE FALSE
  OBVIOUS
<1> DEFINE S == {x \in Modules : \E i \in DOMAIN calls : k <= i /\ x \in calls[i].module}
<1>1. Len(calls) \in Nat /\ DOMAIN calls = 1..Len(calls) /\ k \in Nat /\ k <= Len(calls) /\ 1 <= k
  BY DEF GraphInv, GraphTypeOK
<1>2. \A i \in DOMAIN calls : calls[i].module \subseteq Modules
  <2>1. \A i \in DOMAIN calls : calls[i] \in Loops
    BY DEF GraphInv, GraphTypeOK
  <2> QED BY <2>1 DEF Loops
<1>3. n \in S
  BY <1>1, <1>2
<1>4. \A i \in DOMAIN calls : \A x \in calls[i].module : calls[i].module = {x} /\ Pursues(i, x)
  BY DEF GraphInv, Nested
<1>5. ASSUME NEW x \in S PROVE Imports(x) \cap S # {}
  <2>1. PICK i \in DOMAIN calls : k <= i /\ x \in calls[i].module
    OBVIOUS
  <2>2. CASE i = Len(calls)
    <3>1. x = m
      BY <2>1, <2>2, <1>4
    <3> QED BY <3>1, <1>3
  <2>3. CASE i # Len(calls)
    <3>1. i + 1 \in DOMAIN calls /\ k <= i + 1 /\ i + 1 # 1
      BY <2>1, <2>3, <1>1
    <3>2. PICK y \in Modules : calls[i + 1].module = {y}
      BY <3>1 DEF GraphInv, Nested
    <3>3. y \in Imports(x)
      BY <2>1, <3>1, <3>2, <1>4 DEF Pursues
    <3>4. y \in S
      BY <3>1, <3>2
    <3> QED BY <3>3, <3>4
  <2> QED BY <2>2, <2>3
<1> QED BY <1>3, <1>5 DEF Acyclic

\* A loop is over.  A module gets its place when all it visits has one: what is seen and
\* not placed is a visit in progress, and there is no way back to it.
LEMMA VisitedKeeps ==
  ASSUME GraphInv, Visited PROVE GraphInv'
<1> USE DEF GraphInv
<1>1. /\ progress = "ordering" /\ Innermost.left = {}
      /\ calls' = Beneath
      /\ \/ Depth = 1 /\ progress' = "ordered" /\ order' = order
         \/ Depth # 1 /\ progress' = progress /\ \E m \in Innermost.module : order' = Append(order, m)
      /\ program' = program /\ hit' = hit /\ seen' = seen
  BY DEF Visited
<1>2. calls \in Seq(Loops) /\ calls # <<>> /\ order \in Seq(Modules)
  BY <1>1 DEF Nested, GraphTypeOK
<1>3. /\ Depth \in Nat /\ Depth >= 1 /\ DOMAIN calls = 1..Depth /\ Depth = Len(calls)
      /\ Innermost = calls[Depth] /\ Innermost \in Loops
  BY <1>2 DEF Depth, Innermost
<1>4. /\ calls' \in Seq(Loops) /\ DOMAIN calls' = 1..Depth - 1
      /\ \A i \in 1..Depth - 1 : calls'[i] = calls[i]
  <2>1. Beneath = SubSeq(calls, 1, Len(calls) - 1)
    BY DEF Beneath, Depth
  <2> QED BY <2>1, <1>1, <1>2, <1>3, StackFacts
<1>5. /\ Reloadable' = Reloadable /\ Refused' = Refused /\ Acyclic' = Acyclic
      /\ \A n : Imports(n)' = Imports(n) /\ Visits(n)' = Visits(n)
  BY <1>1 DEF Reloadable, Refused, Importers, Imports, Visits, Acyclic
<1>6. Hit'
  <2>1. \A S : Closed(S)' = Closed(S)
    BY <1>1 DEF Closed, Imports
  <2> QED BY <1>1, <1>5, <2>1 DEF Hit
<1>7. CASE Depth = 1
  <2>1. progress' = "ordered" /\ order' = order /\ Placed' = Placed /\ DOMAIN calls' = {}
    BY <1>1, <1>3, <1>4, <1>7 DEF Placed
  <2>2. seen \subseteq Placed /\ Reloadable \subseteq seen
    BY <1>1, <1>3, <1>7 DEF Nested
  <2>3. GraphTypeOK'
    BY <1>1, <1>4, <2>1 DEF GraphTypeOK
  <2>4. Behaved'
    BY <1>1, <1>5, <2>1, <2>2 DEF Behaved
  <2>5. Nested'
    BY <1>1, <2>1, <2>2 DEF Nested
  <2> QED BY <1>6, <2>3, <2>4, <2>5
<1>8. CASE Depth # 1
  <2>1. PICK m \in Innermost.module : order' = Append(order, m)
    BY <1>1, <1>8
  <2>2. m \in Modules /\ progress' = "ordering" /\ Depth - 1 >= 1
    BY <1>1, <1>3, <1>8, <2>1 DEF Loops
  <2>3. /\ order' \in Seq(Modules) /\ Len(order) \in Nat
        /\ DOMAIN order = 1..Len(order) /\ DOMAIN order' = 1..Len(order) + 1
        /\ \A i \in DOMAIN order : order'[i] = order[i]
        /\ order'[Len(order) + 1] = m
    BY <1>2, <2>1, <2>2
  <2>4. Placed' = Placed \cup {m}
    <3>1. \A x \in Placed' : x \in Placed \cup {m}
      BY <2>3 DEF Placed
    <3>2. \A x \in Placed : x \in Placed'
      BY <2>3 DEF Placed
    <3>3. m \in Placed'
      BY <2>3 DEF Placed
    <3> QED BY <3>1, <3>2, <3>3
  <2>5. /\ m \in seen /\ m \in Reloadable /\ m \notin Placed
        /\ Visits(m) \subseteq seen /\ calls[Depth].module = {m}
    BY <1>1, <1>3, <2>1 DEF Nested, Pursues
  <2>6. GraphTypeOK'
    BY <1>1, <1>4, <2>2, <2>3 DEF GraphTypeOK
  <2>7. ASSUME Acyclic, NEW n \in Visits(m) PROVE n \in Placed
    <3>1. n \in Imports(m) /\ n \in seen
      BY <2>5 DEF Visits
    <3>2. SUFFICES ASSUME NEW k \in DOMAIN calls, n \in calls[k].module PROVE FALSE
      BY <3>1 DEF Nested
    <3> QED BY <2>5, <2>7, <3>1, <3>2, <1>3, NoWayBack
  <2>8. Behaved'
    <3>1. Placed' \subseteq Reloadable
      BY <2>4, <2>5 DEF Behaved
    <3>2. ASSUME NEW i \in DOMAIN order', NEW j \in DOMAIN order', order'[i] = order'[j]
          PROVE  i = j
      <4>1. \A x \in DOMAIN order' : x \in DOMAIN order \/ x = Len(order) + 1
        BY <2>3
      <4>2. \A x \in DOMAIN order : order'[x] # m
        BY <2>3, <2>5 DEF Placed
      <4> QED BY <3>2, <4>1, <4>2, <2>3 DEF Behaved
    <3>3. ASSUME Acyclic, NEW i \in DOMAIN order', NEW n \in Visits(order'[i])
          PROVE  \E j \in DOMAIN order' : j < i /\ order'[j] = n
      <4>1. CASE i \in DOMAIN order
        BY <4>1, <3>3, <2>3 DEF Behaved
      <4>2. CASE i = Len(order) + 1
        <5>1. n \in Placed
          BY <4>2, <3>3, <2>3, <2>7
        <5>2. PICK j \in DOMAIN order : order[j] = n
          BY <5>1 DEF Placed
        <5>3. j < i /\ j \in DOMAIN order' /\ order'[j] = n
          BY <5>2, <4>2, <2>3
        <5> QED BY <5>3
      <4> QED BY <4>1, <4>2, <2>3
    <3> QED BY <3>1, <3>2, <3>3, <2>2, <1>5 DEF Behaved
  <2>9. Nested'
    <3>1. Placed' \subseteq seen'
      BY <1>1, <2>4, <2>5 DEF Nested
    <3>2. ASSUME NEW x \in seen', x \notin Placed'
          PROVE  \E i \in DOMAIN calls' : x \in calls'[i].module
      <4>1. PICK i \in DOMAIN calls : x \in calls[i].module
        BY <3>2, <1>1, <2>4 DEF Nested
      <4>2. i # Depth
        BY <4>1, <3>2, <2>4, <2>5
      <4>3. i \in DOMAIN calls' /\ calls'[i] = calls[i]
        BY <4>2, <1>3, <1>4
      <4> QED BY <4>1, <4>3
    <3>3. ASSUME NEW i \in DOMAIN calls'
          PROVE  /\ calls'[i].left \subseteq Reloadable
                 /\ IF i = 1 THEN calls'[i].module = {} ELSE \E n \in Modules : calls'[i].module = {n}
                 /\ \A n \in calls'[i].module : Pursues(i, n)'
                 /\ \A j \in DOMAIN calls' : i # j => calls'[i].module \cap calls'[j].module = {}
      <4>1. i \in DOMAIN calls /\ i # Depth /\ calls'[i] = calls[i]
        BY <1>3, <1>4
      <4>2. /\ calls[i].left \subseteq Reloadable
            /\ IF i = 1 THEN calls[i].module = {} ELSE \E n \in Modules : calls[i].module = {n}
            /\ \A n \in calls[i].module : Pursues(i, n)
            /\ \A j \in DOMAIN calls : i # j => calls[i].module \cap calls[j].module = {}
        BY <4>1 DEF Nested
      <4>3. ASSUME NEW n \in calls[i].module PROVE Pursues(i, n)'
        <5>1. n # m
          BY <4>1, <4>2, <4>3, <2>5, <1>3
        <5>2. i + 1 \in DOMAIN calls' => i + 1 \in DOMAIN calls /\ calls'[i + 1] = calls[i + 1]
          BY <1>3, <1>4
        <5>3. Pursues(i, n)
          BY <4>2, <4>3
        <5> QED BY <5>1, <5>2, <5>3, <4>1, <2>4, <1>1, <1>5 DEF Pursues
      <4>4. \A j \in DOMAIN calls' : j \in DOMAIN calls /\ calls'[j] = calls[j]
        BY <1>3, <1>4
      <4> QED BY <4>1, <4>2, <4>3, <4>4
    <3>4. calls' # <<>> /\ Reloadable \subseteq seen' \cup calls'[1].left
      <4>1. 1 \in DOMAIN calls' /\ calls'[1] = calls[1]
        BY <1>3, <1>4, <2>2
      <4>2. calls' # <<>>
        BY <4>1
      <4> QED BY <4>1, <4>2, <1>1 DEF Nested
    <3> QED BY <3>1, <3>2, <3>3, <3>4, <1>5 DEF Nested
  <2> QED BY <1>6, <2>6, <2>8, <2>9
<1> QED BY <1>7, <1>8

\* The invariant of a run's reading: what is affected is reached and nothing else, what is
\* placed comes after what it imports, and the visits in progress are a way of imports.
THEOREM GraphInvHolds == GraphSpec => []GraphInv
<1>1. GraphInit => GraphInv
  BY GraphInvInit
<1>2. GraphInv /\ [GraphNext]_graphVars => GraphInv'
  <2> SUFFICES ASSUME GraphInv, [GraphNext]_graphVars PROVE GraphInv'
    OBVIOUS
  <2>1. ASSUME NEW m \in Modules, Grow(m) \/ Visit(m) PROVE GraphInv'
    BY <2>1, GrowKeeps, VisitKeeps
  <2>2. CASE Escalate \/ Visited
    BY <2>2, EscalateKeeps, VisitedKeeps
  <2>3. CASE UNCHANGED graphVars
    <3>1. /\ program' = program /\ hit' = hit /\ progress' = progress /\ calls' = calls
          /\ seen' = seen /\ order' = order
      BY <2>3 DEF graphVars
    <3> QED
      BY <3>1 DEF GraphInv, GraphTypeOK, Hit, Behaved, Nested, Pursues, Placed, Closed, Acyclic,
                  Reloadable, Refused, Importers, Imports, Visits
  <2> QED BY <2>1, <2>2, <2>3 DEF GraphNext
<1> QED BY <1>1, <1>2, PTL DEF GraphSpec

\* In a program without cycles some module of every set has no importer in it, as some
\* has no import in it: among the sets without the first, one would be the smallest,
\* and smaller by the second.
LEMMA Topmost ==
  ASSUME ImportConstants, program \in Programs, Acyclic, NEW S \in SUBSET Modules, S # {}
  PROVE  \E m \in S : Importers(m) \cap S = {}
<1> DEFINE Rising(A) == A # {} /\ \A m \in A : Importers(m) \cap A # {}
           Sizes == {n \in Nat : \E A \in SUBSET Modules : Rising(A) /\ Cardinality(A) = n}
<1> SUFFICES ASSUME Rising(S) PROVE FALSE
  OBVIOUS
<1>1. \A A \in SUBSET Modules : IsFiniteSet(A) /\ Cardinality(A) \in Nat
  BY FS_Subset, FS_CardinalityType DEF ImportConstants
<1>2. Cardinality(S) \in Sizes
  BY <1>1
<1>3. PICK n \in Sizes : \A k \in Sizes : n <= k
  <2>1. Sizes \subseteq Nat /\ Sizes # {}
    BY <1>2
  <2> HIDE DEF Sizes
  <2> QED BY <2>1, LeastNumber
<1>4. PICK A \in SUBSET Modules : Rising(A) /\ Cardinality(A) = n
  OBVIOUS
<1>5. PICK m \in A : Imports(m) \cap A = {}
  BY <1>4 DEF Acyclic
<1> DEFINE B == A \ {m}
<1>6. \A x \in A : \E y \in B : x \in Imports(y)
  BY <1>4, <1>5 DEF Importers
<1>7. Rising(B)
  BY <1>4, <1>6 DEF Importers
<1>8. Cardinality(B) = n - 1 /\ n \in Nat
  BY <1>1, <1>4, FS_RemoveElement
<1>9. Cardinality(B) \in Sizes
  <2>1. B \in SUBSET Modules
    OBVIOUS
  <2> QED BY <2>1, <1>1, <1>7
<1> HIDE DEF Sizes, B
<1> QED BY <1>3, <1>8, <1>9

\* A reload leaves no module behind and hides no refusal (affected, escalated,
\* reload_order): for every program of finitely many modules.
THEOREM ReloadCompleteHolds == ASSUME ImportConstants PROVE GraphSpec => []ReloadComplete
<1>1. ASSUME GraphInv PROVE ReloadComplete
  <2> USE <1>1 DEF GraphInv
  <2>1. \A m \in Modules, names \in SUBSET Modules :
          Reaches(m, names) <=> \A S \in SUBSET Modules : names \subseteq S /\ Closed(S) => m \in S
    BY DEF Reaches, Closed
  <2>2. program.names \in SUBSET Modules /\ hit \in SUBSET Modules
    BY DEF GraphTypeOK, Programs
  <2>3. OneVersion
    <3> SUFFICES ASSUME progress = "ordered" PROVE OneVersion
      BY DEF OneVersion
    <3>1. Placed = Reloadable
      BY DEF Behaved
    <3>2. hit = {m \in Modules : Reaches(m, program.names)}
      <4>1. Closed(hit) /\ program.names \subseteq hit
        BY DEF Hit
      <4>2. \A m \in hit : Reaches(m, program.names)
        BY <2>1, <2>2 DEF Hit
      <4>3. \A m \in Modules : Reaches(m, program.names) => m \in hit
        BY <2>1, <2>2, <4>1
      <4> QED BY <2>2, <4>2, <4>3
    <3>3. Placed = {m \in Modules : Reaches(m, program.names)} \ program.stubborn
      BY <3>1, <3>2 DEF Reloadable
    <3>4. ASSUME NEW i \in DOMAIN order, NEW j \in DOMAIN order
          PROVE  /\ order[i] = order[j] => i = j
                 /\ Acyclic /\ order[j] \in Imports(order[i]) => j < i
      <4>1. order[i] = order[j] => i = j
        BY DEF Behaved
      <4>2. ASSUME Acyclic, order[j] \in Imports(order[i]) PROVE j < i
        <5>1. order[j] \in Visits(order[i])
          BY <3>1, <4>2 DEF Visits, Placed
        <5>2. PICK k \in DOMAIN order : k < i /\ order[k] = order[j]
          BY <4>2, <5>1 DEF Behaved
        <5>3. k = j
          BY <5>2 DEF Behaved
        <5> QED BY <5>2, <5>3
      <4> QED BY <4>1, <4>2
    <3>5. ASSUME NEW m \in Modules, Imports(m) \cap Placed # {}, m \notin program.stubborn
          PROVE  m \in Placed
      <4>1. m \in hit
        BY <3>1, <3>5 DEF Hit, Closed, Reloadable
      <4> QED BY <3>1, <3>5, <4>1 DEF Reloadable
    <3> QED BY <3>3, <3>4, <3>5 DEF OneVersion, Placed
  <2>4. Escalates
    <3> SUFFICES ASSUME progress # "growing", Acyclic, NEW m \in hit \cap program.stubborn,
                        progress # "refused"
                 PROVE  \E n \in Reloadable : m # n /\ Reaches(n, {m})
      BY DEF Escalates
    <3>1. Closed(hit) /\ Refused = {}
      BY DEF Hit, GraphTypeOK
    <3> DEFINE S == {x \in hit \cap program.stubborn : Reaches(x, {m})}
    <3>2. m \in S /\ S \in SUBSET Modules
      BY <2>1, <2>2
    <3>3. PICK x \in S : Importers(x) \cap S = {}
      BY <3>2, Topmost DEF GraphTypeOK
    <3>4. PICK y \in Importers(x) : TRUE
      BY <3>1, <3>3 DEF Refused
    <3>5. y \in Modules /\ x \in Imports(y) /\ y \in hit
      BY <3>1, <3>3, <3>4 DEF Importers, Closed
    <3>6. Reaches(y, {m})
      BY <3>2, <3>3, <3>5, <2>1, <2>2 DEF Closed
    <3>7. y \notin program.stubborn
      BY <3>3, <3>4, <3>5, <3>6
    <3> QED BY <3>5, <3>6, <3>7 DEF Reloadable
  <2> QED BY <2>3, <2>4 DEF ReloadComplete
<1> QED BY <1>1, GraphInvHolds, PTL

-----------------------------------------------------------------------------
\* Waiting: the cycles that are reported.

\* The cycles of declarations, and who is in one.
Cycles == CyclesIn(Fibers, Owes)
Members(p) == {p[i] : i \in DOMAIN p}

WaitingInv ==
    /\ tree \in Trees /\ remaining \in SUBSET Fibers
    /\ \A c \in found : \E p \in Cycles : c = Members(p)
    /\ \A f \in Fibers \ remaining : \E c \in found : f \in c

LEMMA FibersFinite ==
  ASSUME WaitingConstants
  PROVE  IsFiniteSet(Fibers) /\ Cardinality(Fibers) <= Len(Mounted) /\ Cardinality(Fibers) \in Nat
<1>1. Len(Mounted) \in Nat /\ Mounted \in [1..Len(Mounted) -> Fibers]
  BY DEF WaitingConstants
<1>2. \A f \in Fibers : \E i \in 1..Len(Mounted) : Mounted[i] = f
  BY <1>1 DEF Fibers
<1>3. Mounted \in Surjection(1..Len(Mounted), Fibers)
  BY <1>1, <1>2 DEF Surjection
<1>4. IsFiniteSet(1..Len(Mounted)) /\ Cardinality(1..Len(Mounted)) = Len(Mounted)
  BY <1>1, FS_Interval
<1>5. IsFiniteSet(Fibers) /\ Cardinality(Fibers) <= Len(Mounted)
  BY <1>3, <1>4, FS_Surjection
<1> QED BY <1>5, FS_CardinalityType

\* Owing is being blocked.
LEMMA OwesIsBlocked == ASSUME tree \in Trees, NEW f \in Fibers PROVE Owes(f) = Blockers(f)
<1>1. tree[f].missing \subseteq Services
  BY DEF Trees
<1> QED BY <1>1 DEF Owes, Blockers

\* A path without repetition has no more steps than there are nodes.
LEMMA PathShort ==
  ASSUME NEW S, IsFiniteSet(S), NEW n \in Nat, NEW p \in [1..n -> S],
         \A i, j \in 1..n : p[i] = p[j] => i = j
  PROVE  n <= Cardinality(S)
<1>1. p \in Injection(1..n, S)
  BY DEF Injection, IsInjective
<1>2. Cardinality(1..n) = n
  BY FS_Interval
<1> QED BY <1>1, <1>2, FS_Injection

\* Which cycles there are depends on the nodes it goes through alone.
LEMMA SameCycles ==
  ASSUME tree \in Trees, WaitingConstants, NEW A \in SUBSET Fibers, NEW B \in SUBSET Fibers
  PROVE  /\ \A p \in CyclesIn(A, Owes) : p \in CyclesIn(A, Blockers)
         /\ \A p \in CyclesIn(A, Blockers) :
              p \in CyclesIn(A, Owes) /\ 1 \in DOMAIN p /\ Members(p) \subseteq A
         /\ \A p \in CyclesIn(A, Blockers) :
              Members(p) \subseteq B => p \in CyclesIn(B, Blockers)
<1> DEFINE Ring(p, n) == /\ \A i, j \in 1..n : p[i] = p[j] => i = j
                         /\ \A i \in 1..n : p[IF i = n THEN 1 ELSE i + 1] \in Blockers(p[i])
<1>1. ASSUME NEW S \in SUBSET Fibers
      PROVE  /\ IsFiniteSet(S) /\ Cardinality(S) \in Nat
             /\ \A p \in Paths(S) : \E n \in 1..Cardinality(S) :
                  p \in [1..n -> S] /\ \A i, j \in 1..n : p[i] = p[j] => i = j
             /\ \A n \in 1..Cardinality(S) : \A p \in [1..n -> S] :
                  (\A i, j \in 1..n : p[i] = p[j] => i = j) => p \in Paths(S)
  <2>1. IsFiniteSet(S) /\ Cardinality(S) \in Nat
    BY FibersFinite, FS_Subset, FS_CardinalityType
  <2> QED BY <2>1 DEF Paths
<1>2. ASSUME NEW S \in SUBSET Fibers, NEW p
      PROVE  /\ p \in CyclesIn(S, Blockers) <=> p \in CyclesIn(S, Owes)
             /\ p \in CyclesIn(S, Blockers) <=>
                  \E n \in Nat \ {0} : p \in [1..n -> S] /\ Ring(p, n)
  <2> DEFINE waits == {f \in S : Blockers(f) # {}}
  <2>0. waits \in SUBSET Fibers /\ waits \subseteq S /\ {f \in S : Owes(f) # {}} = waits
    BY OwesIsBlocked
  <2>1. p \in CyclesIn(S, Owes) <=>
          p \in Paths(waits) /\ \A i \in DOMAIN p : p[IF i = Len(p) THEN 1 ELSE i + 1] \in Owes(p[i])
    BY <2>0 DEF CyclesIn
  <2>2. p \in CyclesIn(S, Blockers) <=>
          p \in Paths(waits) /\ \A i \in DOMAIN p : p[IF i = Len(p) THEN 1 ELSE i + 1] \in Blockers(p[i])
    BY DEF CyclesIn
  <2> HIDE DEF waits
  <2>3. p \in Paths(waits) => \A i \in DOMAIN p : p[i] \in Fibers
    BY <2>0, <1>1
  <2>4. p \in Paths(waits) => \A i \in DOMAIN p : Owes(p[i]) = Blockers(p[i])
    BY <2>3, OwesIsBlocked
  <2>5. p \in CyclesIn(S, Blockers) <=> p \in CyclesIn(S, Owes)
    BY <2>1, <2>2, <2>4
  <2>6. ASSUME p \in CyclesIn(S, Blockers)
        PROVE  \E n \in Nat \ {0} : p \in [1..n -> S] /\ Ring(p, n)
    <3>1. PICK n \in 1..Cardinality(waits) :
            p \in [1..n -> waits] /\ \A i, j \in 1..n : p[i] = p[j] => i = j
      BY <2>0, <2>2, <2>6, <1>1
    <3>2. n \in Nat \ {0} /\ Len(p) = n /\ DOMAIN p = 1..n /\ p \in [1..n -> S]
      BY <2>0, <3>1, <1>1
    <3> QED BY <3>1, <3>2, <2>2, <2>6
  <2>7. ASSUME NEW n \in Nat \ {0}, p \in [1..n -> S], Ring(p, n)
        PROVE  p \in CyclesIn(S, Blockers)
    <3>1. \A i \in 1..n : p[i] \in waits
      BY <2>7 DEF waits
    <3>2. p \in [1..n -> waits]
      BY <2>7, <3>1
    <3>3. n <= Cardinality(waits)
      BY <2>0, <2>7, <3>2, <1>1, PathShort
    <3>4. p \in Paths(waits) /\ Len(p) = n /\ DOMAIN p = 1..n
      BY <2>0, <2>7, <3>2, <3>3, <1>1
    <3> QED BY <2>2, <2>7, <3>4
  <2> QED BY <2>5, <2>6, <2>7
<1> HIDE DEF Ring
<1>3. ASSUME NEW p \in CyclesIn(A, Owes) PROVE p \in CyclesIn(A, Blockers)
  BY <1>2
<1>4. ASSUME NEW p \in CyclesIn(A, Blockers)
      PROVE  p \in CyclesIn(A, Owes) /\ 1 \in DOMAIN p /\ Members(p) \subseteq A
  <2>1. PICK n \in Nat \ {0} : p \in [1..n -> A]
    BY <1>2
  <2>2. DOMAIN p = 1..n /\ 1 \in 1..n /\ \A i \in 1..n : p[i] \in A
    BY <2>1
  <2>3. Members(p) \subseteq A
    BY <2>2 DEF Members
  <2> QED BY <2>2, <2>3, <1>2
<1>5. ASSUME NEW p \in CyclesIn(A, Blockers), Members(p) \subseteq B
      PROVE  p \in CyclesIn(B, Blockers)
  <2>1. PICK n \in Nat \ {0} : p \in [1..n -> A] /\ Ring(p, n)
    BY <1>2
  <2>2. \A i \in 1..n : p[i] \in B
    BY <2>1, <1>5 DEF Members
  <2>3. p \in [1..n -> B]
    BY <2>1, <2>2
  <2> QED BY <2>1, <2>3, <1>2
<1> QED BY <1>3, <1>4, <1>5

\* What is cut out of the graph is in a cycle that was found, and a cycle in what is
\* left of it is one of the whole.
THEOREM WaitingInvHolds == ASSUME WaitingConstants PROVE WaitingSpec => []WaitingInv
<1>1. WaitingInit => WaitingInv
  BY DEF WaitingInit, WaitingInv
<1>2. WaitingInv /\ [WaitingNext]_waitingVars => WaitingInv'
  <2> SUFFICES ASSUME WaitingInv, [WaitingNext]_waitingVars PROVE WaitingInv'
    OBVIOUS
  <2>1. /\ tree \in Trees /\ remaining \in SUBSET Fibers /\ Fibers \in SUBSET Fibers
        /\ \A c \in found : \E q \in Cycles : c = Members(q)
        /\ \A f \in Fibers \ remaining : \E c \in found : f \in c
    BY DEF WaitingInv
  <2>2. CASE CutCycle
    <3>1. PICK p \in CyclesIn(remaining, Blockers) :
            /\ found' = found \cup {Members(p)}
            /\ remaining' = remaining \ {p[1]}
            /\ tree' = tree
      BY <2>2 DEF CutCycle, Members
    <3>2. 1 \in DOMAIN p /\ p \in CyclesIn(remaining, Owes) /\ Members(p) \subseteq Fibers
      BY <2>1, SameCycles
    <3>3. p \in CyclesIn(Fibers, Owes)
      BY <2>1, <3>2, SameCycles
    <3>4. Cycles' = Cycles
      BY <3>1 DEF Cycles, CyclesIn, Owes
    <3>5. p[1] \in Members(p) /\ p \in Cycles
      BY <3>2, <3>3 DEF Members, Cycles
    <3>6. \A c \in found' : \E q \in Cycles' : c = Members(q)
      BY <2>1, <3>1, <3>4, <3>5
    <3>7. \A f \in Fibers \ remaining' : \E c \in found' : f \in c
      BY <2>1, <3>1, <3>5
    <3>8. tree' \in Trees /\ remaining' \in SUBSET Fibers
      BY <2>1, <3>1
    <3> QED BY <3>6, <3>7, <3>8 DEF WaitingInv
  <2>3. CASE UNCHANGED waitingVars
    <3>1. tree' = tree /\ remaining' = remaining /\ found' = found
      BY <2>3 DEF waitingVars
    <3>2. Cycles' = Cycles
      BY <3>1 DEF Cycles, CyclesIn, Owes
    <3>3. \A c \in found' : \E q \in Cycles' : c = Members(q)
      BY <2>1, <3>1, <3>2
    <3> QED BY <2>1, <3>1, <3>3 DEF WaitingInv
  <2> QED BY <2>2, <2>3 DEF WaitingNext
<1> QED BY <1>1, <1>2, PTL DEF WaitingSpec

\* Where the sort has nothing left to find, every cycle is met by one that was found.
LEMMA CyclesAreNamed == ASSUME WaitingConstants, WaitingInv PROVE CyclesNamed
<1>1. /\ tree \in Trees /\ remaining \in SUBSET Fibers /\ Fibers \in SUBSET Fibers
      /\ \A c \in found : \E q \in Cycles : c = Members(q)
      /\ \A f \in Fibers \ remaining : \E c \in found : f \in c
  BY DEF WaitingInv
<1>2. ASSUME Sorted, NEW p \in CyclesIn(Fibers, Owes)
      PROVE  \E c \in found : \E i \in DOMAIN p : p[i] \in c
  <2>1. p \in CyclesIn(Fibers, Blockers) /\ Members(p) \subseteq Fibers
    BY <1>1, SameCycles
  <2>2. Members(p) \subseteq remaining => p \in CyclesIn(remaining, Blockers)
    BY <1>1, <2>1, SameCycles
  <2>3. PICK i \in DOMAIN p : p[i] \notin remaining /\ p[i] \in Fibers
    BY <1>2, <2>1, <2>2 DEF Sorted, Members
  <2> QED BY <1>1, <2>3
<1>3. \A c \in found : \E p \in CyclesIn(Fibers, Owes) : c = {p[i] : i \in DOMAIN p}
  BY <1>1 DEF Cycles, Members
<1> QED BY <1>2, <1>3 DEF CyclesNamed

-----------------------------------------------------------------------------
\* Waiting: the instance that is blamed.

\* The first provider is a provider (_provider).
LEMMA ProviderProvides ==
  ASSUME WaitingConstants, NEW f, NEW n, HasProvider(f, n)
  PROVE  Provider(f, n) \in Fibers /\ Provides(f, Provider(f, n), n)
<1> DEFINE S == {i \in DOMAIN Mounted : Provides(f, Mounted[i], n)}
           at == First(Mounted, LAMBDA g : Provides(f, g, n))
<1>1. DOMAIN Mounted = 1..Len(Mounted) /\ Len(Mounted) \in Nat
  BY DEF WaitingConstants
<1>2. S \in SUBSET Nat /\ S # {}
  BY <1>1 DEF HasProvider, Fibers
<1>3. PICK i \in S : \A k \in S : i <= k
  BY <1>2, LeastNumber
<1>4. \A j \in 1..i - 1 : ~Provides(f, Mounted[j], n)
  BY <1>1, <1>3
<1>5. at \in DOMAIN Mounted /\ Provides(f, Mounted[at], n)
  BY <1>3, <1>4 DEF First
<1>6. Provider(f, n) = Mounted[at]
  BY DEF Provider
<1> QED BY <1>5, <1>6 DEF Fibers

Link(f, met) == Tokens[First(Tokens, LAMBDA x : Leads(f, x, met))]

\* The name that leads on is one that does (_next).
LEMMA LinkLeads ==
  ASSUME WaitingConstants, NEW f, NEW met, \E m \in Services : Leads(f, m, met)
  PROVE  Link(f, met) \in Services /\ Leads(f, Link(f, met), met)
<1> DEFINE S == {i \in DOMAIN Tokens : Leads(f, Tokens[i], met)}
           at == First(Tokens, LAMBDA x : Leads(f, x, met))
<1>1. DOMAIN Tokens = 1..Len(Tokens) /\ Len(Tokens) \in Nat
  BY DEF WaitingConstants
<1>2. S \in SUBSET Nat /\ S # {}
  BY <1>1 DEF Services
<1>3. PICK i \in S : \A k \in S : i <= k
  BY <1>2, LeastNumber
<1>4. \A j \in 1..i - 1 : ~Leads(f, Tokens[j], met)
  BY <1>1, <1>3
<1>5. at \in DOMAIN Tokens /\ Leads(f, Tokens[at], met)
  BY <1>3, <1>4 DEF First
<1> QED BY <1>5 DEF Link, Services

\* A trace from f as far as it has come: everybody on it but f is waited for by
\* somebody on it.  It is stuck when no name leads on.
Traced(f, s) ==
    /\ f \in s.seen /\ s.end \in s.seen /\ s.end # f
    /\ s.seen \in SUBSET Fibers
    /\ \A g \in s.seen \ {f} : \E h \in s.seen, m \in Services :
         m \in tree[h].missing /\ Provides(h, g, m)
Stuck(s) == \A m \in Services : ~Leads(s.end, m, s.seen)

\* A link keeps that, and adds an instance unless the trace is stuck.
LEMMA OnwardTraced ==
  ASSUME WaitingConstants, NEW f \in Fibers, NEW s, Traced(f, s)
  PROVE  /\ Traced(f, Onward(s))
         /\ Stuck(s) => Onward(s) = s
         /\ ~Stuck(s) => \E p \in Fibers \ s.seen : Onward(s).seen = s.seen \cup {p}
<1>1. Stuck(s) => Onward(s) = s
  BY DEF Onward, Stuck
<1>2. ASSUME ~Stuck(s)
      PROVE  /\ Traced(f, Onward(s))
             /\ \E p \in Fibers \ s.seen : Onward(s).seen = s.seen \cup {p}
  <2> DEFINE m == Link(s.end, s.seen)
             p == Provider(s.end, m)
  <2>1. \E x \in Services : Leads(s.end, x, s.seen)
    BY <1>2 DEF Stuck
  <2>2. Onward(s) = [end |-> p, seen |-> s.seen \cup {p}]
    BY <2>1 DEF Onward, Link
  <2>3. m \in Services /\ Leads(s.end, m, s.seen)
    BY <2>1, LinkLeads
  <2> HIDE DEF m
  <2>4. m \in tree[s.end].missing /\ HasProvider(s.end, m) /\ p \notin s.seen
    BY <2>3 DEF Leads
  <2>5. p \in Fibers /\ Provides(s.end, p, m)
    BY <2>4, ProviderProvides
  <2> HIDE DEF p
  <2>6. Onward(s).end = p /\ Onward(s).seen = s.seen \cup {p}
    BY <2>2
  <2>7. /\ f \in s.seen /\ s.end \in s.seen /\ s.seen \in SUBSET Fibers
        /\ \A g \in s.seen \ {f} : \E h \in s.seen, x \in Services :
             x \in tree[h].missing /\ Provides(h, g, x)
    BY DEF Traced
  <2>8. ASSUME NEW g \in (s.seen \cup {p}) \ {f}
        PROVE  \E h \in s.seen \cup {p}, x \in Services :
                 x \in tree[h].missing /\ Provides(h, g, x)
    <3>1. CASE g \in s.seen
      BY <2>7, <3>1
    <3>2. CASE g = p
      BY <2>3, <2>4, <2>5, <2>7, <3>2
    <3> QED BY <3>1, <3>2
  <2>9. Traced(f, Onward(s))
    BY <2>4, <2>5, <2>6, <2>7, <2>8 DEF Traced
  <2> QED BY <2>4, <2>5, <2>6, <2>9
<1> QED BY <1>1, <1>2

\* A trace link by link, from x.
Walk(x, walk, n) == walk = [k \in 0..n |-> IF k = 0 THEN x ELSE Onward(walk[k - 1])]

\* There is one, for any number of links.
LEMMA Walkable == ASSUME NEW x, NEW n \in Nat PROVE \E walk : Walk(x, walk, n)
<1> DEFINE Bad == {k \in Nat : ~ \E walk : Walk(x, walk, k)}
<1> SUFFICES ASSUME Bad # {} PROVE FALSE
  BY Zenon
<1>1. PICK k \in Bad : \A j \in Bad : k <= j
  <2>1. Bad \in SUBSET Nat /\ Bad # {}
    OBVIOUS
  <2> HIDE DEF Bad
  <2> QED BY <2>1, LeastNumber
<1>2. k \in Nat /\ ~ \E walk : Walk(x, walk, k)
  BY <1>1
<1>3. k # 0
  <2> SUFFICES ASSUME k = 0 PROVE FALSE
    OBVIOUS
  <2> DEFINE w == [i \in 0..0 |-> x]
  <2>1. w = [i \in 0..0 |-> IF i = 0 THEN x ELSE Onward(w[i - 1])]
    OBVIOUS
  <2>2. Walk(x, w, 0)
    BY <2>1, Zenon DEF Walk
  <2> HIDE DEF w
  <2> QED BY <1>2, <2>2
<1>4. k - 1 \in Nat /\ k - 1 \notin Bad
  BY <1>1, <1>2, <1>3
<1>5. PICK w : Walk(x, w, k - 1)
  BY <1>4
<1>6. \A i \in 0..k - 1 : w[i] = IF i = 0 THEN x ELSE Onward(w[i - 1])
  BY <1>5 DEF Walk
<1> DEFINE v == [i \in 0..k |-> IF i = k THEN Onward(w[k - 1]) ELSE w[i]]
<1>7. v[k] = Onward(w[k - 1]) /\ \A i \in 0..k - 1 : v[i] = w[i]
  BY <1>2
<1>8. v = [i \in 0..k |-> v[i]]
  OBVIOUS
<1> HIDE DEF v
<1>9. ASSUME NEW i \in 0..k PROVE v[i] = IF i = 0 THEN x ELSE Onward(v[i - 1])
  <2>1. CASE i = k
    <3>1. v[k - 1] = w[k - 1]
      BY <1>4, <1>7
    <3> QED BY <1>3, <1>7, <2>1, <3>1
  <2>2. CASE i # k
    <3>1. i \in 0..k - 1 /\ (i # 0 => i - 1 \in 0..k - 1)
      BY <1>2, <2>2
    <3> QED BY <1>6, <1>7, <3>1
  <2> QED BY <2>1, <2>2
<1>10. v = [i \in 0..k |-> IF i = 0 THEN x ELSE Onward(v[i - 1])]
  BY <1>8, <1>9
<1> QED BY <1>2, <1>10, Zenon DEF Walk

\* A trace has stopped by the time it has made as many links as there are instances.
LEMMA TraceStuck ==
  ASSUME WaitingConstants, tree \in Trees, NEW f \in Fibers,
         NEW n \in tree[f].missing, HasProvider(f, n)
  PROVE  Traced(f, Trace(f, n)) /\ Stuck(Trace(f, n))
<1> DEFINE x == [end |-> Provider(f, n), seen |-> {f, Provider(f, n)}]
           L == Len(Mounted)
           w == CHOOSE w : Walk(x, w, L)
<1>1. L \in Nat
  BY DEF WaitingConstants
<1>2. Trace(f, n) = w[L]
  BY Zenon DEF Trace, Walk
<1>3. Walk(x, w, L)
  BY <1>1, Walkable, Zenon
<1>4. Traced(f, x) /\ Cardinality(x.seen) = 2
  <2>1. Provider(f, n) \in Fibers /\ Provides(f, Provider(f, n), n)
    BY ProviderProvides
  <2>2. n \in Services /\ Provider(f, n) # f
    BY <2>1 DEF Trees, Provides
  <2>3. x.end = Provider(f, n) /\ x.seen = {f, Provider(f, n)}
    OBVIOUS
  <2> HIDE DEF x
  <2>4. Traced(f, x)
    BY <2>1, <2>2, <2>3 DEF Traced
  <2>5. Cardinality({f}) = 1 /\ IsFiniteSet({f})
    BY FS_Singleton
  <2>6. Cardinality({f} \cup {Provider(f, n)}) = 2
    <3>1. Provider(f, n) \notin {f}
      BY <2>2
    <3>2. Cardinality({f} \cup {Provider(f, n)}) = Cardinality({f}) + 1
      BY <2>5, <3>1, FS_AddElement
    <3> QED BY <2>5, <3>2
  <2>7. x.seen = {f} \cup {Provider(f, n)}
    BY <2>3
  <2> QED BY <2>4, <2>6, <2>7
<1> HIDE DEF x, w, L
<1>5. w[0] = x /\ \A k \in 1..L : w[k] = Onward(w[k - 1])
  BY <1>1, <1>3 DEF Walk
<1> DEFINE Good(k) == /\ Traced(f, w[k])
                      /\ Stuck(w[k]) \/ Cardinality(w[k].seen) >= k + 2
<1>6. ASSUME NEW k \in 1..L, Good(k - 1) PROVE Good(k)
  <2>1. /\ Traced(f, w[k])
        /\ Stuck(w[k - 1]) => w[k] = w[k - 1]
        /\ ~Stuck(w[k - 1]) => \E p \in Fibers \ w[k - 1].seen : w[k].seen = w[k - 1].seen \cup {p}
    BY <1>5, <1>6, OnwardTraced
  <2>2. CASE Stuck(w[k - 1])
    BY <2>1, <2>2
  <2>3. CASE ~Stuck(w[k - 1])
    <3>1. PICK p \in Fibers \ w[k - 1].seen : w[k].seen = w[k - 1].seen \cup {p}
      BY <2>1, <2>3
    <3>2. IsFiniteSet(w[k - 1].seen) /\ Cardinality(w[k - 1].seen) \in Nat
      BY <1>6, FibersFinite, FS_Subset, FS_CardinalityType DEF Traced
    <3>3. Cardinality(w[k].seen) = Cardinality(w[k - 1].seen) + 1
      BY <3>1, <3>2, FS_AddElement
    <3>4. Cardinality(w[k - 1].seen) >= k + 1
      BY <1>1, <1>6, <2>3
    <3> QED BY <1>1, <2>1, <3>2, <3>3, <3>4
  <2> QED BY <2>2, <2>3
<1>7. Good(0)
  BY <1>4, <1>5
<1>8. Good(L)
  <2> HIDE DEF Good
  <2> DEFINE Bad == {k \in 0..L : ~Good(k)}
  <2> SUFFICES ASSUME Bad # {} PROVE FALSE
    BY <1>1
  <2>1. PICK k \in Bad : \A j \in Bad : k <= j
    <3>1. Bad \in SUBSET Nat /\ Bad # {}
      BY <1>1
    <3> HIDE DEF Bad
    <3> QED BY <3>1, LeastNumber
  <2>2. k \in 1..L /\ k - 1 \in 0..L /\ k - 1 \notin Bad
    BY <1>1, <1>7, <2>1
  <2> QED BY <1>6, <2>1, <2>2
<1>9. Cardinality(w[L].seen) <= L /\ Cardinality(w[L].seen) \in Nat
  <2>1. w[L].seen \in SUBSET Fibers
    BY <1>8 DEF Traced
  <2> QED BY <1>1, <2>1, FibersFinite, FS_Subset, FS_CardinalityType DEF L
<1> QED BY <1>1, <1>2, <1>8, <1>9

\* So blame ends where the names that are missing lead no further.
LEMMA BlameHolds == ASSUME WaitingConstants, tree \in Trees PROVE BlameEnds
<1> SUFFICES ASSUME NEW f \in Fibers, NEW n \in tree[f].missing, HasProvider(f, n)
             PROVE  LET t == Trace(f, n)
                        waits(g, m) == {h \in Fibers \ {g} : m \in tree[h].provides
                             /\ (m \in tree[g].isolated) = (m \in tree[h].isolated)}
                    IN /\ t.end # f
                       /\ \A g \in t.seen \ {f} : \E h \in t.seen, m \in Services :
                            m \in tree[h].missing /\ g \in waits(h, m)
                       /\ \A m \in tree[t.end].missing :
                            waits(t.end, m) = {} \/ waits(t.end, m) \cap t.seen # {}
  BY DEF BlameEnds
<1> DEFINE t == Trace(f, n)
           waits(g, m) == {h \in Fibers \ {g} : m \in tree[h].provides
                             /\ (m \in tree[g].isolated) = (m \in tree[h].isolated)}
<1>1. Traced(f, t) /\ Stuck(t)
  BY TraceStuck
<1> HIDE DEF t
<1>2. ASSUME NEW g, NEW h, NEW m
      PROVE  h \in waits(g, m) <=> h \in Fibers /\ Provides(g, h, m)
  BY DEF Provides, OneRealm
<1> HIDE DEF waits
<1>3. t.end # f /\ t.end \in Fibers /\ t.seen \in SUBSET Fibers
  BY <1>1 DEF Traced
<1>4. ASSUME NEW g \in t.seen \ {f}
      PROVE  \E h \in t.seen, m \in Services : m \in tree[h].missing /\ g \in waits(h, m)
  BY <1>1, <1>2, <1>3 DEF Traced
<1>5. ASSUME NEW m \in tree[t.end].missing
      PROVE  waits(t.end, m) = {} \/ waits(t.end, m) \cap t.seen # {}
  <2>1. m \in Services
    BY <1>3 DEF Trees
  <2>2. ~HasProvider(t.end, m) \/ Provider(t.end, m) \in t.seen
    BY <1>1, <2>1 DEF Stuck, Leads
  <2>3. CASE ~HasProvider(t.end, m)
    BY <1>2, <2>3 DEF HasProvider
  <2>4. CASE HasProvider(t.end, m)
    BY <1>2, <2>2, <2>4, ProviderProvides
  <2> QED BY <2>3, <2>4
<1> QED BY <1>3, <1>4, <1>5 DEF t, waits

\* The cycles that are reported are the ones there are, and blame falls on somebody
\* the waiting instance waits for (audit, pending).
THEOREM DiagnosedHolds == ASSUME WaitingConstants PROVE WaitingSpec => []Diagnosed
<1>1. WaitingInv => Diagnosed
  BY CyclesAreNamed, BlameHolds DEF Diagnosed, WaitingInv
<1> QED BY <1>1, WaitingInvHolds, PTL

-----------------------------------------------------------------------------
\* Layering: paths.

\* A row of a patch, at the path it gets below the target.
LEMMA RowPath ==
  ASSUME LayeringConstants, NEW patch \in Patches, NEW q \in DOMAIN patch.insert
  PROVE  LET p == patch.id \o q IN
         /\ p \in Seq(Ids) /\ p # <<>> /\ p # patch.id
         /\ Len(p) = Len(patch.id) + Len(q) /\ Len(q) \in Nat \ {0} /\ Len(patch.id) \in Nat
         /\ Inserted(patch, p) = patch.insert[q]
         /\ Len(q) = 1 => Parent(p) = patch.id
         /\ Len(q) > 1 => Parent(p) = patch.id \o Parent(q)
         /\ SubSeq(p, 1, Len(patch.id) + 1) = patch.id \o SubSeq(q, 1, 1)
<1> DEFINE id == patch.id
           p == id \o q
<1>1. id \in Seq(Ids) /\ q \in Seq(Ids) /\ q # <<>>
  BY DEF LayeringConstants, Document
<1>2. Len(id) \in Nat /\ Len(q) \in Nat \ {0}
  BY <1>1, LenProperties, EmptySeq
<1> HIDE DEF id
<1>3. /\ p \in Seq(Ids) /\ Len(p) = Len(id) + Len(q)
      /\ \A i \in 1..Len(id) + Len(q) : p[i] = IF i <= Len(id) THEN id[i] ELSE q[i - Len(id)]
  BY <1>1, ConcatProperties
<1>4. p # <<>> /\ p # id
  BY <1>1, <1>2, <1>3, EmptySeq
<1>5. SubSeq(p, Len(id) + 1, Len(p)) = q
  <2>1. SubSeq(p, Len(id) + 1, Len(id) + Len(q)) = SubSeq(q, 1, Len(q))
    <3>1. Len(id) + 1 \in Len(id) + 1 .. Len(id) + Len(q)
      BY <1>2
    <3>2. Len(id) + Len(q) \in Len(id) + 1 .. Len(id) + Len(q)
      BY <1>2
    <3>3. SubSeq(p, Len(id) + 1, Len(id) + Len(q))
            = SubSeq(q, Len(id) + 1 - Len(id), Len(id) + Len(q) - Len(id))
      BY <1>1, <3>1, <3>2, SubSeqOfConcat2
    <3> QED BY <1>2, <3>3
  <2> QED BY <1>1, <1>3, <2>1, SubSeqFull
<1>6. \A n \in Nat : n <= Len(id) + Len(q) =>
        LET cut == SubSeq(p, 1, n) IN
        cut \in Seq(Ids) /\ Len(cut) = n /\ \A i \in 1..n : cut[i] = p[i]
  <2> SUFFICES ASSUME NEW n \in Nat, n <= Len(id) + Len(q)
               PROVE  LET cut == SubSeq(p, 1, n) IN
                      cut \in Seq(Ids) /\ Len(cut) = n /\ \A i \in 1..n : cut[i] = p[i]
    OBVIOUS
  <2>1. \A i \in 1..n : p[i] \in Ids
    BY <1>2, <1>3, ElementOfSeq
  <2> HIDE DEF p
  <2>2. SubSeq(p, 1, n) \in Seq(Ids) /\ Len(SubSeq(p, 1, n)) = IF 1 <= n THEN n - 1 + 1 ELSE 0
    BY <2>1, SubSeqProperties
  <2>3. \A i \in 1..n - 1 + 1 : SubSeq(p, 1, n)[i] = p[1 + i - 1]
    BY <2>1, SubSeqProperties
  <2> QED BY <2>2, <2>3
<1>7. \A n \in 1..Len(q) :
        LET cut == SubSeq(q, 1, n) IN
        cut \in Seq(Ids) /\ Len(cut) = n /\ \A i \in 1..n : cut[i] = q[i]
  <2> SUFFICES ASSUME NEW n \in 1..Len(q)
               PROVE  LET cut == SubSeq(q, 1, n) IN
                      cut \in Seq(Ids) /\ Len(cut) = n /\ \A i \in 1..n : cut[i] = q[i]
    OBVIOUS
  <2>1. \A i \in 1..n : q[i] \in Ids
    BY <1>1, <1>2, ElementOfSeq
  <2>2. SubSeq(q, 1, n) \in Seq(Ids) /\ Len(SubSeq(q, 1, n)) = IF 1 <= n THEN n - 1 + 1 ELSE 0
    BY <2>1, SubSeqProperties
  <2>3. \A i \in 1..n - 1 + 1 : SubSeq(q, 1, n)[i] = q[1 + i - 1]
    BY <2>1, SubSeqProperties
  <2> QED BY <1>2, <2>2, <2>3
<1> HIDE DEF p
<1>8. ASSUME NEW n \in 1..Len(q) PROVE SubSeq(p, 1, Len(id) + n) = id \o SubSeq(q, 1, n)
  <2> DEFINE cut == SubSeq(q, 1, n)
             new == SubSeq(p, 1, Len(id) + n)
  <2>1. /\ new \in Seq(Ids) /\ Len(new) = Len(id) + n
        /\ \A i \in 1..Len(id) + n : new[i] = p[i]
    BY <1>2, <1>6
  <2>2. cut \in Seq(Ids) /\ Len(cut) = n /\ \A i \in 1..n : cut[i] = q[i]
    BY <1>7
  <2> HIDE DEF cut, new
  <2>3. /\ id \o cut \in Seq(Ids) /\ Len(id \o cut) = Len(id) + n
        /\ \A i \in 1..Len(id) + n :
             (id \o cut)[i] = IF i <= Len(id) THEN id[i] ELSE cut[i - Len(id)]
    BY <1>1, <2>2, ConcatProperties
  <2>4. ASSUME NEW i \in 1..Len(id) + n PROVE new[i] = (id \o cut)[i]
    <3>1. i \in 1..Len(id) + Len(q) /\ new[i] = p[i]
      BY <1>2, <2>1
    <3>2. CASE i <= Len(id)
      BY <1>3, <2>3, <3>1, <3>2
    <3>3. CASE ~(i <= Len(id))
      <4>1. i - Len(id) \in 1..n
        BY <1>2, <3>3
      <4>2. cut[i - Len(id)] = q[i - Len(id)]
        BY <2>2, <4>1
      <4> QED BY <1>3, <2>3, <3>1, <3>3, <4>2
    <3> QED BY <3>2, <3>3
  <2>5. new = id \o cut
    BY <2>1, <2>3, <2>4, SeqEqual
  <2> QED BY <2>5 DEF cut, new
<1>9. Len(q) = 1 => SubSeq(p, 1, Len(p) - 1) = id
  <2> SUFFICES ASSUME Len(q) = 1 PROVE SubSeq(p, 1, Len(id)) = id
    BY <1>2, <1>3
  <2> DEFINE new == SubSeq(p, 1, Len(id))
  <2>1. new \in Seq(Ids) /\ Len(new) = Len(id) /\ \A i \in 1..Len(id) : new[i] = id[i]
    BY <1>2, <1>3, <1>6
  <2> HIDE DEF new
  <2>2. new = id
    BY <1>1, <2>1, SeqEqual
  <2> QED BY <2>2 DEF new
<1>10. Len(q) > 1 => SubSeq(p, 1, Len(p) - 1) = id \o SubSeq(q, 1, Len(q) - 1)
  <2> SUFFICES ASSUME Len(q) > 1 PROVE SubSeq(p, 1, Len(p) - 1) = id \o SubSeq(q, 1, Len(q) - 1)
    OBVIOUS
  <2>1. Len(q) - 1 \in 1..Len(q) /\ Len(p) - 1 = Len(id) + (Len(q) - 1)
    BY <1>2, <1>3
  <2> QED BY <1>8, <2>1
<1>11. SubSeq(p, 1, Len(id) + 1) = id \o SubSeq(q, 1, 1)
  BY <1>2, <1>8
<1>12. Inserted(patch, p) = patch.insert[q]
  BY <1>5 DEF Inserted, id
<1> QED BY <1>2, <1>3, <1>4, <1>9, <1>10, <1>11, <1>12 DEF Parent, p, id

\* The groups an entry is in are there.
LEMMA PrefixIn ==
  ASSUME NEW d, Document(d), NEW p \in DOMAIN d, NEW n \in 1..Len(p)
  PROVE  SubSeq(p, 1, n) \in DOMAIN d
<1>1. p \in Seq(Ids) /\ Len(p) \in Nat
  BY LenProperties DEF Document
<1>2. SubSeq(p, 1, Len(p)) = p
  BY <1>1, SubSeqFull
<1> DEFINE Bad == {k \in Nat : k < Len(p) /\ SubSeq(p, 1, Len(p) - k) \notin DOMAIN d}
<1>3. Bad = {}
  <2> SUFFICES ASSUME Bad # {} PROVE FALSE
    OBVIOUS
  <2>1. PICK k \in Bad : \A j \in Bad : k <= j
    <3>1. Bad \in SUBSET Nat /\ Bad # {}
      OBVIOUS
    <3> HIDE DEF Bad
    <3> QED BY <3>1, LeastNumber
  <2>2. k \in Nat /\ k # 0 /\ k < Len(p)
    <3>1. k \in Nat /\ k < Len(p) /\ SubSeq(p, 1, Len(p) - k) # p
      BY <2>1
    <3>2. k = 0 => Len(p) - k = Len(p)
      BY <1>1
    <3> QED BY <1>2, <3>1, <3>2
  <2> DEFINE m == Len(p) - (k - 1)
             longer == SubSeq(p, 1, m)
  <2>3. m \in Nat /\ m > 1 /\ m \in 1..Len(p)
    BY <1>1, <2>2
  <2>4. k - 1 \in Nat /\ k - 1 < Len(p) /\ k - 1 \notin Bad
    BY <1>1, <2>1, <2>2
  <2>5. longer \in DOMAIN d
    BY <2>4
  <2>6. \A i \in 1..m : p[i] \in Ids
    BY <1>1, <2>3, ElementOfSeq
  <2> HIDE DEF m
  <2>7. Len(longer) = m
    <3>1. Len(SubSeq(p, 1, m)) = IF 1 <= m THEN m - 1 + 1 ELSE 0
      BY <2>3, <2>6, SubSeqProperties
    <3> QED BY <2>3, <3>1
  <2>8. Parent(longer) \in DOMAIN d
    <3>1. \A x \in DOMAIN d : Len(x) > 1 => Parent(x) \in DOMAIN d
      BY DEF Document
    <3> HIDE DEF longer
    <3> QED BY <2>3, <2>5, <2>7, <3>1
  <2>9. SubSeq(longer, 1, m - 1) = SubSeq(p, 1, m - 1)
    <3>1. /\ 1 \in 1..Len(p) /\ m \in 1..Len(p)
          /\ 1 \in 1..m - 1 + 1 /\ m - 1 \in 1..m - 1 + 1
      BY <1>1, <2>3
    <3>2. SubSeq(SubSeq(p, 1, m), 1, m - 1) = SubSeq(p, 1 + 1 - 1, 1 + (m - 1) - 1)
      BY <1>1, <3>1, SubSeqOfSubSeq
    <3> QED BY <2>3, <3>2
  <2>10. m - 1 = Len(p) - k
    BY <1>1, <2>2 DEF m
  <2> QED BY <2>1, <2>7, <2>8, <2>9, <2>10 DEF Parent
<1>4. Len(p) - n \in Nat /\ Len(p) - n < Len(p) /\ Len(p) - (Len(p) - n) = n
  BY <1>1
<1> QED BY <1>3, <1>4

-----------------------------------------------------------------------------
\* Layering: who wrote what.

\* A patch speaks of a field of an entry, and what it makes of it.
Says(patch, p, f) == (p = patch.id /\ f \in Wrote(patch)) \/ p \in Rows(patch)
Said(patch, p, f) ==
    IF p = patch.id THEN (IF f \in DOMAIN patch.fields THEN patch.fields[f] ELSE TRUE)
    ELSE Inserted(patch, p)[f]

\* A field is as in the base, or as the last patch that speaks of it says.
AsInBase(p, f) ==
    /\ \A n \in DOMAIN folded : ~Says(folded[n].patch, p, f)
    /\ provenance[p][f] = BaseSource /\ entries[p][f] = Base[p][f]
AsSaid(p, f) ==
    \E n \in DOMAIN folded :
        /\ Says(folded[n].patch, p, f)
        /\ \A k \in DOMAIN folded : Says(folded[k].patch, p, f) => k <= n
        /\ provenance[p][f] = folded[n].source /\ entries[p][f] = Said(folded[n].patch, p, f)

Folds == Seq([patch : Patches, source : {Sources[i] : i \in DOMAIN Sources}])

LayeringInv ==
    /\ folded \in Folds /\ layer \in Nat \ {0}
    /\ Document(entries) /\ DOMAIN provenance = DOMAIN entries
    /\ DOMAIN Base \subseteq DOMAIN entries
    /\ \A n \in DOMAIN folded : Rows(folded[n].patch) \subseteq DOMAIN entries
    /\ \A p \in DOMAIN entries, f \in Fields : AsInBase(p, f) \/ AsSaid(p, f)
    /\ NothingHidden

\* What the reasons for a refusal leave of a patch that is not refused.
LEMMA Accepted ==
  ASSUME NEW patch, Refusal(patch) = "none"
  PROVE  /\ patch.id # <<>> => patch.id \in DOMAIN entries
         /\ Rows(patch) # {} /\ patch.id # <<>> => entries[patch.id].group
         /\ \A p \in Rows(patch) : Parent(p) = patch.id => p \notin DOMAIN entries
BY DEF Refusal, Target

\* No row of a patch that is not refused is there already.
LEMMA RowsAreNew ==
  ASSUME LayeringConstants, Document(entries), NEW patch \in Patches, Refusal(patch) = "none"
  PROVE  Rows(patch) \cap DOMAIN entries = {}
<1> SUFFICES ASSUME NEW q \in DOMAIN patch.insert, patch.id \o q \in DOMAIN entries PROVE FALSE
  BY DEF Rows
<1> DEFINE p == patch.id \o q
           m == Len(patch.id) + 1
           top == SubSeq(q, 1, 1)
<1>1. /\ Len(p) = Len(patch.id) + Len(q) /\ Len(q) \in Nat \ {0} /\ Len(patch.id) \in Nat
      /\ SubSeq(p, 1, m) = patch.id \o top
  BY RowPath
<1>2. Document(patch.insert) /\ q \in Seq(Ids)
  BY DEF LayeringConstants, Document
<1>3. top \in DOMAIN patch.insert
  <2>1. 1 \in 1..Len(q)
    BY <1>1
  <2> QED BY <1>2, <2>1, PrefixIn
<1>4. Len(top) = 1
  <2>1. \A i \in 1..1 : q[i] \in Ids
    BY <1>1, <1>2, ElementOfSeq
  <2>2. Len(SubSeq(q, 1, 1)) = IF 1 <= 1 THEN 1 - 1 + 1 ELSE 0
    BY <2>1, SubSeqProperties
  <2> QED BY <2>2
<1>5. SubSeq(p, 1, m) \in DOMAIN entries
  <2>1. m \in 1..Len(p) /\ p \in DOMAIN entries
    BY <1>1
  <2> HIDE DEF m, p
  <2> QED BY <2>1, PrefixIn
<1> HIDE DEF p, m, top
<1>6. Parent(patch.id \o top) = patch.id
  BY <1>3, <1>4, RowPath
<1>7. patch.id \o top \in Rows(patch)
  BY <1>3 DEF Rows
<1> QED BY <1>1, <1>5, <1>6, <1>7, Accepted

\* What a patch makes of the entries.
LEMMA Applied ==
  ASSUME LayeringConstants, LayeringInv, NEW patch \in Patches, Apply(patch)
  PROVE  /\ DOMAIN entries' = Rows(patch) \cup DOMAIN entries
         /\ DOMAIN provenance' = Rows(patch) \cup DOMAIN entries
         /\ \A p \in Rows(patch) :
              /\ entries'[p] = Inserted(patch, p)
              /\ \A f \in Fields : provenance'[p][f] = Sources[layer]
         /\ \A p \in DOMAIN entries, f \in Fields :
              /\ p = patch.id =>
                   /\ entries'[p][f] = IF f \in DOMAIN patch.fields THEN patch.fields[f]
                                       ELSE entries[p][f]
                   /\ provenance'[p][f] = IF f \in Wrote(patch) THEN Sources[layer]
                                          ELSE provenance[p][f]
              /\ p # patch.id => /\ entries'[p] = entries[p]
                                 /\ provenance'[p] = provenance[p]
         /\ \A p \in DOMAIN entries : entries'[p].group = entries[p].group
<1> DEFINE rewritten == IF patch.id = <<>> THEN entries
                        ELSE [entries EXCEPT ![patch.id] = Replaced(patch)]
           written == IF patch.id = <<>> THEN provenance
                      ELSE [provenance EXCEPT ![patch.id] =
                              [f \in Fields |-> IF f \in Wrote(patch) THEN Sources[layer]
                                                ELSE @[f]]]
<1>1. /\ Refusal(patch) = "none"
      /\ entries' = Over([p \in Rows(patch) |-> Inserted(patch, p)], rewritten)
      /\ provenance' = Over(ClaimRows(patch), written)
  BY DEF Apply
<1>2. /\ Document(entries) /\ DOMAIN provenance = DOMAIN entries
      /\ DOMAIN patch.fields \subseteq Fields \ {"group"}
  BY DEF LayeringInv, LayeringConstants
<1>3. Rows(patch) \cap DOMAIN entries = {}
  BY <1>1, <1>2, RowsAreNew
<1>4. patch.id # <<>> => patch.id \in DOMAIN entries
  BY <1>1, Accepted
<1>5. <<>> \notin DOMAIN entries
  BY <1>2 DEF Document
<1>6. DOMAIN rewritten = DOMAIN entries /\ DOMAIN written = DOMAIN entries
  BY <1>2
<1>7. \A p \in DOMAIN entries :
        /\ p = patch.id => /\ rewritten[p] = Replaced(patch)
                           /\ \A f \in Fields :
                                written[p][f] = IF f \in Wrote(patch) THEN Sources[layer]
                                                ELSE provenance[p][f]
        /\ p # patch.id => rewritten[p] = entries[p] /\ written[p] = provenance[p]
  BY <1>2, <1>4, <1>5
<1> HIDE DEF rewritten, written
<1>8. DOMAIN entries' = Rows(patch) \cup DOMAIN entries
  BY <1>1, <1>6 DEF Over
<1>9. DOMAIN provenance' = Rows(patch) \cup DOMAIN entries
  BY <1>1, <1>6 DEF Over, ClaimRows, Signed
<1>10. ASSUME NEW p \in Rows(patch)
       PROVE  /\ entries'[p] = Inserted(patch, p)
              /\ \A f \in Fields : provenance'[p][f] = Sources[layer]
  BY <1>1 DEF Over, ClaimRows, Signed
<1>11. ASSUME NEW p \in DOMAIN entries
       PROVE  entries'[p] = rewritten[p] /\ provenance'[p] = written[p]
  BY <1>1, <1>3, <1>6 DEF Over, ClaimRows, Signed
<1>12. ASSUME NEW p \in DOMAIN entries, NEW f \in Fields, p = patch.id
       PROVE  /\ entries'[p][f] = IF f \in DOMAIN patch.fields THEN patch.fields[f]
                                  ELSE entries[p][f]
              /\ provenance'[p][f] = IF f \in Wrote(patch) THEN Sources[layer]
                                     ELSE provenance[p][f]
  <2>1. entries'[p] = Replaced(patch)
    BY <1>7, <1>11, <1>12
  <2>2. Replaced(patch)[f] = IF f \in DOMAIN patch.fields THEN patch.fields[f] ELSE entries[p][f]
    BY <1>12 DEF Replaced
  <2> QED BY <1>7, <1>11, <1>12, <2>1, <2>2
<1>13. ASSUME NEW p \in DOMAIN entries PROVE entries'[p].group = entries[p].group
  <2>1. CASE p = patch.id
    <3>1. "group" \in Fields /\ "group" \notin DOMAIN patch.fields
      BY <1>2 DEF Fields
    <3>2. entries'[p]["group"] = entries[p]["group"]
      BY <1>12, <2>1, <3>1
    <3> QED BY <3>2
  <2>2. CASE p # patch.id
    BY <1>7, <1>11, <2>2
  <2> QED BY <2>1, <2>2
<1> QED BY <1>7, <1>8, <1>9, <1>10, <1>11, <1>12, <1>13

\* One more patch folded.
LEMMA FoldedOn ==
  ASSUME LayeringConstants, LayeringInv, NEW patch \in Patches, Apply(patch)
  PROVE  /\ folded' \in Folds /\ layer' = layer
         /\ DOMAIN folded' = DOMAIN folded \cup {Len(folded) + 1}
         /\ \A n \in DOMAIN folded : n \in Nat /\ n <= Len(folded) /\ folded'[n] = folded[n]
                                     /\ folded[n].patch \in Patches
         /\ Len(folded) \in Nat
         /\ folded'[Len(folded) + 1].patch = patch
         /\ folded'[Len(folded) + 1].source = Sources[layer]
<1>1. /\ folded \in Folds /\ layer \in Nat \ {0} /\ layer <= Len(Sources)
      /\ folded' = Append(folded, [patch |-> patch, source |-> Sources[layer]])
      /\ layer' = layer
  BY DEF LayeringInv, Apply, Folding
<1>2. Sources[layer] \in {Sources[i] : i \in DOMAIN Sources}
  <2>1. Len(Sources) \in Nat /\ DOMAIN Sources = 1..Len(Sources)
    BY DEF LayeringConstants
  <2> QED BY <1>1, <2>1
<1>3. [patch |-> patch, source |-> Sources[layer]]
        \in [patch : Patches, source : {Sources[i] : i \in DOMAIN Sources}]
  BY <1>2
<1> DEFINE entry == [patch |-> patch, source |-> Sources[layer]]
           Log == [patch : Patches, source : {Sources[i] : i \in DOMAIN Sources}]
<1>4. entry.patch = patch /\ entry.source = Sources[layer] /\ entry \in Log
  BY <1>3
<1>5. \A x \in Log : x.patch \in Patches
  OBVIOUS
<1>6. folded \in Seq(Log) /\ folded' = Append(folded, entry)
  BY <1>1 DEF Folds
<1> HIDE DEF entry, Log
<1>7. Len(folded) \in Nat /\ DOMAIN folded = 1..Len(folded) /\ \A n \in DOMAIN folded : folded[n] \in Log
  BY <1>6
<1>8. /\ folded' \in Seq(Log) /\ Len(folded') = Len(folded) + 1
      /\ \A n \in 1..Len(folded) : folded'[n] = folded[n]
      /\ folded'[Len(folded) + 1] = entry
  BY <1>4, <1>6, AppendProperties
<1>9. DOMAIN folded' = 1..Len(folded) + 1
  BY <1>8
<1>10. DOMAIN folded' = DOMAIN folded \cup {Len(folded) + 1}
  BY <1>7, <1>9
<1> QED BY <1>1, <1>4, <1>5, <1>7, <1>8, <1>10 DEF Folds, Log

\* It leaves a document: what it inserts is in groups.
LEMMA DocumentKept ==
  ASSUME LayeringConstants, LayeringInv, NEW patch \in Patches, Apply(patch)
  PROVE  Document(entries)'
<1>1. /\ DOMAIN entries' = Rows(patch) \cup DOMAIN entries
      /\ \A p \in Rows(patch) : entries'[p] = Inserted(patch, p)
      /\ \A p \in DOMAIN entries : entries'[p].group = entries[p].group
  BY Applied
<1>2. Document(entries) /\ Document(patch.insert) /\ Refusal(patch) = "none"
  BY DEF LayeringInv, LayeringConstants, Apply
<1>3. \A p \in DOMAIN entries :
        /\ p \in Seq(Ids) /\ p # <<>> /\ entries[p].group \in BOOLEAN
        /\ Len(p) > 1 => Parent(p) \in DOMAIN entries /\ entries[Parent(p)].group
  BY <1>2 DEF Document
<1>4. \A q \in DOMAIN patch.insert :
        /\ q \in Seq(Ids) /\ q # <<>> /\ patch.insert[q].group \in BOOLEAN
        /\ Len(q) > 1 => Parent(q) \in DOMAIN patch.insert /\ patch.insert[Parent(q)].group
  BY <1>2 DEF Document
<1>5. ASSUME NEW p \in DOMAIN entries
      PROVE  /\ p \in Seq(Ids) /\ p # <<>> /\ entries'[p].group \in BOOLEAN
             /\ Len(p) > 1 => Parent(p) \in DOMAIN entries' /\ entries'[Parent(p)].group
  BY <1>1, <1>3
<1>6. ASSUME NEW p \in Rows(patch)
      PROVE  /\ p \in Seq(Ids) /\ p # <<>> /\ entries'[p].group \in BOOLEAN
             /\ Len(p) > 1 => Parent(p) \in DOMAIN entries' /\ entries'[Parent(p)].group
  <2>1. PICK q \in DOMAIN patch.insert : p = patch.id \o q
    BY <1>6 DEF Rows
  <2>2. /\ p \in Seq(Ids) /\ p # <<>> /\ Len(p) = Len(patch.id) + Len(q)
        /\ Len(q) \in Nat \ {0} /\ Len(patch.id) \in Nat
        /\ Inserted(patch, p) = patch.insert[q]
        /\ Len(q) = 1 => Parent(p) = patch.id
        /\ Len(q) > 1 => Parent(p) = patch.id \o Parent(q)
    BY <2>1, RowPath
  <2>3. entries'[p].group \in BOOLEAN
    BY <1>1, <1>4, <2>2
  <2>4. ASSUME Len(q) = 1, Len(p) > 1
        PROVE  Parent(p) \in DOMAIN entries' /\ entries'[Parent(p)].group
    <3>1. patch.id # <<>>
      BY <2>2, <2>4
    <3>2. patch.id \in DOMAIN entries /\ entries[patch.id].group
      BY <1>2, <1>6, <3>1, Accepted
    <3> QED BY <1>1, <2>2, <2>4, <3>2
  <2>5. ASSUME Len(q) > 1
        PROVE  Parent(p) \in DOMAIN entries' /\ entries'[Parent(p)].group
    <3>1. Parent(q) \in DOMAIN patch.insert /\ patch.insert[Parent(q)].group
      BY <1>4, <2>5
    <3>2. Inserted(patch, patch.id \o Parent(q)) = patch.insert[Parent(q)]
      BY <3>1, RowPath
    <3>3. Parent(p) \in Rows(patch)
      BY <2>2, <2>5, <3>1 DEF Rows
    <3> QED BY <1>1, <2>2, <2>5, <3>1, <3>2, <3>3
  <2>6. Len(q) = 1 \/ Len(q) > 1
    <3>1. \A n \in Nat \ {0} : n = 1 \/ n > 1
      OBVIOUS
    <3> QED BY <2>2, <3>1, Zenon
  <2>7. Len(p) > 1 => Parent(p) \in DOMAIN entries' /\ entries'[Parent(p)].group
    BY <2>4, <2>5, <2>6
  <2> QED BY <2>2, <2>3, <2>7
<1>7. \A p \in DOMAIN entries' :
        /\ p \in Seq(Ids) /\ p # <<>> /\ entries'[p].group \in BOOLEAN
        /\ Len(p) > 1 => Parent(p) \in DOMAIN entries' /\ entries'[Parent(p)].group
  BY <1>1, <1>5, <1>6
<1> QED BY <1>7 DEF Document

\* Every field is accounted for still.
LEMMA AccountKept ==
  ASSUME LayeringConstants, LayeringInv, NEW patch \in Patches, Apply(patch),
         NEW p \in DOMAIN entries', NEW f \in Fields
  PROVE  AsInBase(p, f)' \/ AsSaid(p, f)'
<1> DEFINE N == Len(folded) + 1
<1>1. /\ DOMAIN folded' = DOMAIN folded \cup {N}
      /\ \A n \in DOMAIN folded : n \in Nat /\ n <= Len(folded) /\ folded'[n] = folded[n]
      /\ Len(folded) \in Nat
      /\ folded'[N].patch = patch /\ folded'[N].source = Sources[layer]
  BY FoldedOn
<1>2. \A n \in DOMAIN folded : n < N
  BY <1>1
<1>3. N \in Nat /\ N \notin DOMAIN folded
  BY <1>1, <1>2
<1> HIDE DEF N
<1>4. /\ DOMAIN entries' = Rows(patch) \cup DOMAIN entries
      /\ p \in Rows(patch) => /\ entries'[p] = Inserted(patch, p)
                              /\ provenance'[p][f] = Sources[layer]
      /\ p \in DOMAIN entries =>
           /\ p = patch.id =>
                /\ entries'[p][f] = IF f \in DOMAIN patch.fields THEN patch.fields[f]
                                    ELSE entries[p][f]
                /\ provenance'[p][f] = IF f \in Wrote(patch) THEN Sources[layer]
                                       ELSE provenance[p][f]
           /\ p # patch.id => entries'[p] = entries[p] /\ provenance'[p] = provenance[p]
  BY Applied
<1>5. CASE Says(patch, p, f)
  <2>1. entries'[p][f] = Said(patch, p, f) /\ provenance'[p][f] = Sources[layer]
    <3>1. CASE p \in Rows(patch)
      <4>1. p # patch.id
        BY <3>1, RowPath DEF Rows
      <4> QED BY <1>4, <3>1, <4>1 DEF Said
    <3>2. CASE p \notin Rows(patch)
      <4>1. p \in DOMAIN entries /\ p = patch.id /\ f \in Wrote(patch)
        BY <1>4, <1>5, <3>2 DEF Says
      <4>2. CASE f \in DOMAIN patch.fields
        BY <1>4, <4>1, <4>2 DEF Said
      <4>3. CASE f \notin DOMAIN patch.fields
        <5>1. f = "group" /\ Rows(patch) # {}
          BY <4>1, <4>3 DEF Wrote, Rows
        <5>2. Refusal(patch) = "none" /\ Document(entries)
          BY DEF Apply, LayeringInv
        <5>3. patch.id # <<>> /\ entries[p].group \in BOOLEAN
          BY <4>1, <5>2 DEF Document
        <5>4. entries[p].group
          BY <4>1, <5>1, <5>2, <5>3, Accepted
        <5>5. entries[p]["group"] = TRUE
          BY <5>3, <5>4
        <5> QED BY <1>4, <4>1, <4>3, <5>1, <5>5 DEF Said
      <4> QED BY <4>2, <4>3
    <3> QED BY <3>1, <3>2
  <2>2. \A n \in DOMAIN folded' : n <= N
    BY <1>1, <1>2, <1>3
  <2>3. N \in DOMAIN folded' /\ Says(folded'[N].patch, p, f)
    BY <1>1, <1>5
  <2>4. entries'[p][f] = Said(folded'[N].patch, p, f) /\ provenance'[p][f] = folded'[N].source
    BY <1>1, <2>1
  <2> QED BY <2>2, <2>3, <2>4 DEF AsSaid
<1>6. CASE ~Says(patch, p, f)
  <2>1. /\ p \in DOMAIN entries
        /\ entries'[p][f] = entries[p][f] /\ provenance'[p][f] = provenance[p][f]
    <3>1. p \in DOMAIN entries /\ (p # patch.id \/ f \notin Wrote(patch))
      BY <1>4, <1>6 DEF Says
    <3>2. f \notin Wrote(patch) => f \notin DOMAIN patch.fields
      BY DEF Wrote
    <3> QED BY <1>4, <3>1, <3>2
  <2>2. CASE AsInBase(p, f)
    <3>1. \A n \in DOMAIN folded' : ~Says(folded'[n].patch, p, f)
      BY <1>1, <1>6, <2>2 DEF AsInBase
    <3> QED BY <2>1, <2>2, <3>1 DEF AsInBase
  <2>3. CASE AsSaid(p, f)
    <3>1. PICK n \in DOMAIN folded :
            /\ Says(folded[n].patch, p, f)
            /\ \A k \in DOMAIN folded : Says(folded[k].patch, p, f) => k <= n
            /\ provenance[p][f] = folded[n].source
            /\ entries[p][f] = Said(folded[n].patch, p, f)
      BY <2>3 DEF AsSaid
    <3>2. n \in DOMAIN folded' /\ folded'[n] = folded[n]
      BY <1>1
    <3>3. \A k \in DOMAIN folded' : Says(folded'[k].patch, p, f) => k <= n
      BY <1>1, <1>6, <3>1
    <3> QED BY <2>1, <3>1, <3>2, <3>3 DEF AsSaid
  <2>4. AsInBase(p, f) \/ AsSaid(p, f)
    BY <2>1 DEF LayeringInv
  <2> QED BY <2>2, <2>3, <2>4
<1> QED BY <1>5, <1>6

\* No entry is taken away or hidden by another.
LEMMA HiddenKept ==
  ASSUME LayeringConstants, LayeringInv, NEW patch \in Patches, Apply(patch)
  PROVE  /\ NothingHidden' /\ DOMAIN Base \subseteq DOMAIN entries'
         /\ \A n \in DOMAIN folded' : Rows(folded'[n].patch) \subseteq DOMAIN entries'
<1>1. Document(entries)'
  BY DocumentKept
<1>2. DOMAIN entries' = Rows(patch) \cup DOMAIN entries
  BY Applied
<1>3. /\ DOMAIN folded' = DOMAIN folded \cup {Len(folded) + 1}
      /\ \A n \in DOMAIN folded : folded'[n] = folded[n] /\ n <= Len(folded)
      /\ folded'[Len(folded) + 1].patch = patch
      /\ Len(folded) \in Nat
  BY FoldedOn
<1>4. /\ Document(entries) /\ DOMAIN Base \subseteq DOMAIN entries /\ Refusal(patch) = "none"
      /\ \A n \in DOMAIN folded : Rows(folded[n].patch) \subseteq DOMAIN entries
      /\ \A n \in DOMAIN folded :
           /\ Rows(folded[n].patch) \cap DOMAIN Base = {}
           /\ \A k \in DOMAIN folded \ {n} : Rows(folded[n].patch) \cap Rows(folded[k].patch) = {}
  BY DEF LayeringInv, NothingHidden, Apply
<1>5. Rows(patch) \cap DOMAIN entries = {}
  BY <1>4, RowsAreNew
<1>6. \A n \in DOMAIN folded' : Rows(folded'[n].patch) \subseteq DOMAIN entries'
  BY <1>2, <1>3, <1>4
<1>7. ASSUME NEW n \in DOMAIN folded'
      PROVE  /\ Rows(folded'[n].patch) \cap DOMAIN Base = {}
             /\ \A k \in DOMAIN folded' \ {n} :
                  Rows(folded'[n].patch) \cap Rows(folded'[k].patch) = {}
  <2>1. CASE n \in DOMAIN folded
    BY <1>3, <1>4, <1>5, <2>1
  <2>2. CASE n = Len(folded) + 1
    BY <1>3, <1>4, <1>5, <2>2
  <2> QED BY <1>3, <2>1, <2>2
<1>8. \A p \in DOMAIN entries' :
        Len(p) > 1 => Parent(p) \in DOMAIN entries' /\ entries'[Parent(p)].group
  BY <1>1 DEF Document
<1>9. DOMAIN Base \subseteq DOMAIN entries'
  BY <1>2, <1>4
<1> QED BY <1>6, <1>7, <1>8, <1>9 DEF NothingHidden

\* The entries are a document and every field of it is accounted for, at every layer.
THEOREM LayeringInvHolds == ASSUME LayeringConstants PROVE LayeringSpec => []LayeringInv
<1>1. LayeringInit => LayeringInv
  <2> SUFFICES ASSUME LayeringInit PROVE LayeringInv
    OBVIOUS
  <2>1. /\ entries = Base /\ folded = <<>> /\ layer = 1
        /\ provenance = [p \in DOMAIN Base |-> [f \in Fields |-> BaseSource]]
    BY DEF LayeringInit, Signed
  <2>2. folded \in Folds /\ DOMAIN folded = {}
    BY <2>1 DEF Folds
  <2>3. Document(entries)
    BY <2>1 DEF LayeringConstants
  <2>4. \A p \in DOMAIN entries, f \in Fields : AsInBase(p, f)
    BY <2>1, <2>2 DEF AsInBase
  <2>5. NothingHidden
    BY <2>1, <2>2, <2>3 DEF NothingHidden, Document
  <2>6. DOMAIN provenance = DOMAIN entries /\ DOMAIN Base \subseteq DOMAIN entries
    BY <2>1
  <2> QED BY <2>1, <2>2, <2>3, <2>4, <2>5, <2>6 DEF LayeringInv
<1>2. LayeringInv /\ [LayeringNext]_layeringVars => LayeringInv'
  <2> SUFFICES ASSUME LayeringInv, [LayeringNext]_layeringVars PROVE LayeringInv'
    OBVIOUS
  <2>1. CASE \E patch \in Patches : Apply(patch)
    <3>1. PICK patch \in Patches : Apply(patch)
      BY <2>1
    <3>2. DOMAIN provenance' = DOMAIN entries'
      BY <3>1, Applied
    <3>3. folded' \in Folds /\ layer' \in Nat \ {0}
      BY <3>1, FoldedOn DEF LayeringInv
    <3>4. Document(entries)'
      BY <3>1, DocumentKept
    <3>5. \A p \in DOMAIN entries', f \in Fields : AsInBase(p, f)' \/ AsSaid(p, f)'
      BY <3>1, AccountKept
    <3>6. /\ NothingHidden' /\ DOMAIN Base \subseteq DOMAIN entries'
          /\ \A n \in DOMAIN folded' : Rows(folded'[n].patch) \subseteq DOMAIN entries'
      BY <3>1, HiddenKept
    <3> QED BY <3>2, <3>3, <3>4, <3>5, <3>6 DEF LayeringInv
  <2>2. ASSUME /\ UNCHANGED <<entries, provenance, folded>>
               /\ layer' = layer \/ layer' = layer + 1
        PROVE  LayeringInv'
    <3>1. layer' \in Nat \ {0}
      BY <2>2 DEF LayeringInv
    <3>2. /\ folded' \in Folds /\ DOMAIN provenance' = DOMAIN entries'
          /\ DOMAIN Base \subseteq DOMAIN entries'
          /\ \A n \in DOMAIN folded' : Rows(folded'[n].patch) \subseteq DOMAIN entries'
      BY <2>2 DEF LayeringInv
    <3>3. Document(entries)'
      BY <2>2 DEF LayeringInv, Document
    <3>4. \A p \in DOMAIN entries', f \in Fields : AsInBase(p, f)' \/ AsSaid(p, f)'
      <4>1. ASSUME NEW p \in DOMAIN entries, NEW f \in Fields
            PROVE  AsInBase(p, f)' \/ AsSaid(p, f)'
        <5>1. AsInBase(p, f) \/ AsSaid(p, f)
          BY DEF LayeringInv
        <5> QED BY <2>2, <5>1 DEF AsInBase, AsSaid
      <4> QED BY <2>2, <4>1
    <3>5. NothingHidden'
      BY <2>2 DEF LayeringInv, NothingHidden
    <3> QED BY <3>1, <3>2, <3>3, <3>4, <3>5 DEF LayeringInv
  <2>3. CASE \E patch \in Patches : Raise(patch)
    BY <2>2, <2>3 DEF Raise
  <2>4. CASE NextLayer
    BY <2>2, <2>4 DEF NextLayer
  <2>5. CASE UNCHANGED layeringVars
    BY <2>2, <2>5 DEF layeringVars
  <2> QED BY <2>1, <2>3, <2>4, <2>5 DEF LayeringNext
<1> QED BY <1>1, <1>2, PTL DEF LayeringSpec

\* The fold of the layers loses no entry and no author, however many layers and
\* patches there are (resolve, wrote).
THEOREM LayeredHolds == ASSUME LayeringConstants PROVE LayeringSpec => []Layered
<1>1. LayeringInv => Layered
  <2> SUFFICES ASSUME LayeringInv PROVE Layered
    OBVIOUS
  <2>1. ASSUME NEW p \in DOMAIN entries, NEW f \in Fields
        PROVE  LET by == {n \in DOMAIN folded : WrittenBy(n, p, f)} IN
               IF by = {} THEN provenance[p][f] = BaseSource /\ entries[p][f] = Base[p][f]
               ELSE LET n == CHOOSE n \in by : \A k \in by : k <= n
                    IN provenance[p][f] = folded[n].source /\ entries[p][f] = Value(n, p, f)
    <3> DEFINE by == {n \in DOMAIN folded : WrittenBy(n, p, f)}
               final == CHOOSE n \in by : \A k \in by : k <= n
    <3>1. /\ \A n : WrittenBy(n, p, f) <=> Says(folded[n].patch, p, f)
          /\ \A n : Value(n, p, f) = Said(folded[n].patch, p, f)
      BY DEF WrittenBy, Says, Value, Said
    <3>2. \A n \in by : n \in Nat
      BY DEF LayeringInv, Folds
    <3>3. by = {} => provenance[p][f] = BaseSource /\ entries[p][f] = Base[p][f]
      BY <3>1 DEF LayeringInv, AsInBase, AsSaid
    <3>4. ASSUME by # {}
          PROVE  provenance[p][f] = folded[final].source /\ entries[p][f] = Value(final, p, f)
      <4>1. AsSaid(p, f)
        BY <3>1, <3>4 DEF LayeringInv, AsInBase
      <4>2. PICK n \in by : /\ \A k \in by : k <= n
                            /\ provenance[p][f] = folded[n].source
                            /\ entries[p][f] = Said(folded[n].patch, p, f)
        BY <3>1, <4>1 DEF AsSaid
      <4> HIDE DEF by
      <4>3. final \in by /\ \A k \in by : k <= final
        BY <4>2
      <4>4. final = n
        BY <3>2, <4>2, <4>3
      <4> QED BY <3>1, <4>2, <4>4
    <3> QED BY <3>3, <3>4
  <2>2. Accounted
    BY <2>1 DEF Accounted, LayeringInv
  <2> QED BY <2>2 DEF Layered, LayeringInv
<1> QED BY <1>1, LayeringInvHolds, PTL
-----------------------------------------------------------------------------
\* Frames: a walk finds what a copy would hold.

Frame == [parent : Nat, meta : Metas \cup {Nothing},
          ints : {Nothing} \cup (UNION {[{n} -> Entries] : n \in Keys}),
          iso : {Nothing} \cup (UNION {[{n} -> Nat \ {0}] : n \in Keys}), kept : BOOLEAN]

\* A context is made below one that is there, and holds it.
FramesOK ==
    /\ frames \in Seq(Frame) /\ frames # <<>>
    /\ frames[1] = Own(Nothing, Nothing, Nothing, 0)
    /\ \A c \in DOMAIN frames : c # 1 =>
         /\ frames[c].parent \in 1..c - 1
         /\ c \in Extant => frames[c].parent \in Extant

\* What a copy holds of a name, given its frame and the copy above.
Handed(f, p, own, n) ==
    /\ own.meta[n] = IF n \in DOMAIN f.meta THEN f.meta[n] ELSE p.meta[n]
    /\ own.conf[n] = IF n \in DOMAIN f.ints THEN Merge(p.conf[n], f.ints[n]) ELSE p.conf[n]
    /\ n \notin DOMAIN f.iso => own.home[n] = p.home[n]

CopiesOK ==
    /\ copied \in Seq({copied[i] : i \in DOMAIN copied}) /\ Len(copied) = Len(frames)
    /\ copied[1] = [meta |-> [n \in Keys |-> Absent], conf |-> [n \in Keys |-> Default],
                    home |-> [n \in Keys |-> <<>>]]
    /\ \A c \in DOMAIN copied :
         /\ DOMAIN copied[c] = {"meta", "conf", "home"}
         /\ DOMAIN copied[c].meta = Keys /\ DOMAIN copied[c].home = Keys
         /\ c # 1 => \A n \in Keys :
              Handed(frames[c], copied[frames[c].parent], copied[c], n)

\* Where a name is isolated: the realm and the isolation, of the frames that are
\* there and of the bindings, and of those with neither.
Uses(n) ==
    {<<Unisolated, <<>>>>}
      \cup {<<frames[c].iso[n], copied[c].home[n]>> : c \in Extant \cap Isolating(n)}
      \cup {<<k[2], owners[k]>> : k \in {key \in DOMAIN bound : key[1] = n}}

\* The isolation is a context's, or that of a label, for which its realm is interned.
OfOne(n, u) ==
    \/ u[2] = <<>> \/ \E c \in DOMAIN frames : u[2] = <<c>>
    \/ \E l \in Labels \ {Null} : u[2] = <<n, l>> /\ <<n, l>> \in DOMAIN interned
                                  /\ interned[<<n, l>>] = u[1]

\* Where the realm is the one that is interned for a label, it is used for that label.
OwnLabel(n, u) ==
    \A l \in Labels \ {Null} :
      <<n, l>> \in DOMAIN interned /\ interned[<<n, l>>] = u[1] => u[2] = <<n, l>>

\* A realm stands for one isolation; what is interned is the realm of its label, as
\* long as somebody uses it.
RealmsOK ==
    /\ minted \in Nat
    /\ DOMAIN owners = DOMAIN bound /\ DOMAIN bound \subseteq Keys \X Nat
    /\ \A k \in DOMAIN interned : interned[k] \in 1..minted
    /\ \A k, l \in DOMAIN interned :
         k[2] # Null /\ l[2] # Null /\ interned[k] = interned[l] => k = l
    /\ \A n \in Keys : \A u \in Uses(n) :
         /\ u[1] \in 0..minted /\ OfOne(n, u) /\ OwnLabel(n, u)
         /\ \A v \in Uses(n) : u[1] = v[1] <=> u[2] = v[2]

FramesInv == FramesOK /\ CopiesOK /\ RealmsOK


LEMMA FramesShape ==
  ASSUME FramesOK
  PROVE  /\ Len(frames) \in Nat /\ 1 \in DOMAIN frames /\ DOMAIN frames = 1..Len(frames)
         /\ frames[1].parent = 0 /\ 1 \in Extant
         /\ frames[1].meta = Nothing /\ frames[1].ints = Nothing /\ frames[1].iso = Nothing
         /\ \A c \in DOMAIN frames : frames[c] \in Frame
         /\ \A c \in DOMAIN frames : c # 1 =>
              /\ frames[c].parent \in DOMAIN frames /\ frames[c].parent < c
              /\ frames[c].parent \in Nat \ {0}
BY DEF FramesOK, Own, Extant

\* What holds of the root, and of a context if of its parent, holds of all.
LEMMA FromTheRoot ==
  ASSUME FramesOK, NEW S \in SUBSET DOMAIN frames, 1 \notin S,
         \A c \in S : frames[c].parent \in S
  PROVE  S = {}
<1> SUFFICES ASSUME S # {} PROVE FALSE
  OBVIOUS
<1>1. S \in SUBSET Nat
  BY FramesShape
<1>2. PICK c \in S : \A d \in S : c <= d
  BY <1>1, LeastNumber
<1>3. frames[c].parent < c /\ c \in Nat /\ frames[c].parent \in Nat
  BY <1>1, <1>2, FramesShape
<1> QED BY <1>2, <1>3

LEMMA FromNought ==
  ASSUME NEW S \in SUBSET Nat, 0 \notin S, \A k \in S : k - 1 \in S
  PROVE  S = {}
<1> SUFFICES ASSUME S # {} PROVE FALSE
  OBVIOUS
<1>1. PICK k \in S : \A j \in S : k <= j
  BY LeastNumber
<1> QED BY <1>1

\* A table of lineages up to a number, and one for the next.
LEMMA LineageTable ==
  ASSUME FramesOK
  PROVE  \E f : f = [c \in DOMAIN frames |->
                      {c} \cup IF frames[c].parent = 0 THEN {} ELSE f[frames[c].parent]]
<1> DEFINE Ancestry(f, k) == [c \in 1..k |->
                            {c} \cup IF frames[c].parent = 0 THEN {} ELSE f[frames[c].parent]]
           Good(k) == \E f : f = Ancestry(f, k)
           Bad == {k \in 0..Len(frames) : ~Good(k)}
<1>1. Good(0)
  <2> DEFINE f == [c \in 1..0 |-> {}]
  <2>1. Ancestry(f, 0) = f
    OBVIOUS
  <2> QED BY <2>1
<1>2. ASSUME NEW k \in 1..Len(frames), Good(k - 1) PROVE Good(k)
  <2>1. PICK f : f = Ancestry(f, k - 1)
    BY <1>2
  <2> DEFINE outer == {k} \cup IF frames[k].parent = 0 THEN {} ELSE f[frames[k].parent]
             g == [c \in 1..k |-> IF c = k THEN outer ELSE f[c]]
  <2>2. k \in Nat /\ DOMAIN frames = 1..Len(frames)
    BY FramesShape
  <2>3. ASSUME NEW c \in 1..k
        PROVE  g[c] = {c} \cup IF frames[c].parent = 0 THEN {} ELSE g[frames[c].parent]
    <3>1. frames[c].parent = 0 \/ frames[c].parent \in 1..c - 1
      BY <2>2, FramesShape
    <3>2. frames[c].parent # 0 =>
            frames[c].parent \in 1..k - 1 /\ g[frames[c].parent] = f[frames[c].parent]
      BY <3>1, <2>2
    <3>3. CASE c = k
      BY <3>2, <3>3
    <3>4. CASE c # k
      <4>1. c \in 1..k - 1
        BY <3>4, <2>2
      <4>2. f[c] = {c} \cup IF frames[c].parent = 0 THEN {} ELSE f[frames[c].parent]
        BY <2>1, <4>1
      <4> QED BY <3>2, <3>4, <4>2
    <3> QED BY <3>3, <3>4
  <2>4. g = Ancestry(g, k)
    BY <2>3
  <2> QED BY <2>4
<1> HIDE DEF Good
<1>3. Bad = {}
  <2>1. 0 \notin Bad /\ Bad \in SUBSET Nat
    BY <1>1
  <2>2. ASSUME NEW k \in Bad PROVE k - 1 \in Bad
    <3>1. k \in 1..Len(frames) /\ k - 1 \in 0..Len(frames)
      BY <2>1, FramesShape
    <3> QED BY <1>2, <3>1
  <2> QED BY <2>1, <2>2, FromNought
<1>4. Good(Len(frames))
  BY <1>3, FramesShape
<1> QED BY <1>4, FramesShape DEF Good

\* The lineage of a context is itself and the lineage of its parent.
LEMMA LineageUnfolds ==
  ASSUME FramesOK, NEW c \in DOMAIN frames
  PROVE  LineageOf[c] = {c} \cup IF c = 1 THEN {} ELSE LineageOf[frames[c].parent]
<1>1. LineageOf = [d \in DOMAIN frames |->
        {d} \cup IF frames[d].parent = 0 THEN {} ELSE LineageOf[frames[d].parent]]
  BY LineageTable DEF LineageOf
<1>2. frames[c].parent = 0 <=> c = 1
  BY FramesShape
<1> QED BY <1>1, <1>2

\* It goes down in number, and a context that is there holds all of it.
LEMMA LineageBelow ==
  ASSUME FramesOK, NEW c \in DOMAIN frames
  PROVE  /\ LineageOf[c] \subseteq 1..c /\ c \in LineageOf[c]
         /\ c \in Extant => LineageOf[c] \subseteq Extant
<1> DEFINE Bad == {d \in DOMAIN frames : ~(/\ LineageOf[d] \subseteq 1..d
                                           /\ d \in Extant => LineageOf[d] \subseteq Extant)}
<1>1. 1 \notin Bad
  BY FramesShape, LineageUnfolds
<1>2. ASSUME NEW d \in Bad PROVE frames[d].parent \in Bad
  <2>1. d # 1
    BY <1>1
  <2> DEFINE p == frames[d].parent
  <2>4. p \in DOMAIN frames /\ p < d /\ p \in Nat /\ d \in Nat
    BY <2>1, FramesShape
  <2>5. LineageOf[d] = {d} \cup LineageOf[p]
    BY <2>1, LineageUnfolds
  <2>6. d \in Extant => p \in Extant
    BY <2>1 DEF FramesOK
  <2>7. 1..p \subseteq 1..d /\ d \in 1..d
    BY <2>4, FramesShape
  <2> QED BY <2>4, <2>5, <2>6, <2>7
<1>3. Bad = {}
  BY <1>1, <1>2, FromTheRoot
<1> QED BY <1>3, LineageUnfolds

\* The nearest is the context itself or the nearest to its parent.
LEMMA NearestUnfolds ==
  ASSUME FramesOK, NEW c \in DOMAIN frames, NEW S
  PROVE  /\ c \in S => Nearest(c, S) = {c}
         /\ c \notin S /\ c = 1 => Nearest(c, S) = {}
         /\ c \notin S /\ c # 1 => Nearest(c, S) = Nearest(frames[c].parent, S)
<1>1. c \in Nat /\ \A d \in LineageOf[c] : d \in Nat /\ d <= c
  BY LineageBelow, FramesShape
<1>2. LineageOf[c] = {c} \cup IF c = 1 THEN {} ELSE LineageOf[frames[c].parent]
  BY LineageUnfolds
<1>3. CASE c \in S
  <2>1. \A d \in Nearest(c, S) : d = c
    BY <1>1, <1>2, <1>3 DEF Nearest
  <2>2. c \in Nearest(c, S)
    BY <1>1, <1>2, <1>3 DEF Nearest
  <2> QED BY <1>3, <2>1, <2>2
<1>4. CASE c \notin S
  <2>1. LineageOf[c] \cap S = IF c = 1 THEN {} ELSE LineageOf[frames[c].parent] \cap S
    BY <1>2, <1>4
  <2> QED BY <1>4, <2>1 DEF Nearest
<1> QED BY <1>3, <1>4

\* There is at most one, and it is of the lineage.
LEMMA NearestIsOne ==
  ASSUME FramesOK, NEW c \in DOMAIN frames, NEW S, NEW d \in Nearest(c, S)
  PROVE  Nearest(c, S) = {d} /\ d \in LineageOf[c] /\ d \in S /\ d \in DOMAIN frames
<1>1. \A e \in LineageOf[c] : e \in Nat /\ e \in DOMAIN frames
  BY LineageBelow, FramesShape
<1>2. ASSUME NEW e \in Nearest(c, S) PROVE e = d
  BY <1>1, <1>2 DEF Nearest
<1> QED BY <1>1, <1>2 DEF Nearest

\* The copies of a context and of its parent.
LEMMA CopyUnfolds ==
  ASSUME FramesOK, CopiesOK, NEW n \in Keys
  PROVE  /\ copied[1].meta[n] = Absent /\ copied[1].conf[n] = Default /\ copied[1].home[n] = <<>>
         /\ DOMAIN copied = DOMAIN frames
         /\ \A c \in DOMAIN frames : c # 1 =>
              Handed(frames[c], copied[frames[c].parent], copied[c], n)
<1>1. DOMAIN copied = DOMAIN frames
  BY FramesShape DEF CopiesOK
<1> QED BY <1>1 DEF CopiesOK

LEMMA ScopedAsCopied ==
  ASSUME FramesConstants, FramesOK, CopiesOK, NEW c \in DOMAIN frames, NEW n \in Keys
  PROVE  /\ copied[c].meta[n] = Absent => Nearest(c, Scoping(n)) = {}
         /\ copied[c].meta[n] # Absent =>
              \E d \in DOMAIN frames : /\ Nearest(c, Scoping(n)) = {d}
                                       /\ frames[d].meta[n] = copied[c].meta[n]
<1> DEFINE Same(d) ==
             /\ copied[d].meta[n] = Absent => Nearest(d, Scoping(n)) = {}
             /\ copied[d].meta[n] # Absent =>
                  \E e \in DOMAIN frames : /\ Nearest(d, Scoping(n)) = {e}
                                           /\ frames[e].meta[n] = copied[d].meta[n]
           Bad == {d \in DOMAIN frames : ~Same(d)}
<1>1. ASSUME NEW d \in DOMAIN frames, d # 1 => Same(frames[d].parent) PROVE Same(d)
  <2>1. d \in Scoping(n) <=> n \in DOMAIN frames[d].meta
    BY DEF Scoping
  <2>2. CASE n \in DOMAIN frames[d].meta
    <3>1. d # 1 /\ frames[d].meta \in Metas
      <4>1. n \notin DOMAIN Nothing
        BY DEF Nothing
      <4>2. frames[d].meta # Nothing
        BY <2>2, <4>1
      <4> QED BY <4>2, FramesShape DEF Frame
    <3>2. frames[d].meta[n] # Absent
      BY <2>2, <3>1 DEF FramesConstants
    <3>3. copied[d].meta[n] = frames[d].meta[n]
      BY <2>2, <3>1, CopyUnfolds DEF Handed
    <3>4. Nearest(d, Scoping(n)) = {d}
      BY <2>1, <2>2, NearestUnfolds
    <3> QED BY <3>2, <3>3, <3>4
  <2>3. CASE n \notin DOMAIN frames[d].meta /\ d = 1
    BY <2>1, <2>3, NearestUnfolds, CopyUnfolds
  <2>4. CASE n \notin DOMAIN frames[d].meta /\ d # 1
    <3>1. copied[d].meta[n] = copied[frames[d].parent].meta[n]
      BY <2>4, CopyUnfolds DEF Handed
    <3>2. Nearest(d, Scoping(n)) = Nearest(frames[d].parent, Scoping(n))
      BY <2>1, <2>4, NearestUnfolds
    <3> QED BY <1>1, <2>4, <3>1, <3>2
  <2> QED BY <2>2, <2>3, <2>4
<1> HIDE DEF Same
<1>2. Bad = {}
  <2>1. \A d \in DOMAIN frames : d # 1 => frames[d].parent \in DOMAIN frames
    BY FramesShape
  <2>2. 1 \notin Bad /\ \A d \in Bad : frames[d].parent \in Bad
    BY <1>1, <2>1
  <2> QED BY <2>2, FromTheRoot
<1> QED BY <1>2 DEF Same

\* The isolation of a name that is nearest to a context is the one the copy has.
LEMMA HomesAsCopied ==
  ASSUME FramesOK, CopiesOK, NEW c \in DOMAIN frames, NEW n \in Keys
  PROVE  \/ Nearest(c, Isolating(n)) = {} /\ copied[c].home[n] = <<>>
         \/ \E d \in DOMAIN frames : /\ Nearest(c, Isolating(n)) = {d}
                                     /\ copied[d].home[n] = copied[c].home[n]
<1> DEFINE Same(d) ==
             \/ Nearest(d, Isolating(n)) = {} /\ copied[d].home[n] = <<>>
             \/ \E e \in DOMAIN frames : /\ Nearest(d, Isolating(n)) = {e}
                                         /\ copied[e].home[n] = copied[d].home[n]
           Bad == {d \in DOMAIN frames : ~Same(d)}
<1>1. ASSUME NEW d \in DOMAIN frames, d # 1 => Same(frames[d].parent) PROVE Same(d)
  <2>1. d \in Isolating(n) <=> n \in DOMAIN frames[d].iso
    BY DEF Isolating
  <2>2. CASE n \in DOMAIN frames[d].iso
    <3>1. Nearest(d, Isolating(n)) = {d}
      BY <2>1, <2>2, NearestUnfolds
    <3> QED BY <3>1
  <2>3. CASE n \notin DOMAIN frames[d].iso /\ d = 1
    BY <2>1, <2>3, NearestUnfolds, CopyUnfolds
  <2>4. CASE n \notin DOMAIN frames[d].iso /\ d # 1
    <3>1. copied[d].home[n] = copied[frames[d].parent].home[n]
      BY <2>4, CopyUnfolds DEF Handed
    <3>2. Nearest(d, Isolating(n)) = Nearest(frames[d].parent, Isolating(n))
      BY <2>1, <2>4, NearestUnfolds
    <3> QED BY <1>1, <2>4, <3>1, <3>2
  <2> QED BY <2>2, <2>3, <2>4
<1> HIDE DEF Same
<1>2. Bad = {}
  <2>1. \A d \in DOMAIN frames : d # 1 => frames[d].parent \in DOMAIN frames
    BY FramesShape
  <2>2. 1 \notin Bad /\ \A d \in Bad : frames[d].parent \in Bad
    BY <1>1, <2>1
  <2> QED BY <2>2, FromTheRoot
<1> QED BY <1>2 DEF Same

\* The realm in which a context finds a name is used for its isolation.
LEMMA RealmIsUsed ==
  ASSUME FramesOK, CopiesOK, NEW c \in Extant, NEW n \in Keys
  PROVE  <<RealmUnder(c, n), copied[c].home[n]>> \in Uses(n)
<1>1. c \in DOMAIN frames
  BY DEF Extant
<1>2. CASE Nearest(c, Isolating(n)) = {} /\ copied[c].home[n] = <<>>
  <2>1. RealmUnder(c, n) = Unisolated
    BY <1>2 DEF RealmUnder
  <2> QED BY <1>2, <2>1 DEF Uses
<1>3. ASSUME NEW d \in DOMAIN frames, Nearest(c, Isolating(n)) = {d},
             copied[d].home[n] = copied[c].home[n]
      PROVE  <<RealmUnder(c, n), copied[c].home[n]>> \in Uses(n)
  <2>1. d \in LineageOf[c] /\ d \in Isolating(n)
    BY <1>1, <1>3, NearestIsOne
  <2>2. d \in Extant
    BY <1>1, <2>1, LineageBelow
  <2>3. RealmUnder(c, n) = frames[d].iso[n]
    BY <1>3 DEF RealmUnder
  <2>4. d \in Extant \cap Isolating(n)
    BY <2>1, <2>2
  <2> QED BY <1>3, <2>3, <2>4 DEF Uses
<1> QED BY <1>1, <1>2, <1>3, HomesAsCopied

\* The merging of a lineage, as a table.
Merging(m, I, n, k) ==
    [d \in 0..k |-> IF d = 0 THEN Default
                    ELSE IF d \in I THEN Merge(m[d - 1], frames[d].ints[n])
                    ELSE m[d - 1]]

LEMMA MergeTable ==
  ASSUME NEW I, NEW n, NEW c \in Nat PROVE \E m : m = Merging(m, I, n, c)
<1> DEFINE Good(k) == \E m : m = Merging(m, I, n, k)
           Bad == {k \in 0..c : ~Good(k)}
<1>1. Good(0)
  <2> DEFINE m == [d \in 0..0 |-> Default]
  <2>1. Merging(m, I, n, 0) = m
    BY DEF Merging
  <2> QED BY <2>1
<1>2. ASSUME NEW k \in 1..c, Good(k - 1) PROVE Good(k)
  <2>1. PICK m : m = Merging(m, I, n, k - 1)
    BY <1>2
  <2> DEFINE outer == IF k \in I THEN Merge(m[k - 1], frames[k].ints[n]) ELSE m[k - 1]
             g == [d \in 0..k |-> IF d = k THEN outer ELSE m[d]]
  <2>2. k \in Nat \ {0} /\ k - 1 \in 0..k /\ k - 1 # k
    OBVIOUS
  <2> HIDE DEF outer
  <2>3. ASSUME NEW d \in 0..k
        PROVE  g[d] = IF d = 0 THEN Default
                      ELSE IF d \in I THEN Merge(g[d - 1], frames[d].ints[n]) ELSE g[d - 1]
    <3>1. CASE d = k
      <4>1. g[d] = outer /\ g[d - 1] = m[k - 1]
        BY <2>2, <3>1
      <4> QED BY <2>2, <3>1, <4>1 DEF outer
    <3>2. CASE d # k
      <4>1. d \in 0..k - 1 /\ (d # 0 => d - 1 \in 0..k /\ d - 1 # k)
        BY <2>2, <3>2
      <4>2. g[d] = m[d] /\ (d # 0 => g[d - 1] = m[d - 1])
        BY <4>1, <3>2
      <4>3. m[d] = IF d = 0 THEN Default
                   ELSE IF d \in I THEN Merge(m[d - 1], frames[d].ints[n]) ELSE m[d - 1]
        BY <2>1, <4>1 DEF Merging
      <4> QED BY <4>2, <4>3
    <3> QED BY <3>1, <3>2
  <2> HIDE DEF g
  <2>4. g = Merging(g, I, n, k)
    <3>1. g = [d \in 0..k |-> g[d]]
      BY DEF g
    <3> QED BY <2>3, <3>1 DEF Merging
  <2> QED BY <2>4
<1> HIDE DEF Good
<1>3. Bad = {}
  <2>1. 0 \notin Bad /\ Bad \in SUBSET Nat
    BY <1>1
  <2>2. ASSUME NEW k \in Bad PROVE k - 1 \in Bad
    <3>1. k \in 1..c /\ k - 1 \in 0..c
      BY <2>1
    <3> QED BY <1>2, <3>1
  <2> QED BY <2>1, <2>2, FromNought
<1> QED BY <1>3 DEF Good

\* What is merged is what the copy holds.
LEMMA MergedAsCopied ==
  ASSUME FramesOK, CopiesOK, NEW c \in DOMAIN frames, NEW n \in Keys
  PROVE  Effective(c, n) = copied[c].conf[n]
<1> DEFINE Same(d) == \A m : m = Merging(m, Interceptions(d, n), n, d) => m[d] = copied[d].conf[n]
           Bad == {d \in DOMAIN frames : ~Same(d)}
<1>0. \A d \in DOMAIN frames : d \in Nat \ {0}
  BY FramesShape
<1>1. ASSUME NEW d \in DOMAIN frames, d # 1 => Same(frames[d].parent) PROVE Same(d)
  <2> SUFFICES ASSUME NEW m, m = Merging(m, Interceptions(d, n), n, d)
               PROVE  m[d] = copied[d].conf[n]
    OBVIOUS
  <2>1. \A e \in 0..d : m[e] = IF e = 0 THEN Default
                               ELSE IF e \in Interceptions(d, n) THEN Merge(m[e - 1], frames[e].ints[n])
                               ELSE m[e - 1]
    BY DEF Merging
  <2>2. d \in Nat \ {0}
    BY <1>0
  <2>3. CASE d = 1
    <3>1. Interceptions(1, n) = {}
      BY <2>3, FramesShape, LineageUnfolds DEF Interceptions, Nothing
    <3>2. m[0] = Default /\ m[1] = m[0]
      BY <2>1, <2>3, <3>1
    <3> QED BY <2>3, <3>2, CopyUnfolds
  <2>4. CASE d # 1
    <3> DEFINE p == frames[d].parent
               below == [e \in 0..p |-> m[e]]
    <3>1. p \in DOMAIN frames /\ p \in Nat \ {0} /\ p < d
      BY <2>4, FramesShape
    <3>2. /\ Interceptions(p, n) \subseteq 1..p
          /\ Interceptions(d, n) = Interceptions(p, n)
                                     \cup IF n \in DOMAIN frames[d].ints THEN {d} ELSE {}
      <4>1. LineageOf[d] = {d} \cup LineageOf[p]
        BY <2>4, LineageUnfolds
      <4>2. LineageOf[p] \subseteq 1..p
        BY <3>1, LineageBelow
      <4> QED BY <4>1, <4>2 DEF Interceptions
    <3> HIDE DEF p
    <3>3. m[p] = copied[p].conf[n]
      <4>1. ASSUME NEW e \in 0..p
            PROVE  below[e] = IF e = 0 THEN Default
                              ELSE IF e \in Interceptions(p, n)
                                   THEN Merge(below[e - 1], frames[e].ints[n])
                              ELSE below[e - 1]
        <5>1. e \in 0..d /\ e # d /\ (e # 0 => e - 1 \in 0..p)
          BY <3>1, <2>2
        <5>2. e \in Interceptions(d, n) <=> e \in Interceptions(p, n)
          BY <3>2, <5>1
        <5>3. below[e] = m[e] /\ (e # 0 => below[e - 1] = m[e - 1])
          BY <5>1
        <5> QED BY <2>1, <5>1, <5>2, <5>3
      <4>2. below = Merging(below, Interceptions(p, n), n, p)
        <5>1. below = [e \in 0..p |-> below[e]]
          OBVIOUS
        <5> HIDE DEF below
        <5> QED BY <4>1, <5>1 DEF Merging
      <4>3. below[p] = m[p]
        BY <3>1
      <4>4. Same(p)
        BY <1>1, <2>4 DEF p
      <4> QED BY <4>2, <4>3, <4>4
    <3>4. m[d - 1] = m[p]
      <4> DEFINE late == {k \in Nat : p + k \in p..d - 1 /\ m[p + k] # m[p]}
      <4>1. 0 \notin late
        BY <3>1
      <4>2. ASSUME NEW k \in late PROVE k - 1 \in late
        <5>1. k \in Nat \ {0} /\ p + k \in p + 1..d - 1
          BY <4>1, <3>1, <2>2
        <5>2. /\ p + k \in 0..d /\ p + k # d /\ p + k # 0 /\ p + k \notin 1..p
              /\ (p + k) - 1 = p + (k - 1) /\ p + (k - 1) \in p..d - 1
          BY <5>1, <3>1, <2>2
        <5>3. p + k \notin Interceptions(d, n)
          BY <3>2, <5>2
        <5>4. m[p + k] = m[(p + k) - 1]
          BY <2>1, <5>2, <5>3
        <5>5. k - 1 \in Nat /\ m[p + (k - 1)] # m[p]
          BY <5>1, <5>2, <5>4
        <5> QED BY <5>2, <5>5
      <4>3. late = {}
        BY <4>1, <4>2, FromNought
      <4>4. (d - 1) - p \in Nat /\ p + ((d - 1) - p) = d - 1 /\ d - 1 \in p..d - 1
        BY <3>1, <2>2
      <4> QED BY <4>3, <4>4
    <3>5. m[d] = IF n \in DOMAIN frames[d].ints THEN Merge(m[p], frames[d].ints[n]) ELSE m[p]
      <4>1. d \in 0..d /\ d # 0 /\ d \notin 1..p
        BY <2>2, <3>1
      <4> QED BY <2>1, <3>2, <3>4, <4>1
    <3>6. Handed(frames[d], copied[p], copied[d], n)
      BY <2>4, CopyUnfolds DEF p
    <3> QED BY <3>3, <3>5, <3>6 DEF Handed
  <2> QED BY <2>3, <2>4
<1> HIDE DEF Same
<1>2. Bad = {}
  <2>1. \A d \in DOMAIN frames : d # 1 => frames[d].parent \in DOMAIN frames
    BY FramesShape
  <2>2. 1 \notin Bad /\ \A d \in Bad : frames[d].parent \in Bad
    BY <1>1, <2>1
  <2> QED BY <2>2, FromTheRoot
<1>3. Same(c)
  BY <1>2
<1> DEFINE merged == CHOOSE m : m = Merging(m, Interceptions(c, n), n, c)
<1>4. merged = Merging(merged, Interceptions(c, n), n, c)
  BY <1>0, MergeTable
<1>5. Effective(c, n) = merged[c]
  BY DEF Effective, Merging
<1> HIDE DEF merged
<1> QED BY <1>3, <1>4, <1>5 DEF Same

\* The three parts of the property, of a state that has the invariant.
LEMMA WalksFromInv == ASSUME FramesConstants, FramesInv PROVE WalksAreCopies
<1> USE DEF FramesInv
<1>1. ASSUME NEW c \in Extant, NEW n \in Keys
      PROVE  /\ c \in DOMAIN frames
             /\ <<RealmUnder(c, n), copied[c].home[n]>> \in Uses(n)
  BY RealmIsUsed DEF Extant
<1>2. ConfiguredAsCopied
  BY <1>1, MergedAsCopied DEF ConfiguredAsCopied
<1>3. RealmsAsDeclared
  <2> SUFFICES ASSUME NEW c \in Extant, NEW d \in Extant, NEW n \in Keys
               PROVE  RealmUnder(c, n) = RealmUnder(d, n) <=> copied[c].home[n] = copied[d].home[n]
    BY DEF RealmsAsDeclared
  <2> DEFINE u == <<RealmUnder(c, n), copied[c].home[n]>>
             v == <<RealmUnder(d, n), copied[d].home[n]>>
  <2>1. u \in Uses(n) /\ v \in Uses(n)
    BY <1>1
  <2>2. u[1] = v[1] <=> u[2] = v[2]
    BY <2>1 DEF RealmsOK
  <2> QED BY <2>2
<1>4. ResolvedAsCopied
  <2> SUFFICES ASSUME NEW c \in Extant, NEW n \in Keys
               PROVE  LET there == {k \in DOMAIN bound : k[1] = n /\ owners[k] = copied[c].home[n]} IN
                      IF copied[c].meta[n] # Absent THEN Resolve(c, n) = copied[c].meta[n]
                      ELSE IF there = {} THEN Resolve(c, n) = Absent
                      ELSE \A k \in there : Resolve(c, n) = bound[k]
    BY DEF ResolvedAsCopied
  <2> DEFINE there == {k \in DOMAIN bound : k[1] = n /\ owners[k] = copied[c].home[n]}
             key == <<n, RealmUnder(c, n)>>
  <2>1. CASE copied[c].meta[n] # Absent
    <3>1. PICK d \in DOMAIN frames : /\ Nearest(c, Scoping(n)) = {d}
                                     /\ frames[d].meta[n] = copied[c].meta[n]
      BY <1>1, <2>1, ScopedAsCopied
    <3>2. Resolve(c, n) = frames[d].meta[n]
      BY <3>1 DEF Resolve
    <3> QED BY <2>1, <3>1, <3>2
  <2>2. CASE copied[c].meta[n] = Absent
    <3>1. Resolve(c, n) = IF key \in DOMAIN bound THEN bound[key] ELSE Absent
      BY <1>1, <2>2, ScopedAsCopied DEF Resolve
    <3>2. ASSUME NEW k \in DOMAIN bound
          PROVE  k \in there <=> k = key
      <4>1. k = <<k[1], k[2]>>
        BY DEF RealmsOK
      <4>2. ASSUME k[1] = n
            PROVE  k[2] = RealmUnder(c, n) <=> owners[k] = copied[c].home[n]
        <5> DEFINE u == <<RealmUnder(c, n), copied[c].home[n]>>
                   v == <<k[2], owners[k]>>
        <5>1. u \in Uses(n) /\ v \in Uses(n)
          BY <1>1, <4>2 DEF Uses
        <5>2. v[1] = u[1] <=> v[2] = u[2]
          BY <5>1 DEF RealmsOK
        <5> QED BY <5>2
      <4> QED BY <4>1, <4>2
    <3>3. IF key \in DOMAIN bound THEN there = {key} ELSE there = {}
      BY <3>2
    <3> QED BY <2>2, <3>1, <3>3
  <2> QED BY <2>1, <2>2
<1> QED BY <1>2, <1>3, <1>4 DEF WalksAreCopies

-----------------------------------------------------------------------------
\* Frames: the steps.

LEMMA FramesInvInit == FramesInit => FramesInv
<1> SUFFICES ASSUME FramesInit PROVE FramesInv
  OBVIOUS
<1>1. /\ frames = <<Own(Nothing, Nothing, Nothing, 0)>> /\ minted = 0
      /\ interned = Nothing /\ bound = Nothing /\ owners = Nothing
      /\ copied = <<[meta |-> [n \in Keys |-> Absent], conf |-> [n \in Keys |-> Default],
                     home |-> [n \in Keys |-> <<>>]]>>
  BY DEF FramesInit
<1>2. FramesOK
  <2>1. Own(Nothing, Nothing, Nothing, 0) \in Frame
    BY DEF Own, Frame
  <2> HIDE DEF Own, Frame
  <2> QED BY <1>1, <2>1 DEF FramesOK
<1>3. CopiesOK
  <2>1. Len(copied) = 1 /\ Len(frames) = 1 /\ DOMAIN copied = {1}
    BY <1>1
  <2>2. copied \in Seq({copied[i] : i \in DOMAIN copied})
    BY <1>1, <2>1
  <2> QED BY <1>1, <2>1, <2>2 DEF CopiesOK
<1>4. DOMAIN Nothing = {}
  BY DEF Nothing
<1>5. ASSUME NEW n \in Keys PROVE Uses(n) = {<<Unisolated, <<>>>>}
  <2>1. Isolating(n) = {}
    BY <1>1, <1>4 DEF Isolating, Own
  <2> QED BY <1>1, <1>4, <2>1 DEF Uses
<1>6. RealmsOK
  <2> SUFFICES ASSUME NEW n \in Keys, NEW u \in Uses(n)
               PROVE  /\ u[1] \in 0..minted /\ u[2] = <<>>
                      /\ \A v \in Uses(n) : u[1] = v[1] <=> u[2] = v[2]
    BY <1>1, <1>4 DEF RealmsOK, OfOne, OwnLabel
  <2> QED BY <1>1, <1>5 DEF Unisolated
<1> QED BY <1>2, <1>3, <1>6 DEF FramesInv

LEMMA TakenFrom == ASSUME NEW n \in Nat, NEW T, NEW t \in [1..n -> T] PROVE t \in Seq(T)
OBVIOUS

LEMMA OfItsItems == ASSUME NEW S, NEW t \in Seq(S) PROVE t \in Seq({t[i] : i \in DOMAIN t})
<1>1. t \in [1..Len(t) -> S] /\ Len(t) \in Nat /\ DOMAIN t = 1..Len(t)
  BY LenProperties
<1>2. t \in [1..Len(t) -> {t[i] : i \in DOMAIN t}]
  BY <1>1
<1> QED BY <1>1, <1>2, TakenFrom

\* One more context: what there was stays as it was.
LEMMA Longer ==
  ASSUME NEW s, s \in Seq({s[i] : i \in DOMAIN s}), NEW x, NEW t, t = Append(s, x)
  PROVE  /\ t \in Seq({t[i] : i \in DOMAIN t}) /\ Len(t) = Len(s) + 1 /\ Len(s) \in Nat
         /\ DOMAIN t = DOMAIN s \cup {Len(s) + 1} /\ Len(s) + 1 \notin DOMAIN s
         /\ DOMAIN s = 1..Len(s)
         /\ t[Len(s) + 1] = x /\ \A i \in DOMAIN s : t[i] = s[i]
<1> DEFINE S == {s[i] : i \in DOMAIN s} \cup {x}
<1>1. s \in Seq(S) /\ x \in S
  <2>1. {s[i] : i \in DOMAIN s} \subseteq S
    OBVIOUS
  <2>2. s \in [1..Len(s) -> {s[i] : i \in DOMAIN s}] /\ Len(s) \in Nat
    OBVIOUS
  <2>3. s \in [1..Len(s) -> S]
    BY <2>1, <2>2
  <2> QED BY <2>2, <2>3
<1> HIDE DEF S
<1>2. /\ t \in Seq(S) /\ Len(t) = Len(s) + 1 /\ Len(s) \in Nat
      /\ DOMAIN s = 1..Len(s) /\ DOMAIN t = 1..Len(s) + 1
      /\ t[Len(s) + 1] = x /\ \A i \in DOMAIN s : t[i] = s[i]
  BY <1>1
<1>3. t \in Seq({t[i] : i \in DOMAIN t})
  BY <1>2, OfItsItems
<1> QED BY <1>2, <1>3

LEMMA Grows ==
  ASSUME FramesOK, CopiesOK, NEW c \in Extant, NEW frame, NEW copy, Made(frame, copy),
         frame \in Frame, frame.parent = c, frame.kept,
         DOMAIN copy = {"meta", "conf", "home"}, DOMAIN copy.meta = Keys, DOMAIN copy.home = Keys,
         \A n \in Keys : Handed(frame, copied[c], copy, n)
  PROVE  /\ FramesOK' /\ CopiesOK'
         /\ DOMAIN frames' = DOMAIN frames \cup {Len(frames) + 1}
         /\ Extant' = Extant \cup {Len(frames) + 1} /\ Len(frames) + 1 \notin DOMAIN frames
         /\ frames'[Len(frames) + 1] = frame /\ copied'[Len(frames) + 1] = copy
         /\ \A d \in DOMAIN frames : frames'[d] = frames[d] /\ copied'[d] = copied[d]
<1> DEFINE new == Len(frames) + 1
<1>1. /\ frames' \in Seq(Frame) /\ frames' # <<>>
      /\ DOMAIN frames' = DOMAIN frames \cup {new} /\ new \notin DOMAIN frames
      /\ Len(frames') = new /\ new \in Nat
      /\ frames'[new] = frame /\ \A d \in DOMAIN frames : frames'[d] = frames[d]
  BY DEF Made, FramesOK
<1>2. /\ copied' \in Seq({copied'[i] : i \in DOMAIN copied'}) /\ Len(copied') = new
      /\ DOMAIN copied' = DOMAIN frames' /\ DOMAIN copied = DOMAIN frames
      /\ copied'[new] = copy /\ \A d \in DOMAIN frames : copied'[d] = copied[d]
  <2>1. copied \in Seq({copied[i] : i \in DOMAIN copied}) /\ Len(copied) = Len(frames)
    BY DEF CopiesOK
  <2>2. copied' = Append(copied, copy)
    BY DEF Made
  <2>3. DOMAIN frames = 1..Len(frames)
    BY FramesShape
  <2>4. DOMAIN copied = 1..Len(copied)
    BY <2>1, LenProperties
  <2>5. /\ copied' \in Seq({copied'[i] : i \in DOMAIN copied'}) /\ Len(copied') = Len(copied) + 1
        /\ DOMAIN copied' = DOMAIN copied \cup {Len(copied) + 1}
        /\ copied'[Len(copied) + 1] = copy /\ \A d \in DOMAIN copied : copied'[d] = copied[d]
    <3> DEFINE s == copied
               t == copied'
    <3>1. s \in Seq({s[i] : i \in DOMAIN s}) /\ t = Append(s, copy)
      BY <2>1, <2>2
    <3> HIDE DEF s, t
    <3>2. /\ t \in Seq({t[i] : i \in DOMAIN t}) /\ Len(t) = Len(s) + 1
          /\ DOMAIN t = DOMAIN s \cup {Len(s) + 1}
          /\ t[Len(s) + 1] = copy /\ \A i \in DOMAIN s : t[i] = s[i]
      BY <3>1, Longer
    <3> QED BY <3>2 DEF s, t
  <2> QED BY <1>1, <2>1, <2>3, <2>4, <2>5
<1>3. Extant' = Extant \cup {new}
  BY <1>1 DEF Extant
<1>4. c \in DOMAIN frames /\ c \in 1..new - 1 /\ 1 \in DOMAIN frames /\ new # 1
  BY <1>1, FramesShape DEF Extant
<1>5. FramesOK'
  <2>1. frames'[1] = Own(Nothing, Nothing, Nothing, 0)
    BY <1>1, <1>4 DEF FramesOK
  <2>2. ASSUME NEW d \in DOMAIN frames', d # 1
        PROVE  /\ frames'[d].parent \in 1..d - 1
               /\ d \in Extant' => frames'[d].parent \in Extant'
    <3>1. CASE d = new
      BY <1>1, <1>3, <1>4, <3>1
    <3>2. CASE d # new
      BY <1>1, <1>3, <2>2, <3>2 DEF FramesOK
    <3> QED BY <3>1, <3>2
  <2> QED BY <1>1, <2>1, <2>2 DEF FramesOK
<1>6. CopiesOK'
  <2>1. copied'[1] = copied[1]
    BY <1>2, <1>4
  <2>2. ASSUME NEW d \in DOMAIN copied'
        PROVE  /\ DOMAIN copied'[d] = {"meta", "conf", "home"}
               /\ DOMAIN copied'[d].meta = Keys /\ DOMAIN copied'[d].home = Keys
               /\ d # 1 => \A n \in Keys :
                    Handed(frames'[d], copied'[frames'[d].parent], copied'[d], n)
    <3>1. CASE d = new
      BY <1>1, <1>2, <1>4, <3>1
    <3>2. CASE d # new
      <4>1. /\ d \in DOMAIN frames /\ d \in DOMAIN copied
            /\ frames'[d] = frames[d] /\ copied'[d] = copied[d]
        BY <1>1, <1>2, <3>2
      <4>2. d # 1 => copied'[frames[d].parent] = copied[frames[d].parent]
        BY <1>2, <4>1, FramesShape
      <4> QED BY <4>1, <4>2 DEF CopiesOK
    <3> QED BY <3>1, <3>2
  <2> QED BY <1>1, <1>2, <2>1, <2>2 DEF CopiesOK, Handed
<1> QED BY <1>1, <1>2, <1>3, <1>5, <1>6

\* A context that isolates nothing uses no realm.
LEMMA GrowsAside ==
  ASSUME FramesInv, NEW c \in Extant, NEW frame, NEW copy, Made(frame, copy),
         frame \in Frame, frame.parent = c, frame.kept, frame.iso = Nothing,
         DOMAIN copy = {"meta", "conf", "home"}, DOMAIN copy.meta = Keys, DOMAIN copy.home = Keys,
         \A n \in Keys : Handed(frame, copied[c], copy, n),
         UNCHANGED <<minted, interned, bound, owners>>
  PROVE  FramesInv'
<1> DEFINE new == Len(frames) + 1
<1>1. /\ FramesOK' /\ CopiesOK'
      /\ DOMAIN frames' = DOMAIN frames \cup {new}
      /\ Extant' = Extant \cup {new} /\ new \notin DOMAIN frames
      /\ frames'[new] = frame
      /\ \A d \in DOMAIN frames : frames'[d] = frames[d] /\ copied'[d] = copied[d]
  BY Grows DEF FramesInv
<1> HIDE DEF new
<1>2. ASSUME NEW n \in Keys PROVE Uses(n)' = Uses(n)
  <2>1. Isolating(n)' = Isolating(n)
    BY <1>1 DEF Isolating, Nothing
  <2>2. Extant' \cap Isolating(n)' = Extant \cap Isolating(n)
    BY <1>1, <2>1 DEF Isolating
  <2>3. \A d \in Extant \cap Isolating(n) : frames'[d] = frames[d] /\ copied'[d] = copied[d]
    BY <1>1 DEF Isolating
  <2>4. {<<frames'[d].iso[n], copied'[d].home[n]>> : d \in Extant' \cap Isolating(n)'}
          = {<<frames[d].iso[n], copied[d].home[n]>> : d \in Extant \cap Isolating(n)}
    BY <2>2, <2>3
  <2> QED BY <2>4 DEF Uses
<1>3. RealmsOK'
  <2>1. RealmsOK /\ DOMAIN frames \subseteq DOMAIN frames'
    BY <1>1 DEF FramesInv
  <2>2. minted' = minted /\ interned' = interned /\ bound' = bound /\ owners' = owners
    OBVIOUS
  <2>3. ASSUME NEW n \in Keys, NEW u, OfOne(n, u) PROVE OfOne(n, u)'
    BY <2>1, <2>2, <2>3 DEF OfOne
  <2>4. ASSUME NEW n \in Keys, NEW u \in Uses(n) PROVE OwnLabel(n, u)' <=> OwnLabel(n, u)
    BY <2>2 DEF OwnLabel
  <2> HIDE DEF Uses
  <2> QED BY <1>2, <2>1, <2>2, <2>3, <2>4 DEF RealmsOK
<1> QED BY <1>1, <1>3 DEF FramesInv

LEMMA ExtendKeeps ==
  ASSUME FramesConstants, FramesInv, NEW c \in Extant, NEW meta \in Metas, Extend(c, meta)
  PROVE  FramesInv'
<1> DEFINE frame == Own(meta, Nothing, Nothing, c)
           copy == [copied[c] EXCEPT !.meta = Merge(@, meta)]
<1>1. Made(frame, copy) /\ UNCHANGED <<minted, interned, bound, owners>>
  BY DEF Extend
<1>2. frame \in Frame /\ frame.parent = c /\ frame.kept /\ frame.iso = Nothing
  BY FramesShape DEF Own, Frame, FramesInv, Extant
<1>3. /\ DOMAIN copied[c] = {"meta", "conf", "home"}
      /\ DOMAIN copied[c].meta = Keys /\ DOMAIN copied[c].home = Keys
  BY FramesShape DEF FramesInv, CopiesOK, Extant
<1>4. /\ DOMAIN copy = {"meta", "conf", "home"}
      /\ copy.meta = Merge(copied[c].meta, meta)
      /\ copy.conf = copied[c].conf /\ copy.home = copied[c].home
      /\ DOMAIN copy.meta = Keys
  BY <1>3 DEF Merge, FramesConstants
<1>5. ASSUME NEW n \in Keys PROVE Handed(frame, copied[c], copy, n)
  <2>1. frame.meta = meta /\ frame.ints = Nothing /\ frame.iso = Nothing
    BY DEF Own
  <2>2. Merge(copied[c].meta, meta)[n] = IF n \in DOMAIN meta THEN meta[n] ELSE copied[c].meta[n]
    BY <1>3 DEF Merge
  <2> QED BY <2>1, <2>2, <1>4 DEF Handed, Nothing
<1> HIDE DEF frame, copy
<1> QED BY <1>1, <1>2, <1>3, <1>4, <1>5, GrowsAside

LEMMA InterceptKeeps ==
  ASSUME FramesInv, NEW c \in Extant, NEW m \in Keys, NEW entry \in Entries,
         InterceptAll(c, [k \in {m} |-> entry])
  PROVE  FramesInv'
<1> DEFINE ints == [k \in {m} |-> entry]
           frame == Own(Nothing, ints, Nothing, c)
           conf == [n \in Keys |-> IF n \in DOMAIN ints THEN Merge(copied[c].conf[n], ints[n])
                                   ELSE copied[c].conf[n]]
           copy == [copied[c] EXCEPT !.conf = conf]
<1>1. Made(frame, copy) /\ UNCHANGED <<minted, interned, bound, owners>>
  BY DEF InterceptAll
<1>2. frame \in Frame /\ frame.parent = c /\ frame.kept /\ frame.iso = Nothing
  <2>1. ints \in [{m} -> Entries]
    OBVIOUS
  <2>2. ints \in UNION {[{n} -> Entries] : n \in Keys}
    BY <2>1
  <2>3. c \in Nat
    BY FramesShape DEF FramesInv, Extant
  <2> HIDE DEF ints
  <2>4. /\ frame = [parent |-> c, meta |-> Nothing, ints |-> ints, iso |-> Nothing, kept |-> TRUE]
        /\ ints \in {Nothing} \cup (UNION {[{n} -> Entries] : n \in Keys})
    BY <2>2 DEF Own
  <2> QED BY <2>3, <2>4 DEF Frame
<1>3. /\ DOMAIN copied[c] = {"meta", "conf", "home"}
      /\ DOMAIN copied[c].meta = Keys /\ DOMAIN copied[c].home = Keys
  BY FramesShape DEF FramesInv, CopiesOK, Extant
<1> HIDE DEF ints
<1>4. /\ DOMAIN copy = {"meta", "conf", "home"}
      /\ copy.conf = conf /\ copy.meta = copied[c].meta /\ copy.home = copied[c].home
  BY <1>3
<1>5. ASSUME NEW n \in Keys PROVE Handed(frame, copied[c], copy, n)
  <2>1. frame.meta = Nothing /\ frame.ints = ints /\ frame.iso = Nothing
    BY DEF Own
  <2> HIDE DEF frame, copy
  <2> QED BY <2>1, <1>4 DEF Handed, Nothing
<1> HIDE DEF frame, copy
<1> QED BY <1>1, <1>2, <1>3, <1>4, <1>5, GrowsAside

\* Fewer uses are as good.
LEMMA FewerUses ==
  ASSUME RealmsOK, DOMAIN frames' = DOMAIN frames, minted' = minted, interned' = interned,
         DOMAIN owners' = DOMAIN bound', DOMAIN bound' \subseteq Keys \X Nat,
         \A n \in Keys : Uses(n)' \subseteq Uses(n)
  PROVE  RealmsOK'
<1>1. ASSUME NEW n \in Keys, NEW u
      PROVE  (OfOne(n, u)' <=> OfOne(n, u)) /\ (OwnLabel(n, u)' <=> OwnLabel(n, u))
  BY DEF OfOne, OwnLabel
<1> QED BY <1>1 DEF RealmsOK

LEMMA ReleaseKeeps ==
  ASSUME FramesInv, NEW c \in Extant, Release(c)
  PROVE  FramesInv'
<1>1. /\ c # 1 /\ \A d \in Extant : frames[d].parent # c
      /\ frames' = [frames EXCEPT ![c].kept = FALSE]
      /\ UNCHANGED <<minted, interned, bound, copied, owners>>
  BY DEF Release
<1>2. c \in DOMAIN frames /\ frames \in Seq(Frame) /\ frames # <<>>
  BY DEF Extant, FramesInv, FramesOK
<1>3. /\ DOMAIN frames' = DOMAIN frames /\ Len(frames') = Len(frames)
      /\ frames' \in Seq(Frame) /\ frames' # <<>>
      /\ \A d \in DOMAIN frames : d # c => frames'[d] = frames[d]
      /\ frames'[c] = [frames[c] EXCEPT !.kept = FALSE]
  <2>1. frames[c] \in Frame
    BY <1>2
  <2>2. [frames[c] EXCEPT !.kept = FALSE] \in Frame
    BY <2>1 DEF Frame
  <2> QED BY <1>1, <1>2, <2>2
<1>4. ASSUME NEW d \in DOMAIN frames
      PROVE  /\ frames'[d].parent = frames[d].parent /\ frames'[d].meta = frames[d].meta
             /\ frames'[d].ints = frames[d].ints /\ frames'[d].iso = frames[d].iso
             /\ frames'[d].kept <=> frames[d].kept /\ d # c
  <2>1. frames[d] \in Frame
    BY <1>2
  <2> QED BY <1>3, <2>1 DEF Frame
<1>5. Extant' = Extant \ {c}
  BY <1>3, <1>4 DEF Extant
<1>6. FramesOK'
  <2>1. frames'[1] = frames[1] /\ 1 \in DOMAIN frames
    BY <1>1, <1>3, FramesShape DEF FramesInv
  <2>2. ASSUME NEW d \in DOMAIN frames', d # 1
        PROVE  /\ frames'[d].parent \in 1..d - 1
               /\ d \in Extant' => frames'[d].parent \in Extant'
    BY <1>1, <1>3, <1>4, <1>5, <2>2 DEF FramesInv, FramesOK
  <2> QED BY <1>3, <2>1, <2>2 DEF FramesInv, FramesOK
<1>7. CopiesOK'
  <2>1. ASSUME NEW d \in DOMAIN copied, d # 1, NEW n \in Keys
        PROVE  Handed(frames'[d], copied'[frames'[d].parent], copied'[d], n)
    <3>1. d \in DOMAIN frames /\ copied' = copied
      BY <1>1, <1>2, FramesShape DEF FramesInv, CopiesOK
    <3>2. Handed(frames[d], copied[frames[d].parent], copied[d], n)
      BY <2>1 DEF FramesInv, CopiesOK
    <3> QED BY <1>4, <3>1, <3>2 DEF Handed
  <2> QED BY <1>1, <1>3, <2>1 DEF FramesInv, CopiesOK, Handed
<1>8. ASSUME NEW n \in Keys PROVE Uses(n)' \subseteq Uses(n)
  <2>1. Extant' \cap Isolating(n)' \subseteq Extant \cap Isolating(n)
    BY <1>3, <1>4, <1>5 DEF Isolating
  <2>2. \A d \in Extant \cap Isolating(n) :
          <<frames'[d].iso[n], copied'[d].home[n]>> = <<frames[d].iso[n], copied[d].home[n]>>
    BY <1>1, <1>4 DEF Isolating
  <2>3. {<<frames'[d].iso[n], copied'[d].home[n]>> : d \in Extant' \cap Isolating(n)'}
          \subseteq {<<frames[d].iso[n], copied[d].home[n]>> : d \in Extant \cap Isolating(n)}
    BY <2>1, <2>2
  <2> QED BY <1>1, <2>3 DEF Uses
<1>9. RealmsOK'
  <2>1. DOMAIN owners' = DOMAIN bound' /\ DOMAIN bound' \subseteq Keys \X Nat
    BY <1>1 DEF FramesInv, RealmsOK
  <2> QED BY <1>1, <1>3, <1>8, <2>1, FewerUses DEF FramesInv
<1> QED BY <1>6, <1>7, <1>9 DEF FramesInv

\* Where the frames stay, so do the copies of them.
LEMMA FramesStay ==
  ASSUME FramesInv, frames' = frames, copied' = copied PROVE FramesOK' /\ CopiesOK'
BY DEF FramesInv, FramesOK, CopiesOK, Extant, Handed

LEMMA BindKeeps ==
  ASSUME FramesInv, NEW c \in Extant, NEW n \in Keys, NEW value \in Values, Bind(c, n, value)
  PROVE  FramesInv'
<1> DEFINE key == <<n, RealmUnder(c, n)>>
           home == copied[c].home[n]
<1>1. /\ key \notin DOMAIN bound
      /\ bound' = Merge(bound, [k \in {key} |-> value])
      /\ owners' = Merge(owners, [k \in {key} |-> home])
      /\ UNCHANGED <<frames, minted, interned, copied>>
  BY DEF Bind
<1>2. <<RealmUnder(c, n), home>> \in Uses(n)
  BY RealmIsUsed DEF FramesInv
<1>3. RealmUnder(c, n) \in Nat
  <2>1. minted \in Nat /\ \A u \in Uses(n) : u[1] \in 0..minted
    BY DEF FramesInv, RealmsOK
  <2>2. RealmUnder(c, n) \in 0..minted
    BY <1>2, <2>1
  <2> QED BY <2>1, <2>2
<1>4. DOMAIN owners = DOMAIN bound /\ DOMAIN bound \subseteq Keys \X Nat
  BY DEF FramesInv, RealmsOK
<1> HIDE DEF key, home
<1>5. /\ DOMAIN bound' = DOMAIN bound \cup {key} /\ DOMAIN owners' = DOMAIN bound \cup {key}
      /\ owners'[key] = home /\ \A k \in DOMAIN bound : owners'[k] = owners[k]
  BY <1>1, <1>4 DEF Merge
<1>6. ASSUME NEW m \in Keys PROVE Uses(m)' \subseteq Uses(m)
  <2>1. \A k \in DOMAIN bound' : k[1] = m =>
          <<k[2], owners'[k]>> \in Uses(m)
    <3>1. ASSUME NEW k \in DOMAIN bound, k[1] = m PROVE <<k[2], owners'[k]>> \in Uses(m)
      BY <1>5, <3>1 DEF Uses
    <3>2. key[1] = n /\ key[2] = RealmUnder(c, n)
      BY DEF key
    <3> QED BY <1>2, <1>5, <3>1, <3>2
  <2>2. Extant' = Extant /\ Isolating(m)' = Isolating(m)
    BY <1>1 DEF Extant, Isolating
  <2>3. ASSUME NEW u \in Uses(m)' PROVE u \in Uses(m)
    <3>1. CASE u \in {<<Unisolated, <<>>>>}
                      \cup {<<frames[d].iso[m], copied[d].home[m]>> : d \in Extant \cap Isolating(m)}
      BY <3>1 DEF Uses
    <3>2. CASE u \in {<<k[2], owners'[k]>> : k \in {l \in DOMAIN bound' : l[1] = m}}
      BY <2>1, <3>2
    <3> QED BY <1>1, <2>2, <2>3, <3>1, <3>2 DEF Uses
  <2> QED BY <2>3
<1>7. DOMAIN bound' \subseteq Keys \X Nat
  BY <1>3, <1>4, <1>5 DEF key
<1>8. RealmsOK'
  BY <1>1, <1>5, <1>6, <1>7, FewerUses DEF FramesInv
<1> QED BY <1>1, <1>8, FramesStay DEF FramesInv

LEMMA RetractKeeps ==
  ASSUME FramesInv, NEW key \in DOMAIN bound, Retract(key) PROVE FramesInv'
<1>1. /\ DOMAIN bound' = DOMAIN bound \ {key} /\ DOMAIN owners' = DOMAIN owners \ {key}
      /\ \A k \in DOMAIN owners' : owners'[k] = owners[k]
      /\ frames' = frames /\ minted' = minted /\ interned' = interned /\ copied' = copied
  BY DEF Retract, Restrict
<1>2. DOMAIN owners = DOMAIN bound /\ DOMAIN bound \subseteq Keys \X Nat
  BY DEF FramesInv, RealmsOK
<1>3. ASSUME NEW m \in Keys PROVE Uses(m)' \subseteq Uses(m)
  <2>1. Extant' = Extant /\ Isolating(m)' = Isolating(m)
    BY <1>1 DEF Extant, Isolating
  <2> QED BY <1>1, <1>2, <2>1 DEF Uses
<1>4. RealmsOK'
  BY <1>1, <1>2, <1>3, FewerUses DEF FramesInv
<1> QED BY <1>1, <1>4, FramesStay DEF FramesInv

\* The isolations of contexts and of labels, and none, are told apart.
LEMMA HomesDiffer ==
  ASSUME NEW a, NEW b, NEW d
  PROVE  <<>> # <<d>> /\ <<>> # <<a, b>> /\ <<d>> # <<a, b>>
<1>1. Len(<<>>) = 0 /\ Len(<<d>>) = 1 /\ Len(<<a, b>>) = 2
  OBVIOUS
<1> QED BY <1>1

\* An isolation that is made has the realm of its label if that is in use, or a new one.
LEMMA IsolateKeeps ==
  ASSUME FramesInv, NEW c \in Extant, NEW n \in Keys, NEW label \in Labels \cup {Null},
         Isolate(c, n, label)
  PROVE  FramesInv'
<1> DEFINE fresh == minted + 1
           realm == IF Old(n, label) = {} THEN fresh ELSE CHOOSE r \in Old(n, label) : TRUE
           key == <<n, label>>
           new == Len(frames) + 1
           home == IF label = Null THEN <<new>> ELSE <<n, label>>
           frame == Own(Nothing, Nothing, [m \in {n} |-> realm], c)
           copy == [copied[c] EXCEPT !.home[n] = home]
<1>1. /\ minted' = IF Old(n, label) = {} THEN fresh ELSE minted
      /\ interned' = Merge(interned, [k \in {key} |-> realm])
      /\ Made(frame, copy) /\ bound' = bound /\ owners' = owners
  BY DEF Isolate
<1>2. /\ minted \in Nat /\ \A k \in DOMAIN interned : interned[k] \in 1..minted
      /\ \A k, l \in DOMAIN interned :
           k[2] # Null /\ l[2] # Null /\ interned[k] = interned[l] => k = l
  BY DEF FramesInv, RealmsOK
<1>3. \/ Old(n, label) = {} /\ realm = fresh /\ minted' = minted + 1
      \/ /\ Old(n, label) # {} /\ label # Null /\ key \in DOMAIN interned
         /\ realm = interned[key] /\ minted' = minted
  <2>1. CASE Old(n, label) = {}
    BY <1>1, <2>1
  <2>2. CASE Old(n, label) # {}
    <3>1. label # Null /\ key \in DOMAIN interned /\ Old(n, label) = {interned[key]}
      BY <2>2 DEF Old
    <3> QED BY <1>1, <2>2, <3>1
  <2> QED BY <2>1, <2>2
<1> HIDE DEF realm
<1>4. /\ realm \in 1..minted' /\ realm \in Nat \ {0} /\ minted' \in Nat /\ minted <= minted'
      /\ realm <= minted => label # Null /\ key \in DOMAIN interned /\ realm = interned[key]
  BY <1>2, <1>3
<1>5. /\ FramesOK' /\ CopiesOK'
      /\ DOMAIN frames' = DOMAIN frames \cup {new}
      /\ Extant' = Extant \cup {new} /\ new \notin DOMAIN frames
      /\ frames'[new] = frame /\ copied'[new] = copy
      /\ \A d \in DOMAIN frames : frames'[d] = frames[d] /\ copied'[d] = copied[d]
  <2>1. frame \in Frame /\ frame.parent = c /\ frame.kept
    <3>1. c \in Nat
      BY FramesShape DEF FramesInv, Extant
    <3> DEFINE iso == [m \in {n} |-> realm]
    <3>2. iso \in [{n} -> Nat \ {0}]
      BY <1>4
    <3>3. frame = [parent |-> c, meta |-> Nothing, ints |-> Nothing, iso |-> iso, kept |-> TRUE]
      BY DEF Own
    <3> HIDE DEF iso, frame
    <3>4. iso \in UNION {[{m} -> Nat \ {0}] : m \in Keys}
      BY <3>2
    <3> QED BY <3>1, <3>3, <3>4 DEF Frame
  <2>2. /\ DOMAIN copied[c] = {"meta", "conf", "home"}
        /\ DOMAIN copied[c].meta = Keys /\ DOMAIN copied[c].home = Keys
    BY FramesShape DEF FramesInv, CopiesOK, Extant
  <2> HIDE DEF home
  <2>3. /\ DOMAIN copy = {"meta", "conf", "home"}
        /\ copy.home = [copied[c].home EXCEPT ![n] = home]
        /\ copy.meta = copied[c].meta /\ copy.conf = copied[c].conf
    BY <2>2
  <2>4. DOMAIN copy.meta = Keys /\ DOMAIN copy.home = Keys
    BY <2>2, <2>3
  <2>5. ASSUME NEW m \in Keys PROVE Handed(frame, copied[c], copy, m)
    <3>1. frame.meta = Nothing /\ frame.ints = Nothing /\ frame.iso = [k \in {n} |-> realm]
      BY DEF Own
    <3>2. m # n => copy.home[m] = copied[c].home[m]
      BY <2>2, <2>3
    <3>3. DOMAIN Nothing = {} /\ DOMAIN [k \in {n} |-> realm] = {n}
      BY DEF Nothing
    <3> HIDE DEF frame, copy
    <3> QED BY <2>3, <3>1, <3>2, <3>3 DEF Handed
  <2> HIDE DEF frame, copy
  <2> QED BY <1>1, <2>1, <2>2, <2>3, <2>4, <2>5, Grows DEF FramesInv
<1>6. /\ frame.iso = [m \in {n} |-> realm] /\ copy.home[n] = home
  <2>1. /\ DOMAIN copied[c] = {"meta", "conf", "home"} /\ DOMAIN copied[c].home = Keys
    BY FramesShape DEF FramesInv, CopiesOK, Extant
  <2> QED BY <2>1 DEF Own
<1> HIDE DEF frame, copy
<1>7. /\ DOMAIN interned' = DOMAIN interned \cup {key} /\ interned'[key] = realm
      /\ \A k \in DOMAIN interned : k # key => interned'[k] = interned[k]
  BY <1>1 DEF Merge
<1>8. ASSUME NEW m \in Keys
      PROVE  Uses(m)' = Uses(m) \cup IF m = n THEN {<<realm, home>>} ELSE {}
  <2> DEFINE Of(ctx, fs, cs) == {<<fs[d].iso[m], cs[d].home[m]>> : d \in ctx}
  <2>1. Isolating(m)' = Isolating(m) \cup IF m = n THEN {new} ELSE {}
    BY <1>5, <1>6 DEF Isolating
  <2>2. Extant' \cap Isolating(m)' = (Extant \cap Isolating(m)) \cup IF m = n THEN {new} ELSE {}
    BY <1>5, <2>1 DEF Isolating
  <2>3. \A d \in Extant \cap Isolating(m) : frames'[d] = frames[d] /\ copied'[d] = copied[d]
    BY <1>5 DEF Isolating
  <2>4. Of(Extant \cap Isolating(m), frames', copied') = Of(Extant \cap Isolating(m), frames, copied)
    BY <2>3
  <2>5. m = n => <<frames'[new].iso[m], copied'[new].home[m]>> = <<realm, home>>
    BY <1>5, <1>6
  <2>6. Of(Extant' \cap Isolating(m)', frames', copied')
          = Of(Extant \cap Isolating(m), frames', copied') \cup IF m = n THEN {<<realm, home>>} ELSE {}
    BY <2>2, <2>5
  <2> QED BY <1>1, <2>4, <2>6 DEF Uses
<1>9. ASSUME NEW u, OfOne(n, u), u[2] = <<n, label>>
       PROVE  key \in DOMAIN interned /\ interned[key] = u[1]
  <2>1. u[2] # <<>> /\ \A d \in DOMAIN frames : u[2] # <<d>>
    BY <1>9, HomesDiffer
  <2>2. PICK l \in Labels \ {Null} : /\ u[2] = <<n, l>> /\ <<n, l>> \in DOMAIN interned
                                     /\ interned[<<n, l>>] = u[1]
    BY <1>9, <2>1 DEF OfOne
  <2> QED BY <1>9, <2>2
\* Who uses the realm uses it for this isolation.
<1>10. ASSUME NEW u \in Uses(n) PROVE u[1] = realm <=> u[2] = home
  <2>1. u[1] \in 0..minted /\ OfOne(n, u) /\ OwnLabel(n, u)
    BY DEF FramesInv, RealmsOK
  <2>2. CASE label = Null
    <3>1. u[1] # realm
      BY <1>3, <1>4, <2>1, <2>2
    <3>2. u[2] # <<new>>
      <4>1. CASE \E d \in DOMAIN frames : u[2] = <<d>>
        <5>1. PICK d \in DOMAIN frames : u[2] = <<d>>
          BY <4>1
        <5>2. d # new
          BY <1>5
        <5> QED BY <5>1, <5>2
      <4> QED BY <2>1, <4>1, HomesDiffer DEF OfOne
    <3> QED BY <2>2, <3>1, <3>2
  <2>3. CASE label # Null /\ Old(n, label) = {}
    <3>1. u[1] # realm
      BY <1>2, <1>3, <2>1, <2>3
    <3>2. ASSUME u[2] = <<n, label>> PROVE FALSE
      <4>1. key \in DOMAIN interned /\ interned[key] = u[1]
        BY <1>9, <2>1, <3>2
      <4>2. Held(u[1])
        <5>1. CASE u \in {<<frames[d].iso[n], copied[d].home[n]>> : d \in Extant \cap Isolating(n)}
          BY <5>1 DEF Held, Range, Isolating
        <5>2. CASE u \in {<<k[2], owners[k]>> : k \in {l \in DOMAIN bound : l[1] = n}}
          BY <5>2 DEF Held
        <5>3. u # <<Unisolated, <<>>>>
          BY <3>2
        <5> QED BY <5>1, <5>2, <5>3 DEF Uses
      <4> QED BY <2>3, <4>1, <4>2 DEF Old
    <3> QED BY <2>3, <3>1, <3>2
  <2>4. CASE label # Null /\ Old(n, label) # {}
    <3>1. label \in Labels \ {Null} /\ key \in DOMAIN interned /\ realm = interned[key]
      BY <1>3, <2>4
    <3>2. u[2] = <<n, label>> => u[1] = realm
      BY <1>9, <2>1, <3>1
    <3>3. u[1] = realm => u[2] = <<n, label>>
      BY <2>1, <3>1 DEF OwnLabel
    <3> QED BY <2>4, <3>2, <3>3
  <2> QED BY <2>2, <2>3, <2>4
<1>11. ASSUME NEW m \in Keys, NEW u \in Uses(m)
       PROVE  u[1] \in 0..minted' /\ OfOne(m, u)' /\ OwnLabel(m, u)'
  <2>1. u[1] \in 0..minted /\ OfOne(m, u) /\ OwnLabel(m, u)
    BY DEF FramesInv, RealmsOK
  <2>2. u[1] \in 0..minted'
    BY <1>2, <1>4, <2>1
  <2>3. ASSUME NEW l \in Labels \ {Null}, <<m, l>> = key
        PROVE  u[1] = realm <=> u[2] = <<m, l>>
    <3>1. m = n /\ l = label /\ home = <<m, l>>
      BY <2>3
    <3> QED BY <1>10, <3>1
  <2>4. OfOne(m, u)'
    <3>1. CASE u[2] = <<>> \/ \E d \in DOMAIN frames : u[2] = <<d>>
      BY <1>5, <3>1 DEF OfOne
    <3>2. ASSUME NEW l \in Labels \ {Null}, u[2] = <<m, l>>, <<m, l>> \in DOMAIN interned,
                 interned[<<m, l>>] = u[1]
          PROVE  <<m, l>> \in DOMAIN interned' /\ interned'[<<m, l>>] = u[1]
      BY <1>7, <2>3, <3>2
    <3> QED BY <2>1, <3>1, <3>2 DEF OfOne
  <2>5. OwnLabel(m, u)'
    <3>1. ASSUME NEW l \in Labels \ {Null}, <<m, l>> \in DOMAIN interned', interned'[<<m, l>>] = u[1]
          PROVE  u[2] = <<m, l>>
      <4>1. CASE <<m, l>> = key
        BY <1>7, <2>3, <3>1, <4>1
      <4>2. CASE <<m, l>> # key
        BY <1>7, <2>1, <3>1, <4>2 DEF OwnLabel
      <4> QED BY <4>1, <4>2
    <3> QED BY <3>1 DEF OwnLabel
  <2> QED BY <2>2, <2>4, <2>5
<1>12. ASSUME NEW u, u = <<realm, home>>
       PROVE  u[1] \in 0..minted' /\ OfOne(n, u)' /\ OwnLabel(n, u)'
  <2>1. OfOne(n, u)'
    BY <1>5, <1>7, <1>12 DEF OfOne
  <2>2. ASSUME NEW l \in Labels \ {Null}, <<n, l>> \in DOMAIN interned', interned'[<<n, l>>] = realm
        PROVE  label # Null /\ l = label
    <3>1. CASE <<n, l>> = key
      BY <3>1
    <3>2. CASE <<n, l>> # key
      <4>1. <<n, l>> \in DOMAIN interned /\ interned[<<n, l>>] = realm
        BY <1>7, <2>2, <3>2
      <4>2. realm <= minted
        BY <1>2, <4>1
      <4>3. label # Null /\ key \in DOMAIN interned /\ interned[key] = interned[<<n, l>>]
        BY <1>4, <4>1, <4>2
      <4>4. key[2] # Null /\ <<n, l>>[2] # Null
        BY <4>3
      <4> QED BY <1>2, <3>2, <4>1, <4>3, <4>4
    <3> QED BY <3>1, <3>2
  <2>3. OwnLabel(n, u)'
    BY <1>12, <2>2 DEF OwnLabel
  <2> QED BY <1>4, <1>12, <2>1, <2>3
<1>13. \A k \in DOMAIN interned' : interned'[k] \in 1..minted'
  BY <1>2, <1>4, <1>7
<1>14. ASSUME NEW k \in DOMAIN interned', NEW l \in DOMAIN interned',
              k[2] # Null, l[2] # Null, interned'[k] = interned'[l]
       PROVE  k = l
  <2>1. ASSUME NEW j \in DOMAIN interned, j # key, j[2] # Null, interned[j] = realm, key[2] # Null
        PROVE  FALSE
    <3>1. realm <= minted
      BY <1>2, <2>1
    <3> QED BY <1>2, <1>4, <2>1, <3>1
  <2>2. CASE k # key /\ l # key
    BY <1>2, <1>7, <1>14, <2>2
  <2>3. CASE k = key /\ l # key
    BY <1>7, <1>14, <2>1, <2>3
  <2>4. CASE k # key /\ l = key
    BY <1>7, <1>14, <2>1, <2>4
  <2> QED BY <2>2, <2>3, <2>4
<1>15. ASSUME NEW m \in Keys, NEW u \in Uses(m)'
       PROVE  /\ u[1] \in 0..minted' /\ OfOne(m, u)' /\ OwnLabel(m, u)'
              /\ \A v \in Uses(m)' : u[1] = v[1] <=> u[2] = v[2]
  <2>1. ASSUME NEW v \in Uses(m), NEW w \in Uses(m) PROVE v[1] = w[1] <=> v[2] = w[2]
    BY DEF FramesInv, RealmsOK
  <2> HIDE DEF home
  <2>2. CASE u \in Uses(m)
    BY <1>8, <1>10, <1>11, <2>1, <2>2
  <2>3. CASE m = n /\ u = <<realm, home>>
    BY <1>8, <1>10, <1>12, <2>3
  <2> QED BY <1>8, <2>2, <2>3
<1>16. RealmsOK'
  <2>1. DOMAIN owners' = DOMAIN bound' /\ DOMAIN bound' \subseteq Keys \X Nat
    BY <1>1 DEF FramesInv, RealmsOK
  <2> QED BY <1>4, <1>13, <1>14, <1>15, <2>1 DEF RealmsOK
<1> QED BY <1>5, <1>16 DEF FramesInv

\* The invariant holds: a copy holds what its frame and the copy above it say, and a
\* realm in use stands for one isolation.
THEOREM FramesInvHolds == ASSUME FramesConstants PROVE FramesSpec => []FramesInv
<1>1. FramesInit => FramesInv
  BY FramesInvInit
<1>2. FramesInv /\ [FramesNext]_framesVars => FramesInv'
  <2> SUFFICES ASSUME FramesInv, [FramesNext]_framesVars PROVE FramesInv'
    OBVIOUS
  <2>1. ASSUME NEW c \in Extant, NEW meta \in Metas, Extend(c, meta) PROVE FramesInv'
    BY <2>1, ExtendKeeps
  <2>2. ASSUME NEW c \in Extant, NEW n \in Keys, NEW entry \in Entries,
               InterceptAll(c, [m \in {n} |-> entry])
        PROVE  FramesInv'
    BY <2>2, InterceptKeeps
  <2>3. ASSUME NEW c \in Extant, NEW n \in Keys, NEW label \in Labels \cup {Null},
               Isolate(c, n, label)
        PROVE  FramesInv'
    BY <2>3, IsolateKeeps
  <2>4. ASSUME NEW c \in Extant, Release(c) PROVE FramesInv'
    BY <2>4, ReleaseKeeps
  <2>5. ASSUME NEW c \in Extant, NEW n \in Keys, NEW value \in Values, Bind(c, n, value)
        PROVE  FramesInv'
    BY <2>5, BindKeeps
  <2>6. ASSUME NEW key \in DOMAIN bound, Retract(key) PROVE FramesInv'
    BY <2>6, RetractKeeps
  <2>7. CASE UNCHANGED framesVars
    <3>1. /\ frames' = frames /\ copied' = copied /\ minted' = minted /\ interned' = interned
          /\ bound' = bound /\ owners' = owners
      BY <2>7 DEF framesVars
    <3>2. \A n \in Keys : Uses(n)' \subseteq Uses(n)
      BY <3>1 DEF Uses, Extant, Isolating
    <3>3. RealmsOK'
      BY <3>1, <3>2, FewerUses DEF FramesInv, RealmsOK
    <3> QED BY <3>1, <3>3, FramesStay DEF FramesInv
  <2> QED BY <2>1, <2>2, <2>3, <2>4, <2>5, <2>6, <2>7 DEF FramesNext
<1> QED BY <1>1, <1>2, PTL DEF FramesSpec

\* For any number of contexts, names, labels and bindings, every walk answers like a
\* copy: Context._resolve, effective_config and realm_for.
THEOREM WalksAreCopiesHolds == ASSUME FramesConstants PROVE FramesSpec => []WalksAreCopies
<1>1. FramesInv => WalksAreCopies
  BY WalksFromInv
<1> QED BY <1>1, FramesInvHolds, PTL
=============================================================================
