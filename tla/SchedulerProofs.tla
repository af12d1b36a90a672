-------------------------- MODULE SchedulerProofs ---------------------------
(*****************************************************************************)
(* The scheduler, for any number of service threads and callers: the count   *)
(* of service threads is exact, the queue stays sorted, and callbacks run in *)
(* order and one at a time.                                                  *)
(*****************************************************************************)
EXTENDS Scheduler, TLAPS, FiniteSetTheorems

Function == {"Repeat", "ProcessQueue"}

Time == 0 .. MaxTime + Period

Task == [at : Time, f : Function]

Sorted(tq) == \A i, j \in 1 .. Len(tq) : i <= j => tq[i].at <= tq[j].at

\* The places in serviceQueue itself, which only its threads reach.
InLoop == {"top", "wait", "timed", "due", "Repeat", "dead"}

InClient == {"ProcessQueue", "callback", "reset", "maybe", "schedule", "notify"}

Places == InLoop \union InClient \union {"idle", "join", "empty", "end"}

PlacesOK ==
  /\ pc \in [Thread -> Places]
  /\ \A t \in Thread : pc[t] \in InLoop => t \in Service

DyingOK ==
  /\ dying \subseteq Service
  /\ \A t \in dying : pc[t] \in {"reset", "maybe", "schedule", "notify", "dead"}

QueueOK ==
  /\ now \in 0 .. MaxTime
  /\ taskQueue \in Seq(Task) /\ Sorted(taskQueue)
  /\ time \in [Thread -> Time]
  /\ \A t \in Thread : pc[t] = "schedule" => task[t] \in Function

FlagsOK == stopping \in {"no", "drain", "now"} /\ interrupted \in BOOLEAN /\ running \in BOOLEAN

\* m_are_callbacks_running is held by one thread.
OneRuns ==
  \A t \in Thread : pc[t] \in {"callback", "reset"} =>
    running = TRUE /\ \A u \in Thread : pc[u] \in {"callback", "reset"} => u = t

ClientOK ==
  /\ added \in Nat /\ pending \in Seq(Nat)
  /\ task \in [Thread -> Nat \union Function \union {None}]
  /\ \A t \in Thread : pc[t] = "callback" => task[t] \in Nat

Alive == {t \in Service : pc[t] # "dead"}

-----------------------------------------------------------------------------
\* A set of natural numbers that is not empty has a least element.
LEMMA LeastNumber ==
  ASSUME NEW T \in SUBSET Nat, T # {}
  PROVE  \E n \in T : \A m \in T : n <= m
<1>1. PICK n \in T : \A m \in T : ~(<<m, n>> \in OpToRel(<, Nat))
  BY NatLessThanWellFounded, WFMin
<1>2. \A m \in T : ~(m < n)
  BY Zenon, <1>1 DEF OpToRel
<1>3. QED
  BY <1>2

\* The queue without its first task, and the task.
LEMMA HeadIsTask ==
  ASSUME NEW tq \in Seq(Task), tq # <<>>
  PROVE  Head(tq).f \in Function /\ Head(tq).at \in Time /\ Tail(tq) \in Seq(Task)
<1>1. Head(tq) \in Task /\ Tail(tq) \in Seq(Task)
  OBVIOUS
<1> QED BY <1>1 DEF Task

\* The tasks that are due no later than a given time are the first of a queue that is
\* sorted, so that InsertTask puts a task between them and the others.
LEMMA DueFirst ==
  ASSUME NEW tq \in Seq(Task), Sorted(tq), NEW a \in Time
  PROVE  LET D == {i \in DOMAIN tq : tq[i].at <= a}
             n == Cardinality(D)
         IN  n \in 0 .. Len(tq) /\ D = 1 .. n
<1> DEFINE L == Len(tq)
           D == {i \in DOMAIN tq : tq[i].at <= a}
           T == {i \in 1 .. L + 1 : i \notin D}
<1>1. L \in Nat /\ DOMAIN tq = 1 .. L
  OBVIOUS
<1>2. \A i \in 1 .. L : tq[i].at \in Nat
  <2>1. \A i \in 1 .. L : tq[i] \in Task
    OBVIOUS
  <2> QED BY <2>1, SchedulerConstants DEF Task, Time
<1>3. PICK m \in T : \A k \in T : m <= k
  <2>1. T \in SUBSET Nat /\ L + 1 \in T
    BY <1>1
  <2> HIDE DEF T
  <2> QED BY <2>1, LeastNumber
<1>4. \A i \in 1 .. L : i < m => i \in D
  BY <1>1, <1>3
<1>5. \A i \in 1 .. L : m <= i => i \notin D
  <2> SUFFICES ASSUME NEW i \in 1 .. L, m <= i, i \in D PROVE FALSE
    OBVIOUS
  <2>1. m \in 1 .. L /\ tq[m].at <= tq[i].at
    BY <1>1, <1>3 DEF Sorted
  <2>2. a \in Nat
    BY SchedulerConstants DEF Time
  <2> QED BY <1>1, <1>2, <1>3, <2>1, <2>2
<1>6. m - 1 \in 0 .. L /\ D = 1 .. m - 1
  BY <1>1, <1>3, <1>4, <1>5
<1>7. Cardinality(1 .. m - 1) = m - 1
  BY <1>1, <1>6, FS_Interval
<1> QED BY Zenon, <1>6, <1>7

\* An element between two sequences.
LEMMA Joined ==
  ASSUME NEW S, NEW a \in Seq(S), NEW e \in S, NEW b \in Seq(S)
  PROVE  /\ a \o <<e>> \o b \in Seq(S)
         /\ Len(a \o <<e>> \o b) = Len(a) + 1 + Len(b)
         /\ \A i \in 1 .. Len(a) : (a \o <<e>> \o b)[i] = a[i]
         /\ (a \o <<e>> \o b)[Len(a) + 1] = e
         /\ \A i \in 1 .. Len(b) : (a \o <<e>> \o b)[i + Len(a) + 1] = b[i]
<1> DEFINE c == a \o <<e>>
<1>1. c \in Seq(S) /\ Len(c) = Len(a) + 1 /\ (\A i \in 1 .. Len(a) : c[i] = a[i]) /\ c[Len(a) + 1] = e
  OBVIOUS
<1> HIDE DEF c
<1>2. Len(a) \in Nat /\ Len(b) \in Nat
  OBVIOUS
<1>3. /\ c \o b \in Seq(S)
      /\ Len(c \o b) = Len(c) + Len(b)
      /\ \A i \in 1 .. Len(c) + Len(b) : (c \o b)[i] = IF i <= Len(c) THEN c[i] ELSE b[i - Len(c)]
  BY <1>1
<1>4. \A i \in 1 .. Len(a) + 1 : (c \o b)[i] = c[i]
  BY <1>1, <1>2, <1>3
<1>5. \A i \in 1 .. Len(b) : (c \o b)[i + Len(a) + 1] = b[i]
  BY <1>1, <1>2, <1>3
<1>6. Len(c \o b) = Len(a) + 1 + Len(b)
  BY <1>1, <1>2, <1>3
<1>7. (\A i \in 1 .. Len(a) : (c \o b)[i] = a[i]) /\ (c \o b)[Len(a) + 1] = e
  BY <1>1, <1>2, <1>4
<1> QED BY <1>3, <1>5, <1>6, <1>7 DEF c

\* InsertTask keeps the queue sorted.
LEMMA InsertSorted ==
  ASSUME taskQueue \in Seq(Task), Sorted(taskQueue), NEW e \in Task
  PROVE  InsertTask(e) \in Seq(Task) /\ Sorted(InsertTask(e))
<1> DEFINE D == {i \in DOMAIN taskQueue : taskQueue[i].at <= e.at}
           n == Cardinality(D)
           r == InsertTask(e)
<1>1. e.at \in Time
  BY DEF Task
<1>2. n \in 0 .. Len(taskQueue) /\ D = 1 .. n
  BY <1>1, DueFirst
<1>3. r = SubSeq(taskQueue, 1, n) \o <<e>> \o SubSeq(taskQueue, n + 1, Len(taskQueue))
  BY DEF InsertTask
<1>4. \A i \in 1 .. Len(taskQueue) : i <= n <=> taskQueue[i].at <= e.at
  BY <1>2
<1> DEFINE a == SubSeq(taskQueue, 1, n)
           b == SubSeq(taskQueue, n + 1, Len(taskQueue))
           L == Len(taskQueue)
<1> HIDE DEF n, D, r
<1>5. /\ r \in Seq(Task) /\ Len(r) = L + 1
      /\ \A i \in 1 .. n : r[i] = taskQueue[i]
      /\ r[n + 1] = e
      /\ \A i \in n + 2 .. L + 1 : r[i] = taskQueue[i - 1]
  <2>1. L \in Nat /\ n \in Nat /\ n <= L
    BY <1>2
  <2>2. a \in Seq(Task) /\ Len(a) = n /\ \A i \in 1 .. n : a[i] = taskQueue[i]
    BY <1>2
  <2>3. b \in Seq(Task) /\ Len(b) = L - n /\ \A i \in 1 .. L - n : b[i] = taskQueue[n + i]
    BY <1>2
  <2> HIDE DEF a, b, L
  <2>4. /\ r \in Seq(Task) /\ Len(r) = Len(a) + 1 + Len(b)
        /\ \A i \in 1 .. Len(a) : r[i] = a[i]
        /\ r[Len(a) + 1] = e
        /\ \A i \in 1 .. Len(b) : r[i + Len(a) + 1] = b[i]
    <3>1. r = a \o <<e>> \o b
      BY <1>3 DEF a, b, L
    <3>2. a \in Seq(Task) /\ b \in Seq(Task)
      BY <2>2, <2>3
    <3>3. a \o <<e>> \o b \in Seq(Task)
      BY <3>2, Joined
    <3>4. Len(a \o <<e>> \o b) = Len(a) + 1 + Len(b)
      BY <3>2, Joined
    <3>5. \A i \in 1 .. Len(a) : (a \o <<e>> \o b)[i] = a[i]
      BY <3>2, Joined
    <3>6. (a \o <<e>> \o b)[Len(a) + 1] = e
      BY <3>2, Joined
    <3>7. \A i \in 1 .. Len(b) : (a \o <<e>> \o b)[i + Len(a) + 1] = b[i]
      BY <3>2, Joined
    <3> HIDE DEF r
    <3> QED BY Zenon, <3>1, <3>3, <3>4, <3>5, <3>6, <3>7
  <2>5. \A i \in n + 2 .. L + 1 : r[i] = taskQueue[i - 1]
    <3> TAKE i \in n + 2 .. L + 1
    <3>1. i - n - 1 \in 1 .. L - n /\ (i - n - 1) + n + 1 = i /\ n + (i - n - 1) = i - 1
      BY <2>1
    <3>2. r[(i - n - 1) + n + 1] = b[i - n - 1] /\ b[i - n - 1] = taskQueue[n + (i - n - 1)]
      <4>1. i - n - 1 \in 1 .. Len(a) + 1 + Len(b) /\ Len(a) = n /\ Len(b) = L - n
        BY <2>1, <2>2, <2>3, <3>1
      <4> QED BY Zenon, <2>3, <2>4, <3>1, <4>1
    <3> QED BY <3>1, <3>2
  <2>6. Len(r) = L + 1
    BY <2>1, <2>2, <2>3, <2>4
  <2> QED BY <2>2, <2>4, <2>5, <2>6
<1>6. \A s \in Seq(Task) : \A i \in 1 .. Len(s) : s[i].at \in Nat
  <2> TAKE s \in Seq(Task)
  <2> TAKE i \in 1 .. Len(s)
  <2>1. s[i] \in Task
    OBVIOUS
  <2>2. s[i].at \in Time
    BY <2>1 DEF Task
  <2> QED BY <2>2, SchedulerConstants DEF Time
<1>7. ASSUME NEW i \in 1 .. Len(r), NEW j \in 1 .. Len(r), i <= j PROVE r[i].at <= r[j].at
  <2>1. Len(taskQueue) \in Nat /\ r[i].at \in Nat /\ r[j].at \in Nat
    BY <1>5, <1>6
  <2>2. CASE i = j
    BY <2>1, <2>2
  <2>3. CASE j <= n
    <3>1. i \in 1 .. n /\ j \in 1 .. n /\ i \in 1 .. Len(taskQueue) /\ j \in 1 .. Len(taskQueue)
      BY <1>2, <1>7, <2>1, <2>3
    <3>2. r[i] = taskQueue[i] /\ r[j] = taskQueue[j]
      BY <1>5, <3>1
    <3> QED BY <1>7, <3>1, <3>2 DEF Sorted
  <2>4. CASE i < j /\ j = n + 1
    <3>1. i \in 1 .. n /\ i \in 1 .. Len(taskQueue)
      BY <1>2, <2>1, <2>4
    <3> QED BY <1>4, <1>5, <2>4, <3>1
  <2>5. CASE i < j /\ i = n + 1
    <3>1. j - 1 \in 1 .. Len(taskQueue) /\ ~(j - 1 <= n) /\ r[j] = taskQueue[j - 1] /\ r[i] = e
      <4>1. j \in n + 2 .. Len(taskQueue) + 1
        BY <1>2, <1>5, <2>1, <2>5
      <4> QED BY <1>2, <1>5, <2>5, <4>1
    <3> QED BY <1>4, <2>1, <3>1
  <2>6. CASE i <= n /\ j > n + 1
    <3>1. j - 1 \in 1 .. Len(taskQueue) /\ r[j] = taskQueue[j - 1] /\ r[i] = taskQueue[i]
          /\ i \in 1 .. Len(taskQueue) /\ i <= j - 1
      BY <1>2, <1>5, <2>1, <2>6
    <3> QED BY <3>1 DEF Sorted
  <2>7. CASE i < j /\ i > n + 1
    <3>1. j - 1 \in 1 .. Len(taskQueue) /\ r[j] = taskQueue[j - 1] /\ r[i] = taskQueue[i - 1]
          /\ i - 1 \in 1 .. Len(taskQueue) /\ i - 1 <= j - 1
      BY <1>2, <1>5, <2>1, <2>7
    <3> QED BY <3>1 DEF Sorted
  <2> QED BY <1>2, <1>5, <1>7, <2>1, <2>2, <2>3, <2>4, <2>5, <2>6, <2>7
<1> QED BY <1>5, <1>7 DEF Sorted, r

\* Where Return leads.
LEMMA ReturnTo ==
  ASSUME DyingOK, NEW t \in Thread
  PROVE  /\ t \in dying => Return(t) = "dead"
         /\ t \in Service \ dying => Return(t) = "top"
         /\ t \notin Service => Return(t) \in {"idle", "empty"}
BY SchedulerConstants DEF Return, DyingOK, Thread

\* The program counters stay in their places.
LEMMA PlacesStep ==
  ASSUME PlacesOK, DyingOK, QueueOK, [SNext]_svars PROVE PlacesOK'
<1> USE SchedulerConstants DEF PlacesOK, Places, InLoop, InClient, Thread
<1>1. ASSUME NEW t \in Thread, Leave(t) PROVE PlacesOK'
  BY <1>1 DEF Leave, NotifyOne, Waiting
<1>2. ASSUME NEW t \in Thread, Notify(t) PROVE PlacesOK'
  BY <1>2 DEF Notify, NotifyOne, Waiting, Return, DyingOK
<1>3. ASSUME NEW t \in Thread, Take(t) PROVE PlacesOK'
  BY <1>3, HeadIsTask DEF Take, QueueOK, Function
<1>4. ASSUME NEW t \in Thread, Wait(t) \/ Timeout(t) \/ Continue(t) \/ Interrupted(t) PROVE PlacesOK'
  BY <1>4 DEF Wait, Timeout, Continue, Interrupted
<1>5. ASSUME NEW t \in Thread, Schedule(t) \/ Repeat(t) \/ MaybeScheduleProcessQueue(t) PROVE PlacesOK'
  BY <1>5 DEF Schedule, Repeat, MaybeScheduleProcessQueue, Return, DyingOK
<1>6. ASSUME NEW t \in Thread, ProcessQueue(t) \/ CallbackEnds(t) \/ Reset(t) PROVE PlacesOK'
  BY <1>6 DEF ProcessQueue, CallbackEnds, Reset, Return, DyingOK
<1>7. ASSUME NEW t \in Thread, SpuriousWakeup(t) PROVE PlacesOK'
  BY <1>7 DEF SpuriousWakeup, Waiting
<1>8. ASSUME NEW t \in Caller, Add(t) PROVE PlacesOK'
  BY <1>8 DEF Add
<1>9. ASSUME NEW drain \in BOOLEAN, Stop(drain) PROVE PlacesOK'
  BY <1>9 DEF Stop, NotifyAll, Waiting
<1>10. CASE Interrupt \/ EmptyQueue
  BY <1>10 DEF Interrupt, EmptyQueue
<1>11. CASE Tick \/ UNCHANGED svars
  BY <1>11 DEF Tick, svars, threadVars
<1> QED
  BY Zenon, <1>1, <1>2, <1>3, <1>4, <1>5, <1>6, <1>7, <1>8, <1>9, <1>10, <1>11 DEF SNext, Step

\* A thread with an exception on the way is on its way out.
LEMMA DyingStep ==
  ASSUME PlacesOK, DyingOK, [SNext]_svars PROVE DyingOK'
<1> USE SchedulerConstants DEF PlacesOK, DyingOK, Places, InLoop, InClient, Thread
<1>1. ASSUME NEW t \in Thread, Leave(t) PROVE DyingOK'
  BY <1>1 DEF Leave, NotifyOne, Waiting
<1>2. ASSUME NEW t \in Thread, Notify(t) PROVE DyingOK'
  BY <1>2, ReturnTo DEF Notify, NotifyOne, Waiting
<1>3. ASSUME NEW t \in Thread, Take(t) \/ Wait(t) \/ Timeout(t) \/ Continue(t) \/ Interrupted(t) PROVE DyingOK'
  BY <1>3 DEF Take, Wait, Timeout, Continue, Interrupted
<1>4. ASSUME NEW t \in Thread, Schedule(t) \/ Repeat(t) \/ MaybeScheduleProcessQueue(t) PROVE DyingOK'
  BY <1>4, ReturnTo DEF Schedule, Repeat, MaybeScheduleProcessQueue
<1>5. ASSUME NEW t \in Thread, ProcessQueue(t) \/ CallbackEnds(t) \/ Reset(t) PROVE DyingOK'
  BY <1>5, ReturnTo DEF ProcessQueue, CallbackEnds, Reset
<1>6. ASSUME NEW t \in Thread, SpuriousWakeup(t) PROVE DyingOK'
  BY <1>6 DEF SpuriousWakeup, Waiting
<1>7. ASSUME NEW t \in Caller, Add(t) PROVE DyingOK'
  BY <1>7 DEF Add
<1>8. ASSUME NEW drain \in BOOLEAN, Stop(drain) PROVE DyingOK'
  BY <1>8 DEF Stop, NotifyAll, Waiting
<1>9. CASE Interrupt \/ EmptyQueue
  BY <1>9 DEF Interrupt, EmptyQueue
<1>10. CASE Tick \/ UNCHANGED svars
  BY <1>10 DEF Tick, svars, threadVars
<1> QED
  BY Zenon, <1>1, <1>2, <1>3, <1>4, <1>5, <1>6, <1>7, <1>8, <1>9, <1>10 DEF SNext, Step

\* The queue stays sorted, and times stay in their bounds.
LEMMA QueueStep ==
  ASSUME PlacesOK, DyingOK, QueueOK, ClientOK, [SNext]_svars PROVE QueueOK'
<1> USE SchedulerConstants DEF PlacesOK, QueueOK, Places, InLoop, InClient, Thread
<1>1. ASSUME NEW t \in Thread, Leave(t) PROVE QueueOK'
  BY <1>1 DEF Leave, NotifyOne, Waiting
<1>2. ASSUME NEW t \in Thread, Notify(t) PROVE QueueOK'
  BY <1>2, ReturnTo DEF Notify, NotifyOne, Waiting
<1>3. ASSUME NEW t \in Thread, Take(t) PROVE QueueOK'
  <2>1. taskQueue' \in Seq(Task) /\ Head(taskQueue).f \in Function
    BY <1>3, HeadIsTask DEF Take
  <2>2. Sorted(taskQueue')
    <3>1. /\ taskQueue' = Tail(taskQueue) /\ taskQueue # <<>> /\ Len(taskQueue) \in Nat
          /\ Len(Tail(taskQueue)) = Len(taskQueue) - 1
          /\ \A i \in 1 .. Len(taskQueue) - 1 : Tail(taskQueue)[i] = taskQueue[i + 1]
      BY <1>3 DEF Take
    <3> QED BY <3>1 DEF Sorted
  <2>3. time' \in [Thread -> Time] /\ now' = now
    BY <1>3 DEF Take, Time
  <2> QED BY <1>3, <2>1, <2>2, <2>3 DEF Take, Function
<1>4. ASSUME NEW t \in Thread, Wait(t) PROVE QueueOK'
  <2>1. taskQueue # <<>> => Head(taskQueue).at \in Time
    BY HeadIsTask
  <2>2. time' \in [Thread -> Time]
    BY <1>4, <2>1 DEF Wait, Time
  <2> QED BY <1>4, <2>2 DEF Wait, queueVars
<1>5. ASSUME NEW t \in Thread, Timeout(t) \/ Continue(t) \/ Interrupted(t) PROVE QueueOK'
  <2>1. CASE Timeout(t)
    BY <2>1 DEF Timeout, queueVars
  <2>2. CASE Continue(t)
    BY <2>2 DEF Continue, queueVars, Time
  <2>3. CASE Interrupted(t)
    BY <2>3 DEF Interrupted, Time
  <2> QED BY Zenon, <1>5, <2>1, <2>2, <2>3
<1>6. ASSUME NEW t \in Thread, Schedule(t) PROVE QueueOK'
  <2>1. [at |-> time[t], f |-> task[t]] \in Task
    BY <1>6 DEF Schedule, Task
  <2>2. taskQueue' \in Seq(Task) /\ Sorted(taskQueue')
    BY <1>6, <2>1, InsertSorted DEF Schedule
  <2> QED BY <1>6, <2>2 DEF Schedule, Time
<1>7. ASSUME NEW t \in Thread, Repeat(t) \/ MaybeScheduleProcessQueue(t) PROVE QueueOK'
  <2>1. now + Period \in Time /\ now \in Time /\ 0 \in Time
    BY DEF Time
  <2>2. Return(t) # "schedule"
    BY ReturnTo DEF DyingOK
  <2>3. CASE Repeat(t)
    BY <2>1, <2>3 DEF Repeat, ClientOK, queueVars, Function
  <2>4. CASE MaybeScheduleProcessQueue(t)
    <3>1. time' \in [Thread -> Time]
      BY <2>1, <2>4 DEF MaybeScheduleProcessQueue
    <3>2. \A u \in Thread : pc'[u] = "schedule" => task'[u] \in Function
      BY <2>2, <2>4 DEF MaybeScheduleProcessQueue, ClientOK, Function
    <3> QED BY <2>4, <3>1, <3>2 DEF MaybeScheduleProcessQueue
  <2> QED BY <1>7, <2>3, <2>4
<1>8. ASSUME NEW t \in Thread, ProcessQueue(t) \/ CallbackEnds(t) \/ Reset(t) PROVE QueueOK'
  <2>1. Return(t) # "schedule"
    BY ReturnTo DEF DyingOK
  <2>2. CASE ProcessQueue(t)
    <3>1. \A u \in Thread : pc'[u] = "schedule" => pc[u] = "schedule" /\ task'[u] = task[u]
      BY <2>1, <2>2 DEF ProcessQueue, ClientOK
    <3> QED BY <2>2, <3>1 DEF ProcessQueue, queueVars
  <2>3. CASE CallbackEnds(t) \/ Reset(t)
    BY <2>3 DEF CallbackEnds, Reset, ClientOK, queueVars
  <2> QED BY Zenon, <1>8, <2>2, <2>3
<1>9. ASSUME NEW t \in Thread, SpuriousWakeup(t) PROVE QueueOK'
  BY <1>9 DEF SpuriousWakeup, Waiting, queueVars
<1>10. ASSUME NEW t \in Caller, Add(t) PROVE QueueOK'
  BY <1>10 DEF Add, queueVars
<1>11. ASSUME NEW drain \in BOOLEAN, Stop(drain) PROVE QueueOK'
  BY <1>11 DEF Stop, NotifyAll, Waiting
<1>12. CASE Interrupt \/ EmptyQueue
  BY <1>12 DEF Interrupt, EmptyQueue, queueVars
<1>13. CASE Tick \/ UNCHANGED svars
  BY <1>13 DEF Tick, svars, threadVars, queueVars
<1> QED
  BY Zenon, <1>1, <1>2, <1>3, <1>4, <1>5, <1>6, <1>7, <1>8, <1>9, <1>10, <1>11, <1>12, <1>13 DEF SNext, Step

\* One thread at a time has m_are_callbacks_running.
LEMMA OneRunsStep ==
  ASSUME PlacesOK, DyingOK, QueueOK, OneRuns, [SNext]_svars PROVE OneRuns'
<1> USE SchedulerConstants DEF PlacesOK, OneRuns, Places, InLoop, InClient, Thread
<1>1. ASSUME NEW t \in Thread, Leave(t) PROVE OneRuns'
  BY <1>1 DEF Leave, NotifyOne, Waiting, clientVars
<1>2. ASSUME NEW t \in Thread, Notify(t) PROVE OneRuns'
  BY <1>2, ReturnTo DEF Notify, NotifyOne, Waiting, clientVars, DyingOK
<1>3. ASSUME NEW t \in Thread, Take(t) PROVE OneRuns'
  <2>1. Head(taskQueue).f \in {"Repeat", "ProcessQueue"}
    BY Zenon, <1>3, HeadIsTask DEF Take, QueueOK, Function
  <2> QED BY <1>3, <2>1 DEF Take, clientVars
<1>4. ASSUME NEW t \in Thread, Wait(t) \/ Timeout(t) \/ Continue(t) \/ Interrupted(t) PROVE OneRuns'
  BY <1>4 DEF Wait, Timeout, Continue, Interrupted, clientVars
<1>5. ASSUME NEW t \in Thread, Schedule(t) \/ Repeat(t) \/ MaybeScheduleProcessQueue(t) PROVE OneRuns'
  <2>1. Return(t) \notin {"callback", "reset"}
    BY ReturnTo DEF DyingOK
  <2> QED BY <1>5, <2>1 DEF Schedule, Repeat, MaybeScheduleProcessQueue, clientVars
<1>6. ASSUME NEW t \in Thread, ProcessQueue(t) PROVE OneRuns'
  <2>1. Return(t) \notin {"callback", "reset"}
    BY ReturnTo DEF DyingOK
  <2>2. CASE running \/ pending = <<>>
    BY <1>6, <2>1, <2>2 DEF ProcessQueue
  <2>3. CASE ~(running \/ pending = <<>>)
    BY <1>6, <2>3 DEF ProcessQueue
  <2> QED BY Zenon, <2>2, <2>3
<1>7. ASSUME NEW t \in Thread, CallbackEnds(t) \/ Reset(t) PROVE OneRuns'
  BY <1>7 DEF CallbackEnds, Reset, clientVars
<1>8. ASSUME NEW t \in Thread, SpuriousWakeup(t) PROVE OneRuns'
  BY <1>8 DEF SpuriousWakeup, Waiting, clientVars
<1>9. ASSUME NEW t \in Caller, Add(t) PROVE OneRuns'
  BY <1>9 DEF Add
<1>10. ASSUME NEW drain \in BOOLEAN, Stop(drain) PROVE OneRuns'
  BY <1>10 DEF Stop, NotifyAll, Waiting, clientVars
<1>11. CASE Interrupt \/ EmptyQueue
  BY <1>11 DEF Interrupt, EmptyQueue, clientVars
<1>12. CASE Tick \/ UNCHANGED svars
  BY <1>12 DEF Tick, svars, threadVars, clientVars
<1> QED
  BY Zenon, <1>1, <1>2, <1>3, <1>4, <1>5, <1>6, <1>7, <1>8, <1>9, <1>10, <1>11, <1>12 DEF SNext, Step

\* The callbacks are numbers.
LEMMA ClientStep ==
  ASSUME PlacesOK, DyingOK, QueueOK, ClientOK, [SNext]_svars PROVE ClientOK'
<1> USE SchedulerConstants DEF PlacesOK, ClientOK, Places, InLoop, InClient, Thread
<1>1. ASSUME NEW t \in Thread, Leave(t) PROVE ClientOK'
  BY <1>1 DEF Leave, NotifyOne, Waiting, clientVars
<1>2. ASSUME NEW t \in Thread, Notify(t) PROVE ClientOK'
  <2>1. Return(t) # "callback"
    BY ReturnTo DEF DyingOK
  <2>2. \A u \in Thread : pc'[u] = "callback" => pc[u] = "callback"
    BY <1>2, <2>1 DEF Notify, NotifyOne, Waiting
  <2> QED BY <1>2, <2>2 DEF Notify, clientVars
<1>3. ASSUME NEW t \in Thread, Take(t) PROVE ClientOK'
  <2>1. Head(taskQueue).f \in {"Repeat", "ProcessQueue"}
    BY Zenon, <1>3, HeadIsTask DEF Take, QueueOK, Function
  <2> QED BY <1>3, <2>1 DEF Take, clientVars
<1>4. ASSUME NEW t \in Thread, Wait(t) \/ Timeout(t) \/ Continue(t) \/ Interrupted(t) PROVE ClientOK'
  BY <1>4 DEF Wait, Timeout, Continue, Interrupted, clientVars
<1>5. ASSUME NEW t \in Thread, Schedule(t) \/ Repeat(t) \/ MaybeScheduleProcessQueue(t) PROVE ClientOK'
  <2>1. Return(t) # "callback"
    BY ReturnTo DEF DyingOK
  <2>2. CASE Schedule(t)
    BY <2>2 DEF Schedule, clientVars, Function
  <2>3. CASE Repeat(t)
    BY <2>3 DEF Repeat, clientVars, Function
  <2>4. CASE MaybeScheduleProcessQueue(t)
    BY <2>1, <2>4 DEF MaybeScheduleProcessQueue, clientVars, Function
  <2> QED BY Zenon, <1>5, <2>2, <2>3, <2>4
<1>6. ASSUME NEW t \in Thread, ProcessQueue(t) PROVE ClientOK'
  <2>1. Return(t) # "callback"
    BY ReturnTo DEF DyingOK
  <2>2. pending # <<>> => Head(pending) \in Nat /\ Tail(pending) \in Seq(Nat)
    OBVIOUS
  <2>3. CASE running \/ pending = <<>>
    BY <1>6, <2>1, <2>3 DEF ProcessQueue
  <2>4. CASE ~(running \/ pending = <<>>)
    <3>1. task' = [task EXCEPT ![t] = Head(pending)] /\ pending' = Tail(pending)
          /\ pc' = [pc EXCEPT ![t] = "callback"] /\ added' = added
      BY Zenon, <1>6, <2>4 DEF ProcessQueue
    <3>2. Head(pending) \in Nat /\ Tail(pending) \in Seq(Nat)
      BY Zenon, <2>2, <2>4
    <3>3. task' \in [Thread -> Nat \union Function \union {None}]
      BY <3>1, <3>2
    <3>4. \A u \in Thread : pc'[u] = "callback" => task'[u] \in Nat
      BY <3>1, <3>2
    <3> QED BY Zenon, <3>1, <3>2, <3>3, <3>4
  <2> QED BY Zenon, <2>3, <2>4
<1>7. ASSUME NEW t \in Thread, CallbackEnds(t) \/ Reset(t) PROVE ClientOK'
  BY <1>7 DEF CallbackEnds, Reset, clientVars
<1>8. ASSUME NEW t \in Thread, SpuriousWakeup(t) PROVE ClientOK'
  BY <1>8 DEF SpuriousWakeup, Waiting, clientVars
<1>9. ASSUME NEW t \in Caller, Add(t) PROVE ClientOK'
  <2>1. added' \in Nat /\ pending' = Append(pending, added')
    BY <1>9 DEF Add
  <2>2. pending' \in Seq(Nat)
    BY <2>1
  <2> QED BY <1>9, <2>1, <2>2 DEF Add
<1>10. ASSUME NEW drain \in BOOLEAN, Stop(drain) PROVE ClientOK'
  BY <1>10 DEF Stop, NotifyAll, Waiting, clientVars
<1>11. CASE Interrupt \/ EmptyQueue
  BY <1>11 DEF Interrupt, EmptyQueue, clientVars
<1>12. CASE Tick \/ UNCHANGED svars
  BY <1>12 DEF Tick, svars, threadVars, clientVars
<1> QED
  BY Zenon, <1>1, <1>2, <1>3, <1>4, <1>5, <1>6, <1>7, <1>8, <1>9, <1>10, <1>11, <1>12 DEF SNext, Step

\* The two flags of the queue and the one of the client.
LEMMA FlagsStep ==
  ASSUME FlagsOK, [SNext]_svars PROVE FlagsOK'
<1> USE DEF FlagsOK
<1>1. ASSUME NEW t \in Thread, Step(t) \/ SpuriousWakeup(t) PROVE FlagsOK'
  BY Zenon, <1>1 DEF Step, SpuriousWakeup, Leave, Wait, Timeout, Continue, Take, Interrupted, Schedule,
     Notify, Repeat, MaybeScheduleProcessQueue, ProcessQueue, CallbackEnds, Reset, queueVars, clientVars
<1>2. ASSUME NEW t \in Caller, Add(t) PROVE FlagsOK'
  BY <1>2 DEF Add, queueVars
<1>3. ASSUME NEW drain \in BOOLEAN, Stop(drain) PROVE FlagsOK'
  BY <1>3 DEF Stop, clientVars
<1>4. CASE Interrupt \/ EmptyQueue \/ Tick \/ UNCHANGED svars
  BY Zenon, <1>4 DEF Interrupt, EmptyQueue, Tick, svars, queueVars, clientVars
<1> QED BY Zenon, <1>1, <1>2, <1>3, <1>4 DEF SNext

-----------------------------------------------------------------------------
\* A step takes at most one thread out of serviceQueue, and counts it.
LEMMA AliveStep ==
  ASSUME PlacesOK, DyingOK, QueueOK, [SNext]_svars
  PROVE  \/ Alive' = Alive /\ servicing' = servicing
         \/ \E t \in Alive : Alive' = Alive \ {t} /\ servicing' = servicing - 1
<1> DEFINE Same == Alive' = Alive /\ servicing' = servicing
           Gone(t) == t \in Alive /\ Alive' = Alive \ {t} /\ servicing' = servicing - 1
<1> USE SchedulerConstants DEF PlacesOK, Places, InLoop, InClient, Thread, Alive
<1>1. ASSUME NEW t \in Thread, Leave(t) PROVE Gone(t)
  BY <1>1 DEF Leave, NotifyOne, Waiting
<1>2. ASSUME NEW t \in Thread, Notify(t) PROVE Same \/ Gone(t)
  <2>1. CASE t \in dying
    BY <1>2, <2>1, ReturnTo DEF Notify, NotifyOne, Waiting, DyingOK
  <2>2. CASE t \notin dying
    BY <1>2, <2>2, ReturnTo DEF Notify, NotifyOne, Waiting, DyingOK
  <2> QED BY Zenon, <2>1, <2>2
<1>3. ASSUME NEW t \in Thread, Take(t) PROVE Same
  <2>1. Head(taskQueue).f \in {"Repeat", "ProcessQueue"}
    BY Zenon, <1>3, HeadIsTask DEF Take, QueueOK, Function
  <2> QED BY <1>3, <2>1 DEF Take
<1>4. ASSUME NEW t \in Thread, Wait(t) \/ Timeout(t) \/ Continue(t) PROVE Same
  BY <1>4 DEF Wait, Timeout, Continue, queueVars
<1>5. ASSUME NEW t \in Thread, Interrupted(t) PROVE Gone(t)
  BY <1>5 DEF Interrupted
<1>6. ASSUME NEW t \in Thread, Schedule(t) \/ Repeat(t) PROVE Same
  BY <1>6 DEF Schedule, Repeat, queueVars
<1>7. ASSUME NEW t \in Thread, MaybeScheduleProcessQueue(t) PROVE Same \/ Gone(t)
  <2>1. CASE t \in dying
    BY <1>7, <2>1, ReturnTo DEF MaybeScheduleProcessQueue, DyingOK
  <2>2. CASE t \notin dying
    BY <1>7, <2>2, ReturnTo DEF MaybeScheduleProcessQueue, DyingOK
  <2> QED BY <2>1, <2>2
<1>8. ASSUME NEW t \in Thread, ProcessQueue(t) \/ CallbackEnds(t) \/ Reset(t) PROVE Same
  BY <1>8, ReturnTo DEF ProcessQueue, CallbackEnds, Reset, queueVars, DyingOK
<1>9. ASSUME NEW t \in Thread, SpuriousWakeup(t) PROVE Same
  BY <1>9 DEF SpuriousWakeup, Waiting, queueVars
<1>10. ASSUME NEW t \in Caller, Add(t) PROVE Same
  BY <1>10 DEF Add, queueVars
<1>11. ASSUME NEW drain \in BOOLEAN, Stop(drain) PROVE Same
  BY <1>11 DEF Stop, NotifyAll, Waiting
<1>12. CASE Interrupt \/ EmptyQueue
  BY <1>12 DEF Interrupt, EmptyQueue, queueVars
<1>13. CASE Tick \/ UNCHANGED svars
  BY <1>13 DEF Tick, svars, threadVars, queueVars
<1> HIDE DEF Alive
<1> QED
  BY Zenon, <1>1, <1>2, <1>3, <1>4, <1>5, <1>6, <1>7, <1>8, <1>9, <1>10, <1>11, <1>12, <1>13 DEF SNext, Step

\* The inductive invariant.
SInv ==
  /\ PlacesOK /\ DyingOK /\ QueueOK /\ FlagsOK /\ OneRuns /\ ClientOK
  /\ servicing = Cardinality(Alive)

\* SInv holds at the start.
LEMMA SInvInit == SInit => SInv
<1> SUFFICES ASSUME SInit PROVE SInv
  OBVIOUS
<1>1. PlacesOK /\ DyingOK /\ OneRuns
  BY SchedulerConstants DEF SInit, PlacesOK, DyingOK, OneRuns, Places, InLoop, InClient, Thread
<1>2. FlagsOK
  BY Zenon DEF SInit, FlagsOK
<1>3. ClientOK
  BY SchedulerConstants DEF SInit, ClientOK, Thread
<1>4. QueueOK
  <2>1. [at |-> Period, f |-> "Repeat"] \in Task
    BY SchedulerConstants DEF Task, Time, Function
  <2>2. taskQueue \in Seq(Task) /\ Len(taskQueue) = 1 /\ taskQueue[1].at = Period
    BY <2>1 DEF SInit
  <2> QED BY <2>2, SchedulerConstants DEF SInit, QueueOK, Sorted, Time, Thread
<1>5. Alive = Service
  BY SchedulerConstants DEF SInit, Alive, Thread
<1> QED BY <1>1, <1>2, <1>3, <1>4, <1>5 DEF SInit, SInv

\* Every step keeps SInv.
LEMMA SInvNext == SInv /\ [SNext]_svars => SInv'
<1> SUFFICES ASSUME SInv, [SNext]_svars PROVE SInv'
  OBVIOUS
<1>1. PlacesOK' /\ DyingOK' /\ QueueOK' /\ FlagsOK' /\ OneRuns' /\ ClientOK'
  BY PlacesStep, DyingStep, QueueStep, FlagsStep, OneRunsStep, ClientStep DEF SInv
<1>2. IsFiniteSet(Alive)
  BY SchedulerConstants, FS_Subset DEF Alive
<1>3. servicing' = Cardinality(Alive')
  <2>1. CASE Alive' = Alive /\ servicing' = servicing
    BY <2>1 DEF SInv
  <2>2. CASE \E t \in Alive : Alive' = Alive \ {t} /\ servicing' = servicing - 1
    BY <1>2, <2>2, FS_RemoveElement DEF SInv
  <2> QED BY <2>1, <2>2, AliveStep DEF SInv
<1> QED BY <1>1, <1>3 DEF SInv

\* SInv is an invariant.
LEMMA SchedulerInvariant == SSpec => []SInv
BY SInvInit, SInvNext, PTL DEF SSpec

\* AreThreadsServicingQueue is right for any number of service threads, however
\* they end.
THEOREM CountIsExact == SSpec => []ServicingExact
<1>1. SInv => ServicingExact
  BY DEF SInv, ServicingExact, Alive
<1> QED BY <1>1, SchedulerInvariant, PTL

\* The queue of CScheduler is sorted by time, and the count stays in its bounds.
THEOREM QueueIsSorted == SSpec => []STypeOK
<1>1. SInv => STypeOK
  <2> SUFFICES ASSUME SInv PROVE STypeOK
    OBVIOUS
  <2>1. servicing \in 0 .. Cardinality(Service)
    BY SchedulerConstants, FS_Subset, FS_CardinalityType DEF SInv, Alive
  <2>2. \A i \in DOMAIN taskQueue : taskQueue[i].at \in Time /\ taskQueue[i].f \in Function
    <3>1. \A i \in DOMAIN taskQueue : taskQueue[i] \in Task
      BY DEF SInv, QueueOK
    <3> QED BY <3>1 DEF Task
  <2>3. \A i \in 1 .. Len(taskQueue) - 1 : taskQueue[i].at <= taskQueue[i + 1].at
    <3>1. Len(taskQueue) \in Nat /\ Sorted(taskQueue)
      BY DEF SInv, QueueOK
    <3> QED BY <3>1 DEF Sorted
  <2> QED BY <2>1, <2>2, <2>3 DEF SInv, QueueOK, FlagsOK, DyingOK, STypeOK, Time, Function
<1> QED BY <1>1, SchedulerInvariant, PTL

-----------------------------------------------------------------------------
(***************************************************************************)
(* The promise of the client                                               *)
(***************************************************************************)
current == IF Callback = {} THEN None ELSE task[CHOOSE t \in Callback : TRUE]

\* Every step that leaves the threads with a callback alone, and their tasks, leaves
\* current alone.
LEMMA SameCurrent ==
  ASSUME Callback' = Callback, \A t \in Callback : task'[t] = task[t]
  PROVE  current' = current
<1>1. CASE Callback = {}
  BY <1>1 DEF current
<1>2. CASE Callback # {}
  <2>1. (CHOOSE t \in Callback : TRUE) \in Callback
    BY <1>2
  <2> QED BY <1>2, <2>1 DEF current
<1> QED BY <1>1, <1>2

\* A step adds a callback, starts the first, finishes the one that runs, or changes
\* nothing that the callers can see.
LEMMA PromiseStep ==
  ASSUME SInv, [SNext]_svars
  PROVE  \/ Promise!Add
         \/ Promise!Start
         \/ Promise!Finish
         \/ UNCHANGED Promise!qvars
<1>1. ~(Callback = {}) => \E t \in Thread : Callback = {t}
  BY DEF Callback, SInv, OneRuns
<1> DEFINE Same == Callback' = Callback /\ (\A u \in Callback : task'[u] = task[u])
                   /\ pending' = pending /\ added' = added
<1>2. Same => UNCHANGED Promise!qvars
  BY SameCurrent DEF Promise!qvars, current
<1> USE SchedulerConstants DEF Callback, SInv, PlacesOK, Places, InLoop, InClient, Thread
<1>3. ASSUME NEW t \in Thread, Leave(t) \/ Notify(t) PROVE Same
  <2>1. Return(t) # "callback"
    BY ReturnTo DEF DyingOK
  <2>2. \A u \in Thread : pc'[u] = "callback" <=> pc[u] = "callback"
    BY <1>3, <2>1 DEF Leave, Notify, NotifyOne, Waiting
  <2> QED BY <1>3, <2>2 DEF Leave, Notify, clientVars
<1>4. ASSUME NEW t \in Thread, Take(t) PROVE Same
  <2>1. Head(taskQueue).f \in {"Repeat", "ProcessQueue"}
    BY Zenon, <1>4, HeadIsTask DEF Take, QueueOK, Function
  <2> QED BY <1>4, <2>1 DEF Take, clientVars
<1>5. ASSUME NEW t \in Thread, Wait(t) \/ Timeout(t) \/ Continue(t) \/ Interrupted(t) PROVE Same
  BY <1>5 DEF Wait, Timeout, Continue, Interrupted, clientVars
<1>6. ASSUME NEW t \in Thread, Schedule(t) \/ Repeat(t) \/ MaybeScheduleProcessQueue(t) PROVE Same
  <2>1. Return(t) # "callback"
    BY ReturnTo DEF DyingOK
  <2>2. CASE Schedule(t) \/ Repeat(t)
    BY <2>2 DEF Schedule, Repeat, ClientOK, clientVars
  <2>3. CASE MaybeScheduleProcessQueue(t)
    <3>1. \A u \in Thread : pc'[u] = "callback" <=> pc[u] = "callback"
      BY <2>1, <2>3 DEF MaybeScheduleProcessQueue
    <3>2. \A u \in Thread : u # t => task'[u] = task[u]
      BY <2>3 DEF MaybeScheduleProcessQueue, ClientOK
    <3> QED BY <2>3, <3>1, <3>2 DEF MaybeScheduleProcessQueue, clientVars
  <2> QED BY Zenon, <1>6, <2>2, <2>3
<1>7. ASSUME NEW t \in Thread, ProcessQueue(t) PROVE Same \/ Promise!Start
  <2>1. Return(t) # "callback"
    BY ReturnTo DEF DyingOK
  <2>2. CASE running \/ pending = <<>>
    BY <1>7, <2>1, <2>2 DEF ProcessQueue
  <2>3. CASE ~(running \/ pending = <<>>)
    <3>1. Callback = {}
      BY <2>3 DEF OneRuns
    <3>2. Callback' = {t} /\ task'[t] = Head(pending) /\ pending' = Tail(pending) /\ added' = added
      BY <1>7, <2>3, <3>1 DEF ProcessQueue, ClientOK
    <3>3. (CHOOSE u \in Callback' : TRUE) = t
      BY <3>2
    <3> HIDE DEF Callback
    <3> QED BY <2>3, <3>1, <3>2, <3>3 DEF Promise!Start
  <2> QED BY <2>2, <2>3
<1>8. ASSUME NEW t \in Thread, CallbackEnds(t) PROVE Promise!Finish
  <2>1. Callback = {t} /\ Callback' = {} /\ pending' = pending /\ added' = added
    BY <1>8 DEF CallbackEnds, OneRuns, clientVars
  <2>2. task[t] \in Nat
    BY <1>8 DEF CallbackEnds, ClientOK
  <2>3. (CHOOSE u \in Callback : TRUE) = t
    BY <2>1
  <2> HIDE DEF Callback
  <2> QED BY <2>1, <2>2, <2>3 DEF Promise!Finish
<1>9. ASSUME NEW t \in Thread, Reset(t) PROVE Same
  BY <1>9 DEF Reset, ClientOK
<1>10. ASSUME NEW t \in Thread, SpuriousWakeup(t) PROVE Same
  BY <1>10 DEF SpuriousWakeup, Waiting, clientVars
<1>11. ASSUME NEW t \in Caller, Add(t) PROVE Promise!Add
  <2>1. Callback' = Callback /\ task' = task
    BY <1>11 DEF Add
  <2>2. current' = current
    BY <2>1, SameCurrent
  <2> QED BY <1>11, <2>2 DEF Add, Promise!Add, current
<1>12. ASSUME NEW drain \in BOOLEAN, Stop(drain) PROVE Same
  BY <1>12 DEF Stop, NotifyAll, Waiting, clientVars
<1>13. CASE Interrupt \/ EmptyQueue
  <2>1. Same
    BY <1>13 DEF Interrupt, EmptyQueue, clientVars
  <2> QED BY Zenon, <1>2, <2>1
<1>14. CASE Tick \/ UNCHANGED svars
  <2>1. Same
    BY <1>14 DEF Tick, svars, threadVars, clientVars
  <2> QED BY <1>2, <2>1
<1> HIDE DEF Same
<1> QED
  BY Zenon, <1>2, <1>3, <1>4, <1>5, <1>6, <1>7, <1>8, <1>9, <1>10, <1>11, <1>12, <1>13, <1>14 DEF SNext, Step

\* The safety half of CallbacksServed, for any number of callers and service
\* threads: SingleThreadedSchedulerClient runs callbacks one at a time and in the
\* order in which they were added.
THEOREM CallbacksInOrder ==
  SSpec => Promise!Init /\ [][Promise!Next]_Promise!qvars
<1>1. SInit => Promise!Init
  <2> SUFFICES ASSUME SInit PROVE Promise!Init
    OBVIOUS
  <2>1. Callback = {}
    BY SchedulerConstants DEF SInit, Callback, Thread
  <2> QED BY <2>1 DEF SInit, Promise!Init
<1>2. SInv /\ [SNext]_svars => [Promise!Next]_Promise!qvars
  BY PromiseStep DEF Promise!Next
<1> QED BY <1>1, <1>2, SchedulerInvariant, PTL DEF SSpec
==============================================================================
