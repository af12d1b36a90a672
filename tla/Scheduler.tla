----------------------------- MODULE Scheduler -----------------------------
(***************************************************************************)
(* CScheduler and SingleThreadedSchedulerClient (scheduler.cpp): threads   *)
(* that service one queue of timed tasks, and on top of it a list of       *)
(* callbacks that are to run one after the other.                          *)
(*                                                                         *)
(* newTaskMutex and m_cs_callbacks_pending are held for the length of one  *)
(* step.  A condition variable is the set of threads that wait for it:     *)
(* notify_one moves one of them on, or is lost if there is none.           *)
(***************************************************************************)
EXTENDS Naturals, FiniteSets, Sequences

CONSTANTS
  Service,       \* threads in serviceQueue
  Caller,        \* threads that call AddToProcessQueue
  Main,          \* the thread that shuts down
  None,
  Period,        \* of a task given to scheduleEvery
  MaxTime,       \* the clock stops here
  MaxCallbacks   \* that are added

ASSUME SchedulerConstants ==
  /\ Main \notin Service \union Caller /\ Service \intersect Caller = {}
  /\ {Period, MaxTime, MaxCallbacks} \subseteq Nat /\ Period > 0
  /\ IsFiniteSet(Service) /\ None \notin Nat

Thread == Service \union Caller \union {Main}

VARIABLES
  now,
  taskQueue,    \* sorted by time: records of the time and the function
  stopping,     \* no, drain (stopWhenEmpty) or now (stopRequested)
  interrupted,  \* interrupt_all was called
  servicing,    \* nThreadsServicingQueue
  pending,      \* m_callbacks_pending
  running,      \* m_are_callbacks_running
  pc,           \* where a thread is
  time,         \* what a thread waits for, or is to schedule at
  task,         \* the task, or the number of the callback, that a thread is at
  dying,        \* threads with an exception on the way
  added         \* history: how many callbacks were added

svars == <<now, taskQueue, stopping, interrupted, servicing, pending, running,
           pc, time, task, dying, added>>

queueVars == <<taskQueue, stopping, interrupted, servicing>>

clientVars == <<pending, running, added>>

threadVars == <<pc, time, task, dying>>

\* The threads have entered serviceQueue, and one task was given to scheduleEvery.
SInit ==
  /\ now = 0 /\ taskQueue = <<[at |-> Period, f |-> "Repeat"]>>
  /\ stopping = "no" /\ interrupted = FALSE /\ servicing = Cardinality(Service)
  /\ pending = <<>> /\ running = FALSE /\ added = 0
  /\ pc = [t \in Thread |-> IF t \in Service THEN "top" ELSE "idle"]
  /\ time = [t \in Thread |-> 0] /\ task = [t \in Thread |-> None] /\ dying = {}

Tick == now < MaxTime /\ now' = now + 1 /\ UNCHANGED <<queueVars, clientVars, threadVars>>

(***************************************************************************)
(* The condition variable newTaskScheduled                                 *)
(***************************************************************************)
Waiting == {t \in Service : pc[t] \in {"wait", "timed"}}

\* The program counters c after notify_one: each choice is one of the set.
NotifyOne(c) ==
  IF Waiting = {} THEN {c} ELSE {[c EXCEPT ![t] = "top"] : t \in Waiting}

NotifyAll(c) == [t \in Thread |-> IF t \in Waiting THEN "top" ELSE c[t]]

\* A wait may end for no reason, but not for ever.
SpuriousWakeup(t) ==
  /\ t \in Waiting /\ ~interrupted /\ (pc[t] = "timed" => now < time[t])
  /\ pc' = [pc EXCEPT ![t] = "top"]
  /\ UNCHANGED <<now, queueVars, clientVars, time, task, dying>>

(***************************************************************************)
(* CScheduler::serviceQueue                                                *)
(***************************************************************************)
shouldStop == stopping = "now" \/ (stopping = "drain" /\ taskQueue = <<>>)

\* The end of the loop and of the function.
Leave(t) ==
  /\ pc[t] = "top" /\ shouldStop
  /\ servicing' = servicing - 1
  /\ pc' \in NotifyOne([pc EXCEPT ![t] = "dead"])
  /\ UNCHANGED <<now, taskQueue, stopping, interrupted, clientVars, time, task, dying>>

\* The two waits.  After a wake-up both loops test again what is tested here,
\* and RandAddSeedSleep is a delay before it.
Wait(t) ==
  /\ pc[t] = "top" /\ ~shouldStop
  /\ pc' = [pc EXCEPT ![t] = IF taskQueue = <<>> THEN "wait" ELSE "timed"]
  /\ time' = [time EXCEPT ![t] = IF taskQueue = <<>> THEN 0 ELSE Head(taskQueue).at]
  /\ UNCHANGED <<now, queueVars, clientVars, task, dying>>

\* wait_until has timed out; the thread does not have the lock yet.
Timeout(t) ==
  /\ pc[t] = "timed" /\ now >= time[t]
  /\ pc' = [pc EXCEPT ![t] = "due"]
  /\ UNCHANGED <<now, queueVars, clientVars, time, task, dying>>

\* Another thread has taken the task, or it is time to stop.
Continue(t) ==
  /\ pc[t] = "due" /\ (shouldStop \/ taskQueue = <<>>)
  /\ pc' = [pc EXCEPT ![t] = "top"] /\ time' = [time EXCEPT ![t] = 0]
  /\ UNCHANGED <<now, queueVars, clientVars, task, dying>>

\* The first task of the queue, which need not be the one that was waited for.
Take(t) ==
  /\ pc[t] = "due" /\ ~shouldStop /\ taskQueue # <<>>
  /\ taskQueue' = Tail(taskQueue)
  /\ pc' = [pc EXCEPT ![t] = Head(taskQueue).f] /\ time' = [time EXCEPT ![t] = 0]
  /\ UNCHANGED <<now, stopping, interrupted, servicing, clientVars, task, dying>>

\* Mutant: the thread is counted as before.
Interrupted_NotCounted(t) ==
  /\ interrupted /\ pc[t] \in {"wait", "timed", "Repeat"}
  /\ pc' = [pc EXCEPT ![t] = "dead"] /\ time' = [time EXCEPT ![t] = 0]
  /\ UNCHANGED <<now, queueVars, clientVars, task, dying>>

\* An interruption point of boost, in a wait or in the function given to
\* scheduleEvery, which is then not repeated: the exception leaves serviceQueue.
Interrupted(t) ==
  /\ interrupted /\ pc[t] \in {"wait", "timed", "Repeat"}
  /\ servicing' = servicing - 1
  /\ pc' = [pc EXCEPT ![t] = "dead"] /\ time' = [time EXCEPT ![t] = 0]
  /\ UNCHANGED <<now, taskQueue, stopping, interrupted, clientVars, task, dying>>

(***************************************************************************)
(* CScheduler::schedule                                                    *)
(***************************************************************************)
\* Mutant: in front of the tasks that are due later, and of those due before.
InsertTask_First(e) == <<e>> \o taskQueue

\* Behind the tasks that are due at the same time or before.
InsertTask(e) ==
  LET n == Cardinality({i \in DOMAIN taskQueue : taskQueue[i].at <= e.at})
  IN  SubSeq(taskQueue, 1, n) \o <<e>> \o SubSeq(taskQueue, n + 1, Len(taskQueue))

Schedule(t) ==
  /\ pc[t] = "schedule"
  /\ taskQueue' = InsertTask([at |-> time[t], f |-> task[t]])
  /\ pc' = [pc EXCEPT ![t] = "notify"]
  /\ time' = [time EXCEPT ![t] = 0] /\ task' = [task EXCEPT ![t] = None]
  /\ UNCHANGED <<now, stopping, interrupted, servicing, clientVars, dying>>

\* Where a thread goes on when it has nothing more to schedule.
Return(t) ==
  CASE t \in dying -> "dead" [] t \in Service \ dying -> "top" [] t \in Caller -> "idle" [] t = Main -> "empty"

\* Mutant: a task is put into the queue and nobody is told.
Notify_Nobody(t) ==
  /\ pc[t] = "notify"
  /\ pc' = [pc EXCEPT ![t] = Return(t)]
  /\ servicing' = IF t \in dying THEN servicing - 1 ELSE servicing
  /\ UNCHANGED <<now, taskQueue, stopping, interrupted, clientVars, time, task, dying>>

Notify(t) ==
  /\ pc[t] = "notify"
  /\ pc' \in NotifyOne([pc EXCEPT ![t] = Return(t)])
  /\ servicing' = IF t \in dying THEN servicing - 1 ELSE servicing
  /\ UNCHANGED <<now, taskQueue, stopping, interrupted, clientVars, time, task, dying>>

\* Repeat: the function given to scheduleEvery returns.
Repeat(t) ==
  /\ pc[t] = "Repeat"
  /\ pc' = [pc EXCEPT ![t] = "schedule"]
  /\ time' = [time EXCEPT ![t] = now + Period] /\ task' = [task EXCEPT ![t] = "Repeat"]
  /\ UNCHANGED <<now, queueVars, clientVars, dying>>

(***************************************************************************)
(* SingleThreadedSchedulerClient                                           *)
(***************************************************************************)
\* AddToProcessQueue.  FlushBackgroundCallbacks is called when the threads that
\* might do so have ended.
Add(t) ==
  /\ pc[t] = "idle" /\ t \in Caller /\ added < MaxCallbacks /\ pc[Main] \in {"idle", "join"}
  /\ added' = added + 1 /\ pending' = Append(pending, added')
  /\ pc' = [pc EXCEPT ![t] = "maybe"]
  /\ UNCHANGED <<now, queueVars, running, time, task, dying>>

MaybeScheduleProcessQueue(t) ==
  /\ pc[t] = "maybe"
  /\ LET skip == running \/ pending = <<>>
     IN  /\ pc' = [pc EXCEPT ![t] = IF skip THEN Return(t) ELSE "schedule"]
         /\ time' = [time EXCEPT ![t] = IF skip THEN 0 ELSE now]
         /\ task' = [task EXCEPT ![t] = IF skip THEN None ELSE "ProcessQueue"]
         /\ servicing' = IF skip /\ t \in dying THEN servicing - 1 ELSE servicing
  /\ UNCHANGED <<now, taskQueue, stopping, interrupted, clientVars, dying>>

ProcessQueue(t) ==
  /\ pc[t] = "ProcessQueue"
  /\ IF running \/ pending = <<>>
     THEN /\ pc' = [pc EXCEPT ![t] = Return(t)]
          /\ UNCHANGED <<pending, running, task>>
     ELSE /\ running' = TRUE /\ pending' = Tail(pending)
          /\ task' = [task EXCEPT ![t] = Head(pending)]
          /\ pc' = [pc EXCEPT ![t] = "callback"]
  /\ UNCHANGED <<now, queueVars, time, dying, added>>

\* The callback returns, or is interrupted and throws.
CallbackEnds(t) ==
  /\ pc[t] = "callback"
  /\ pc' = [pc EXCEPT ![t] = "reset"]
  /\ dying' \in {dying} \union IF interrupted /\ t \in Service THEN {dying \union {t}} ELSE {}
  /\ UNCHANGED <<now, queueVars, clientVars, time, task>>

\* Mutant: nobody looks at the list after a callback.
Reset_NoReschedule(t) ==
  /\ pc[t] = "reset"
  /\ running' = FALSE /\ task' = [task EXCEPT ![t] = None]
  /\ pc' = [pc EXCEPT ![t] = Return(t)]
  /\ servicing' = IF t \in dying THEN servicing - 1 ELSE servicing
  /\ UNCHANGED <<now, taskQueue, stopping, interrupted, pending, added, time, dying>>

\* The destructor of RAIICallbacksRunning.
Reset(t) ==
  /\ pc[t] = "reset"
  /\ running' = FALSE /\ task' = [task EXCEPT ![t] = None]
  /\ pc' = [pc EXCEPT ![t] = "maybe"]
  /\ UNCHANGED <<now, queueVars, pending, added, time, dying>>

(***************************************************************************)
(* The end: interrupt_all or stop, join_all, and EmptyQueue                *)
(***************************************************************************)
Interrupt ==
  /\ pc[Main] = "idle" /\ interrupted' = TRUE
  /\ pc' = [pc EXCEPT ![Main] = "join"]
  /\ UNCHANGED <<now, taskQueue, stopping, servicing, clientVars, time, task, dying>>

\* Mutant: the threads that wait are not woken.
Stop_Silent(drain) ==
  /\ pc[Main] = "idle" /\ stopping' = IF drain THEN "drain" ELSE "now"
  /\ pc' = [pc EXCEPT ![Main] = "join"]
  /\ UNCHANGED <<now, taskQueue, interrupted, servicing, clientVars, time, task, dying>>

Stop(drain) ==
  /\ pc[Main] = "idle" /\ stopping' = IF drain THEN "drain" ELSE "now"
  /\ pc' = NotifyAll([pc EXCEPT ![Main] = "join"])
  /\ UNCHANGED <<now, taskQueue, interrupted, servicing, clientVars, time, task, dying>>

EmptyQueue ==
  /\ \/ pc[Main] = "join" /\ (\A t \in Service : pc[t] = "dead") /\ (\A t \in Caller : pc[t] = "idle")
     \/ pc[Main] = "empty"
  /\ pc' = [pc EXCEPT ![Main] = IF pc[Main] = "join" \/ pending # <<>> THEN "ProcessQueue" ELSE "end"]
  /\ UNCHANGED <<now, queueVars, clientVars, time, task, dying>>

\* What a thread does by itself.
Step(t) ==
  \/ Leave(t)
  \/ Wait(t)
  \/ Timeout(t)
  \/ Continue(t)
  \/ Take(t)
  \/ Interrupted(t)
  \/ Schedule(t)
  \/ Notify(t)
  \/ Repeat(t)
  \/ MaybeScheduleProcessQueue(t)
  \/ ProcessQueue(t)
  \/ CallbackEnds(t)
  \/ Reset(t)

SNext ==
  \/ Tick
  \/ \E t \in Thread : Step(t) \/ SpuriousWakeup(t)
  \/ \E t \in Caller : Add(t)
  \/ Interrupt
  \/ \E drain \in BOOLEAN : Stop(drain)
  \/ EmptyQueue

\* Threads run, time passes, functions and callbacks return.  Nobody has to add
\* a callback or to shut down.
Fairness == WF_svars(Tick) /\ (\A t \in Thread : WF_svars(Step(t))) /\ WF_svars(EmptyQueue)

SSpec == SInit /\ [][SNext]_svars /\ Fairness

(***************************************************************************)
(* Properties                                                              *)
(***************************************************************************)
\* Types; the queue is sorted.
STypeOK ==
  /\ now \in 0 .. MaxTime /\ stopping \in {"no", "drain", "now"} /\ interrupted \in BOOLEAN
  /\ \A i \in DOMAIN taskQueue : taskQueue[i].at \in 0 .. MaxTime + Period
                                 /\ taskQueue[i].f \in {"Repeat", "ProcessQueue"}
  /\ \A i \in 1 .. Len(taskQueue) - 1 : taskQueue[i].at <= taskQueue[i + 1].at
  /\ running \in BOOLEAN /\ dying \subseteq Service /\ servicing \in 0 .. Cardinality(Service)

\* The threads that AreThreadsServicingQueue counts are those in serviceQueue,
\* whether they leave it at the end of the loop, by an interruption of a wait or
\* of a repeated task, or by an exception of a callback: the assertions of EmptyQueue and ~CScheduler
\* hold after join_all.
ServicingExact == servicing = Cardinality({t \in Service : pc[t] # "dead"})

Callback == {t \in Thread : pc[t] = "callback"}

\* The promise of SingleThreadedSchedulerClient, in any interleaving of callers
\* and service threads, with superfluous copies of ProcessQueue in the queue, and
\* through both ways of shutting down.
Promise == INSTANCE CallbackQueue WITH
  current <- IF Callback = {} THEN None ELSE task[CHOOSE t \in Callback : TRUE]

\* Callbacks run in the order in which they were added, one at a time, and each
\* of them runs in the end: none is lost when two threads look at the list at
\* the same time, when a callback throws, or when the threads are gone before it
\* was started and EmptyQueue has to do it.
CallbacksServed == Promise!Spec

\* Shutting down ends: no thread sleeps through stop or interrupt_all, and
\* EmptyQueue returns.  With drain, and a task that repeats itself, there is
\* always work left to be done.
ShutdownEnds == (pc[Main] = "join" /\ stopping # "drain") ~> pc[Main] = "end"

\* A task in the queue that is due is taken by some thread, unless the threads
\* are stopped: no wake-up is lost between schedule and the two waits.
DueTaskTaken ==
  (taskQueue # <<>> /\ Head(taskQueue).at <= now)
     ~> (taskQueue = <<>> \/ Head(taskQueue).at > now \/ pc[Main] # "idle")
=============================================================================
