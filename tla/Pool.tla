---------------------------------- MODULE Pool ----------------------------------
(***************************************************************************)
(* The thread pool of a StarDataset (class ThreadPool, stards.h) and the   *)
(* two ways it is used: parallel_for(), which compresses or decompresses   *)
(* blocks, and prefetch(), which reads arrays one by one and decodes each  *)
(* in the pool while it reads the next.                                    *)
(*                                                                         *)
(* A task holds references to locals of the call that made it (its frame). *)
(* prefetch() runs under the dataset's exclusive lock; parallel_for() also *)
(* runs in get_slice(), which takes no lock, so calls of several threads   *)
(* share the pool.                                                         *)
(***************************************************************************)
EXTENDS Integers, Sequences, FiniteSets

CONSTANTS Threads,   \* threads that call into the dataset
          Workers,   \* worker threads of the pool: none or more
          MaxTasks,  \* bound on the tasks of one call
          MaxCalls,  \* bound on the calls of one thread
          CanFail,   \* whether tasks and reads may fail
          Idle, Asleep, Checking, Exited \* what a thread or worker is at

ASSUME PoolAssumption == MaxTasks \in Nat \ {0} /\ MaxCalls \in Nat /\ CanFail \in BOOLEAN

Kinds == {"parallel_for", "prefetch"}
Task == [thread : Threads, no : 1 .. MaxCalls, i : 1 .. MaxTasks]

ASSUME PcAssumption ==
  /\ Asleep # Checking /\ Asleep # Exited /\ Checking # Exited
  /\ {Asleep, Checking, Exited} \cap Task = {}
  /\ Idle \notin {"enqueue", "notify", "wait"}

VARIABLES call,    \* the last call of each thread: its number, kind, number of
                   \* tasks n, the task it is at, and where it is (pc)
          queue,   \* tasks
          worker,  \* what each worker is at: the task it runs, or as above
          future,  \* the futures that are ready: task to outcome
          stop,
          pool,    \* "alive", then "stopping", "joining", "gone": ~ThreadPool
          thrown   \* the calls that ended with an exception

vars == <<call, queue, worker, future, stop, pool, thrown>>

Outcomes == IF CanFail THEN {"ok", "threw"} ELSE {"ok"}
TaskOf(t) == [thread |-> t, no |-> call[t].no, i |-> call[t].next]
Calls == Threads \X (1 .. MaxCalls)

Init == /\ call = [t \in Threads |-> [no |-> 0, kind |-> "parallel_for", n |-> 1,
                                      next |-> 1, pc |-> Idle]]
        /\ queue = <<>>
        /\ worker = [w \in Workers |-> Checking]
        /\ future = [k \in {} |-> "ok"]
        /\ stop = FALSE
        /\ pool = "alive"
        /\ thrown = {}

--------------------------------------------------------------------------------
(* The calling threads.                                                    *)

At(t, pc) == call[t].pc = pc
Goto(t, next, pc) == call' = [call EXCEPT ![t].next = next, ![t].pc = pc]

Ready(t) == TaskOf(t) \in DOMAIN future
ReadyThrew(t) == \E k \in DOMAIN future : k.thread = t /\ future[k] = "threw"

\* The call of t returns or throws; its frame is gone, its futures are destroyed.
Leave(t, throws) ==
  /\ Goto(t, 1, Idle)
  /\ future' = [k \in {j \in DOMAIN future : j.thread # t} |-> future[k]]
  /\ thrown' = IF throws THEN thrown \cup {<<t, call[t].no>>} ELSE thrown

\* A new call; prefetch() excludes other calls of prefetch(), as it holds the
\* exclusive lock.  Without workers parallel_for() runs its loop itself and there
\* is no pool to prefetch with.
Begin(t, kind, n) ==
  /\ pool = "alive" /\ Workers # {}
  /\ At(t, Idle) /\ call[t].no < MaxCalls
  /\ kind = "prefetch" =>
       \A u \in Threads : call[u].kind = "prefetch" => At(u, Idle)
  /\ call' = [call EXCEPT ![t] = [no |-> call[t].no + 1, kind |-> kind, n |-> n,
                                  next |-> 1, pc |-> "enqueue"]]
  /\ UNCHANGED <<queue, worker, future, stop, pool, thrown>>

\* prefetch() reads the next array on its own thread; a short read, or a reader
\* that throws, ends the call with the tasks before it in the pool.
ReadFails(t) ==
  /\ CanFail /\ At(t, "enqueue") /\ call[t].kind = "prefetch"
  /\ Leave(t, TRUE)
  /\ UNCHANGED <<queue, worker, stop, pool>>

\* enqueue(), with the mutex held.
Enqueue(t) ==
  /\ At(t, "enqueue")
  /\ queue' = Append(queue, TaskOf(t))
  /\ Goto(t, call[t].next, "notify")
  /\ UNCHANGED <<worker, future, stop, pool, thrown>>

NextTask(t) == IF call[t].next < call[t].n THEN Goto(t, call[t].next + 1, "enqueue")
               ELSE Goto(t, 1, "wait")

\* A mutant: the notification is forgotten.
NotifyNobody(t) ==
  /\ At(t, "notify") /\ NextTask(t)
  /\ UNCHANGED <<queue, worker, future, stop, pool, thrown>>

\* enqueue(), after the mutex: notify_one() wakes one of the sleepers, if any.
Notify(t) ==
  LET asleep == {w \in Workers : worker[w] = Asleep}
  IN /\ At(t, "notify") /\ NextTask(t)
     /\ IF asleep = {} THEN UNCHANGED worker
        ELSE \E w \in asleep : worker' = [worker EXCEPT ![w] = Checking]
     /\ UNCHANGED <<queue, future, stop, pool, thrown>>

\* Mutants: the wait ends before the last task, or one after it.
WaitSkipsLast(t) ==
  /\ At(t, "wait") /\ Ready(t)
  /\ IF call[t].next + 1 < call[t].n
     THEN Goto(t, call[t].next + 1, "wait") /\ UNCHANGED <<future, thrown>>
     ELSE Leave(t, FALSE)
  /\ UNCHANGED <<queue, worker, stop, pool>>
WaitPastLast(t) ==
  /\ At(t, "wait")
  /\ IF Ready(t)
     THEN Goto(t, call[t].next + 1, "wait") /\ UNCHANGED <<future, thrown>>
     ELSE call[t].next > call[t].n /\ Leave(t, FALSE)
  /\ UNCHANGED <<queue, worker, stop, pool>>

\* future.get() of one task after the other.  parallel_for() leaves at the first
\* that threw; prefetch() tasks keep their error to themselves, and it is thrown
\* when all have run.
Wait(t) ==
  /\ At(t, "wait") /\ Ready(t)
  /\ IF call[t].kind = "parallel_for" /\ future[TaskOf(t)] = "threw" THEN Leave(t, TRUE)
     ELSE IF call[t].next < call[t].n
     THEN Goto(t, call[t].next + 1, "wait") /\ UNCHANGED <<future, thrown>>
     ELSE Leave(t, ReadyThrew(t))
  /\ UNCHANGED <<queue, worker, stop, pool>>

--------------------------------------------------------------------------------
(* The workers.                                                            *)

\* A mutant: a stopped worker leaves at once.
CheckStopFirst(w) ==
  /\ worker[w] = Checking
  /\ IF stop
     THEN worker' = [worker EXCEPT ![w] = Exited] /\ UNCHANGED queue
     ELSE IF queue # <<>>
     THEN worker' = [worker EXCEPT ![w] = Head(queue)] /\ queue' = Tail(queue)
     ELSE worker' = [worker EXCEPT ![w] = Asleep] /\ UNCHANGED queue
  /\ UNCHANGED <<call, future, stop, pool, thrown>>

\* The top of worker_thread() with the mutex held: take a task, leave, or wait.
Check(w) ==
  /\ worker[w] = Checking
  /\ IF queue # <<>>
     THEN worker' = [worker EXCEPT ![w] = Head(queue)] /\ queue' = Tail(queue)
     ELSE /\ worker' = [worker EXCEPT ![w] = IF stop THEN Exited ELSE Asleep]
          /\ UNCHANGED queue
  /\ UNCHANGED <<call, future, stop, pool, thrown>>

\* A condition variable may wake a waiter without a notification.
WakeSpuriously(w) ==
  /\ worker[w] = Asleep
  /\ worker' = [worker EXCEPT ![w] = Checking]
  /\ UNCHANGED <<call, queue, future, stop, pool, thrown>>

\* A task's call is still there.
IsLive(k) == call[k.thread].no = k.no /\ ~At(k.thread, Idle)

\* task(): the function runs outside the lock, and sets its future.
RunTask(w) ==
  /\ worker[w] \in Task
  /\ IF IsLive(worker[w])
     THEN \E o \in Outcomes :
            future' = [k \in DOMAIN future \cup {worker[w]} |->
                         IF k = worker[w] THEN o ELSE future[k]]
     ELSE UNCHANGED future
  /\ worker' = [worker EXCEPT ![w] = Checking]
  /\ UNCHANGED <<call, queue, stop, pool, thrown>>

--------------------------------------------------------------------------------
(* ~ThreadPool, when no thread is left in the dataset.                     *)

Stop ==
  /\ pool = "alive" /\ \A t \in Threads : At(t, Idle)
  /\ stop' = TRUE /\ pool' = "stopping"
  /\ UNCHANGED <<call, queue, worker, future, thrown>>

\* A mutant: the sleepers are not woken.
NotifyAllNobody ==
  /\ pool = "stopping" /\ pool' = "joining"
  /\ UNCHANGED <<call, queue, worker, future, stop, thrown>>

NotifyAll ==
  /\ pool = "stopping" /\ pool' = "joining"
  /\ worker' = [w \in Workers |-> IF worker[w] = Asleep THEN Checking ELSE worker[w]]
  /\ UNCHANGED <<call, queue, future, stop, thrown>>

Join ==
  /\ pool = "joining" /\ \A w \in Workers : worker[w] = Exited
  /\ pool' = "gone"
  /\ UNCHANGED <<call, queue, worker, future, stop, thrown>>

Continue(t) == Enqueue(t) \/ Notify(t) \/ Wait(t)
Work(w) == Check(w) \/ RunTask(w)

Next == \/ \E t \in Threads, kind \in Kinds, n \in 1 .. MaxTasks : Begin(t, kind, n)
        \/ \E t \in Threads : ReadFails(t)
        \/ \E t \in Threads : Continue(t)
        \/ \E w \in Workers : Work(w)
        \/ \E w \in Workers : WakeSpuriously(w)
        \/ Stop
        \/ NotifyAll
        \/ Join

\* The operating system runs every thread that can run: a caller inside a call, a
\* worker that is awake, the destructor.  Nothing makes a thread call, nor a
\* condition variable wake without a notification.
Fairness == /\ \A t \in Threads : WF_vars(Continue(t))
            /\ \A w \in Workers : WF_vars(Work(w))
            /\ WF_vars(NotifyAll) /\ WF_vars(Join)

Spec == Init /\ [][Next]_vars
FairSpec == Spec /\ Fairness

--------------------------------------------------------------------------------
(* What must hold.                                                         *)

\* Tasks that are still to run or are running.
Pending == {queue[i] : i \in DOMAIN queue} \cup ({worker[w] : w \in Workers} \cap Task)

\* Types of the variables.
TypeOK ==
  /\ call \in [Threads -> [no : 0 .. MaxCalls, kind : Kinds, n : 1 .. MaxTasks,
                           next : 1 .. MaxTasks, pc : {Idle, "enqueue", "notify", "wait"}]]
  /\ queue \in Seq(Task)
  /\ worker \in [Workers -> {Asleep, Checking, Exited} \cup Task]
  /\ DOMAIN future \subseteq Task /\ future \in [DOMAIN future -> {"ok", "threw"}]
  /\ stop \in BOOLEAN /\ pool \in {"alive", "stopping", "joining", "gone"}
  /\ thrown \subseteq Calls

\* A task that has not finished works on the locals of a call that is still there,
\* unless the call has thrown.
FramesOutliveTasksOfReturns ==
  \A k \in Pending : IsLive(k) \/ <<k.thread, k.no>> \in thrown

\* The same without exception: no task touches locals that are gone.
FramesOutliveTasks == \A k \in Pending : IsLive(k)

\* The pool goes when everything enqueued has run: no future is left without a value.
DrainedWhenGone == pool = "gone" => Pending = {}

\* Every call comes back, with whatever other calls, failures and sleeping workers.
CallsReturn == \A t \in Threads : ~At(t, Idle) ~> At(t, Idle)

\* The destructor comes back.
JoinEnds == stop ~> pool = "gone"
================================================================================
