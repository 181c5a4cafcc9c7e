------------------------------- MODULE Pool_proofs -------------------------------
(***************************************************************************)
(* Proofs about Pool, for any number of threads, workers, calls and tasks. *)
(* Inv says what a waiting call relies on: a task is in one place only, a  *)
(* ready future is of a task that has run and of a call that is still      *)
(* there, and the tasks before the one waited for are ready.               *)
(***************************************************************************)
EXTENDS Pool, TLAPS

\* A task of a call that is still there was enqueued by it.
Enqueued(k) ==
  /\ k.no <= call[k.thread].no
  /\ IsLive(k) => /\ At(k.thread, "enqueue") => k.i < call[k.thread].next
                  /\ At(k.thread, "notify") => k.i <= call[k.thread].next
                  /\ k.i <= call[k.thread].n

Callers == \A t \in Threads : /\ call[t].next <= call[t].n
                              /\ ~At(t, Idle) => /\ call[t].no >= 1 /\ Workers # {}
                                                 /\ pool = "alive"
Tasks == \A k \in Pending : Enqueued(k)
Futures == \A k \in DOMAIN future : IsLive(k) /\ Enqueued(k) /\ k \notin Pending
Waited == \A t \in Threads : At(t, "wait") =>
            \A j \in 1 .. call[t].next - 1 :
              [thread |-> t, no |-> call[t].no, i |-> j] \in DOMAIN future
Once == /\ \A i, j \in DOMAIN queue : queue[i] = queue[j] => i = j
        /\ \A w \in Workers, i \in DOMAIN queue : queue[i] # worker[w]
        /\ \A v, w \in Workers : worker[v] \in Task /\ worker[v] = worker[w] => v = w
Ending == /\ stop = (pool # "alive")
          /\ queue # <<>> => Workers # {}
          /\ \A w \in Workers : worker[w] = Exited => stop /\ queue = <<>>
          /\ pool = "gone" => \A w \in Workers : worker[w] = Exited

Inv == /\ TypeOK /\ Callers /\ Tasks /\ Futures /\ Waited /\ Once /\ Ending
       /\ FramesOutliveTasksOfReturns

CallRecord == [no : 0 .. MaxCalls, kind : Kinds, n : 1 .. MaxTasks,
               next : 1 .. MaxTasks, pc : {Idle, "enqueue", "notify", "wait"}]

--------------------------------------------------------------------------------
(* Tasks, records and sequences.                                           *)

LEMMA TaskIsItsFields ==
  ASSUME NEW k \in Task
  PROVE  /\ k = [thread |-> k.thread, no |-> k.no, i |-> k.i]
         /\ k.thread \in Threads /\ k.no \in Nat /\ k.i \in Nat /\ k.no >= 1 /\ k.i >= 1
  BY DEF Task

LEMMA PendingAreTasks == TypeOK => Pending \subseteq Task
  BY DEF TypeOK, Pending

LEMMA CallFacts ==
  ASSUME TypeOK, NEW t \in Threads
  PROVE  /\ call \in [Threads -> CallRecord] /\ call[t] \in CallRecord
         /\ call[t].no \in Nat /\ call[t].no <= MaxCalls
         /\ call[t].n \in Nat /\ call[t].n <= MaxTasks /\ call[t].n >= 1
         /\ call[t].next \in Nat /\ call[t].next <= MaxTasks /\ call[t].next >= 1
         /\ call[t].pc \in {Idle, "enqueue", "notify", "wait"}
  BY PoolAssumption DEF TypeOK, CallRecord

\* A step of t within its call.
LEMMA GotoFacts ==
  ASSUME TypeOK, NEW t \in Threads, NEW next \in 1 .. MaxTasks,
         NEW pc \in {Idle, "enqueue", "notify", "wait"}, Goto(t, next, pc)
  PROVE  /\ call' \in [Threads -> CallRecord]
         /\ call'[t].no = call[t].no /\ call'[t].kind = call[t].kind /\ call'[t].n = call[t].n
         /\ call'[t].next = next /\ call'[t].pc = pc
         /\ \A u \in Threads \ {t} : call'[u] = call[u]
  BY CallFacts DEF Goto, CallRecord

LEMMA TaskOfFacts ==
  ASSUME Inv, NEW t \in Threads, ~At(t, Idle)
  PROVE  /\ TaskOf(t) \in Task
         /\ TaskOf(t).thread = t /\ TaskOf(t).no = call[t].no /\ TaskOf(t).i = call[t].next
  <1>1. call[t].no \in 1 .. MaxCalls /\ call[t].next \in 1 .. MaxTasks
    BY CallFacts, PoolAssumption DEF Inv, Callers
  <1> QED BY <1>1 DEF TaskOf, Task

LEMMA HeadFacts ==
  ASSUME NEW S, NEW s \in Seq(S), s # <<>>
  PROVE  /\ Head(s) \in S /\ Tail(s) \in Seq(S) /\ 1 \in DOMAIN s /\ Head(s) = s[1]
         /\ \A i \in DOMAIN Tail(s) : i + 1 \in DOMAIN s /\ Tail(s)[i] = s[i + 1] /\ i \in Nat /\ i >= 1
         /\ \A i \in DOMAIN s : i = 1 \/ (i - 1 \in DOMAIN Tail(s) /\ Tail(s)[i - 1] = s[i])
  <1>1. Len(s) \in Nat /\ Len(s) >= 1 /\ DOMAIN s = 1 .. Len(s) OBVIOUS
  <1>2. Len(Tail(s)) = Len(s) - 1 /\ Tail(s) \in Seq(S) OBVIOUS
  <1>3. \A i \in 1 .. Len(Tail(s)) : Tail(s)[i] = s[i + 1] OBVIOUS
  <1>4. DOMAIN Tail(s) = 1 .. Len(Tail(s)) BY <1>2
  <1>5. Head(s) = s[1] /\ s[1] \in S BY <1>1
  <1> QED BY <1>1, <1>2, <1>3, <1>4, <1>5

LEMMA AppendFacts ==
  ASSUME NEW S, NEW s \in Seq(S), NEW e \in S
  PROVE  /\ Append(s, e) \in Seq(S) /\ Append(s, e) # <<>>
         /\ \A i \in DOMAIN Append(s, e) :
              (i \in DOMAIN s /\ Append(s, e)[i] = s[i]) \/ (i = Len(s) + 1 /\ Append(s, e)[i] = e)
  OBVIOUS

--------------------------------------------------------------------------------
LEMMA InitInv == ASSUME Init PROVE Inv
  <1> USE PoolAssumption, PcAssumption
  <1>1. Pending = {} BY DEF Init, Pending
  <1>2. TypeOK
    <2>1. call \in [Threads -> CallRecord] BY DEF Init, Kinds, CallRecord
    <2>2. queue = <<>> /\ stop = FALSE /\ pool = "alive" BY DEF Init
    <2>6. queue \in Seq(Task) BY <2>2
    <2>5. thrown \subseteq Calls BY DEF Init
    <2>3. worker \in [Workers -> {Asleep, Checking, Exited} \cup Task] BY DEF Init
    <2>4. DOMAIN future = {} /\ future \in [DOMAIN future -> {"ok", "threw"}] BY DEF Init
    <2> QED BY <2>1, <2>2, <2>3, <2>4, <2>5, <2>6 DEF TypeOK, CallRecord
  <1>3. DOMAIN future = {} BY DEF Init
  <1>4. \A t \in Threads : At(t, Idle) /\ call[t].next = 1 /\ call[t].n = 1 BY DEF Init, At
  <1>5. Callers /\ Tasks /\ Futures BY <1>1, <1>3, <1>4 DEF Callers, Tasks, Futures
  <1>6. Waited BY <1>4 DEF Waited, At
  <1>7. Once BY DEF Init, Once
  <1>8. Ending BY DEF Init, Ending
  <1> QED BY <1>1, <1>2, <1>5, <1>6, <1>7, <1>8 DEF Inv, FramesOutliveTasksOfReturns

--------------------------------------------------------------------------------
(* The calling threads.                                                    *)

\* What remains of Inv when a thread goes on within its call and the pool is
\* left alone.
LEMMA OtherCalls ==
  ASSUME Inv, NEW t \in Threads, \A u \in Threads \ {t} : call'[u] = call[u]
  PROVE  \A k \in Task : k.thread # t => IsLive(k)' = IsLive(k) /\ Enqueued(k)' = Enqueued(k)
  BY TaskIsItsFields DEF IsLive, Enqueued, At

LEMMA BeginKeeps ==
  ASSUME Inv, NEW t \in Threads, NEW kind \in Kinds, NEW n \in 1 .. MaxTasks, Begin(t, kind, n)
  PROVE  Inv'
  <1> DEFINE c == [no |-> call[t].no + 1, kind |-> kind, n |-> n, next |-> 1, pc |-> "enqueue"]
  <1>1. /\ call' = [call EXCEPT ![t] = c] /\ pool = "alive" /\ Workers # {}
        /\ call[t].pc = Idle /\ call[t].no < MaxCalls
        /\ UNCHANGED <<queue, worker, future, stop, pool, thrown>>
    BY DEF Begin, At
  <1>2. /\ c \in CallRecord /\ c.no = call[t].no + 1 /\ c.pc = "enqueue" /\ c.n = n /\ c.next = 1
        /\ call[t].no \in Nat
    BY <1>1, CallFacts, PoolAssumption DEF Inv, CallRecord
  <1> HIDE DEF c
  <1>3. /\ call' \in [Threads -> CallRecord] /\ call'[t] = c
        /\ \A u \in Threads \ {t} : call'[u] = call[u]
    BY <1>1, <1>2, CallFacts DEF Inv
  <1>4. TypeOK' BY <1>1, <1>3 DEF Inv, TypeOK, CallRecord
  <1>5. Pending' = Pending /\ Pending \subseteq Task BY <1>1, PendingAreTasks DEF Pending, Inv
  <1>6. DOMAIN future \subseteq Task BY DEF Inv, TypeOK
  <1>7. \A k \in Task : k.thread = t /\ k.no <= call[t].no => ~IsLive(k) /\ ~IsLive(k)' /\ Enqueued(k)'
    BY <1>1, <1>2, <1>3, TaskIsItsFields, PcAssumption DEF IsLive, Enqueued, At
  <1>8. Tasks'
    <2> SUFFICES ASSUME NEW k \in Pending PROVE Enqueued(k)' BY <1>5 DEF Tasks
    <2>1. Enqueued(k) /\ k \in Task BY <1>5 DEF Inv, Tasks
    <2>2. CASE k.thread = t BY <1>7, <2>1, <2>2 DEF Enqueued
    <2>3. CASE k.thread # t BY <1>3, <2>1, <2>3, OtherCalls
    <2> QED BY <2>2, <2>3
  <1>9. Futures'
    <2> SUFFICES ASSUME NEW k \in DOMAIN future
                 PROVE  IsLive(k)' /\ Enqueued(k)' /\ k \notin Pending'
      BY <1>1 DEF Futures
    <2>1. IsLive(k) /\ Enqueued(k) /\ k \in Task /\ k \notin Pending BY <1>6 DEF Inv, Futures
    <2>2. k.thread # t BY <1>7, <2>1 DEF Enqueued
    <2> QED BY <1>3, <1>5, <2>1, <2>2, OtherCalls
  <1>10. FramesOutliveTasksOfReturns'
    <2> SUFFICES ASSUME NEW k \in Pending
                 PROVE  IsLive(k)' \/ <<k.thread, k.no>> \in thrown
      BY <1>1, <1>5 DEF FramesOutliveTasksOfReturns
    <2>1. /\ Enqueued(k) /\ k \in Task
          /\ IsLive(k) \/ <<k.thread, k.no>> \in thrown
      BY <1>5 DEF Inv, Tasks, FramesOutliveTasksOfReturns
    <2>2. CASE k.thread = t BY <1>7, <2>1, <2>2 DEF Enqueued
    <2>3. CASE k.thread # t BY <1>3, <2>1, <2>3, OtherCalls
    <2> QED BY <2>2, <2>3
  <1>11. Callers'
    BY <1>1, <1>2, <1>3 DEF Inv, Callers, At
  <1>12. Waited'
    BY <1>1, <1>2, <1>3 DEF Inv, Waited, At
  <1>13. Once' BY <1>1 DEF Inv, Once
  <1>14. Ending' BY <1>1 DEF Inv, Ending
  <1> QED BY <1>4, <1>8, <1>9, <1>10, <1>11, <1>12, <1>13, <1>14 DEF Inv

\* A call ends: its tasks are gone, or it throws.
LEMMA LeaveKeeps ==
  ASSUME Inv, NEW t \in Threads, ~At(t, Idle), NEW throws \in BOOLEAN, Leave(t, throws),
         throws \/ \A k \in Pending : k.thread # t \/ k.no # call[t].no,
         UNCHANGED <<queue, worker, stop, pool>>
  PROVE  Inv'
  <1>1. /\ call' \in [Threads -> CallRecord] /\ \A u \in Threads \ {t} : call'[u] = call[u]
        /\ call'[t].no = call[t].no /\ call'[t].n = call[t].n
        /\ call'[t].next = 1 /\ call'[t].pc = Idle
    <2>1. Goto(t, 1, Idle) /\ 1 \in 1 .. MaxTasks BY PoolAssumption DEF Leave
    <2> QED BY <2>1, GotoFacts DEF Inv
  <1>2. /\ DOMAIN future' = {j \in DOMAIN future : j.thread # t}
        /\ \A k \in DOMAIN future' : future'[k] = future[k]
    BY DEF Leave
  <1>3. call[t].no \in 1 .. MaxCalls /\ pool = "alive"
    BY CallFacts, PoolAssumption DEF Inv, Callers
  <1>4. /\ thrown \subseteq thrown' /\ thrown' \subseteq Calls
        /\ throws => <<t, call[t].no>> \in thrown'
    BY <1>3 DEF Leave, Inv, TypeOK, Calls
  <1>5. TypeOK'
    <2>1. DOMAIN future' \subseteq Task /\ future' \in [DOMAIN future' -> {"ok", "threw"}]
      BY <1>2 DEF Inv, TypeOK, Leave
    <2> QED BY <1>1, <1>4, <2>1 DEF Inv, TypeOK, CallRecord
  <1>6. Pending' = Pending /\ Pending \subseteq Task BY PendingAreTasks DEF Pending, Inv
  <1>7. \A k \in Task : k.thread = t => ~IsLive(k)' /\ (k.no <= call[t].no => Enqueued(k)')
    BY <1>1 DEF IsLive, Enqueued, At
  <1>8. Tasks'
    <2> SUFFICES ASSUME NEW k \in Pending PROVE Enqueued(k)' BY <1>6 DEF Tasks
    <2>1. Enqueued(k) /\ k \in Task BY <1>6 DEF Inv, Tasks
    <2>2. CASE k.thread = t BY <1>7, <2>1, <2>2 DEF Enqueued
    <2>3. CASE k.thread # t BY <1>1, <2>1, <2>3, OtherCalls
    <2> QED BY <2>2, <2>3
  <1>9. Futures'
    <2> SUFFICES ASSUME NEW k \in DOMAIN future'
                 PROVE  IsLive(k)' /\ Enqueued(k)' /\ k \notin Pending'
      BY DEF Futures
    <2>1. IsLive(k) /\ Enqueued(k) /\ k \in Task /\ k \notin Pending /\ k.thread # t
      BY <1>2 DEF Inv, Futures, TypeOK
    <2> QED BY <1>1, <1>6, <2>1, OtherCalls
  <1>10. FramesOutliveTasksOfReturns'
    <2> SUFFICES ASSUME NEW k \in Pending
                 PROVE  IsLive(k)' \/ <<k.thread, k.no>> \in thrown'
      BY <1>6 DEF FramesOutliveTasksOfReturns
    <2>1. k \in Task /\ (IsLive(k) \/ <<k.thread, k.no>> \in thrown')
      BY <1>4, <1>6 DEF Inv, FramesOutliveTasksOfReturns
    <2>2. CASE k.thread = t BY <1>4, <2>1, <2>2 DEF IsLive
    <2>3. CASE k.thread # t BY <1>1, <2>1, <2>3, OtherCalls
    <2> QED BY <2>2, <2>3
  <1>11. Callers' BY <1>1, CallFacts DEF Inv, Callers, At
  <1>12. Waited'
    <2> SUFFICES ASSUME NEW u \in Threads, At(u, "wait")', NEW j \in 1 .. call'[u].next - 1
                 PROVE  [thread |-> u, no |-> call'[u].no, i |-> j] \in DOMAIN future'
      BY DEF Waited
    <2>1. u # t BY <1>1, PcAssumption DEF At
    <2> QED BY <1>1, <1>2, <2>1 DEF Inv, Waited, At
  <1>13. Once' BY DEF Inv, Once
  <1>14. Ending' BY DEF Inv, Ending
  <1> QED BY <1>5, <1>8, <1>9, <1>10, <1>11, <1>12, <1>13, <1>14 DEF Inv

LEMMA ReadFailsKeeps ==
  ASSUME Inv, NEW t \in Threads, ReadFails(t)
  PROVE  Inv'
  <1>1. ~At(t, Idle) BY PcAssumption DEF ReadFails, At
  <1> QED BY <1>1, LeaveKeeps DEF ReadFails

LEMMA EnqueueKeeps ==
  ASSUME Inv, NEW t \in Threads, Enqueue(t)
  PROVE  Inv'
  <1>0. PICK e \in Task : e = TaskOf(t)
    <2>1. ~At(t, Idle) BY PcAssumption DEF Enqueue, At
    <2> QED BY <2>1, TaskOfFacts
  <1>1. /\ call[t].pc = "enqueue" /\ call[t].pc # Idle
        /\ queue' = Append(queue, e) /\ Goto(t, call[t].next, "notify")
        /\ UNCHANGED <<worker, future, stop, pool, thrown>>
    BY <1>0, PcAssumption DEF Enqueue, At
  <1>2. /\ e \in Task /\ e.thread = t /\ e.no = call[t].no /\ e.i = call[t].next
        /\ ~Enqueued(e) /\ IsLive(e)
    <2>1. e \in Task /\ e.thread = t /\ e.no = call[t].no /\ e.i = call[t].next
      BY <1>0, <1>1, TaskOfFacts DEF At
    <2> QED BY <1>1, <2>1, CallFacts DEF Enqueued, IsLive, At, Inv
  <1>3. /\ call' \in [Threads -> CallRecord] /\ \A u \in Threads \ {t} : call'[u] = call[u]
        /\ call'[t].no = call[t].no /\ call'[t].n = call[t].n
        /\ call'[t].next = call[t].next /\ call'[t].pc = "notify"
    <2>1. call[t].next \in 1 .. MaxTasks BY CallFacts, PoolAssumption DEF Inv
    <2> QED BY <1>1, <2>1, GotoFacts DEF Inv
  <1>4. queue \in Seq(Task) /\ Pending \subseteq Task /\ DOMAIN future \subseteq Task
    BY PendingAreTasks DEF Inv, TypeOK
  <1>5. /\ queue' \in Seq(Task) /\ queue' # <<>>
        /\ \A i \in DOMAIN queue' : \/ i \in DOMAIN queue /\ queue'[i] = queue[i]
                                    \/ i = Len(queue) + 1 /\ queue'[i] = e
    BY <1>1, <1>2, <1>4, AppendFacts
  <1>6. TypeOK' BY <1>1, <1>3, <1>5 DEF Inv, TypeOK, CallRecord
  <1>7. Pending' \subseteq Pending \cup {e} BY <1>1, <1>5 DEF Pending
  <1>8. e \notin Pending /\ e \notin DOMAIN future BY <1>2 DEF Inv, Tasks, Futures
  <1>9. \A k \in Task : /\ IsLive(k)' = IsLive(k)
                        /\ Enqueued(k) => Enqueued(k)'
    <2> SUFFICES ASSUME NEW k \in Task
                 PROVE  IsLive(k)' = IsLive(k) /\ (Enqueued(k) => Enqueued(k)')
      OBVIOUS
    <2>1. CASE k.thread = t
      BY <1>1, <1>3, <2>1, CallFacts, TaskIsItsFields, PcAssumption DEF IsLive, Enqueued, At, Inv
    <2>2. CASE k.thread # t BY <1>3, <2>2, OtherCalls
    <2> QED BY <2>1, <2>2
  <1>10. Enqueued(e)'
    BY <1>1, <1>2, <1>3, CallFacts DEF Enqueued, IsLive, At, Inv, Callers
  <1>11. Tasks' BY <1>4, <1>7, <1>9, <1>10 DEF Inv, Tasks
  <1>12. Futures' BY <1>1, <1>4, <1>7, <1>8, <1>9 DEF Inv, Futures
  <1>13. FramesOutliveTasksOfReturns'
    BY <1>1, <1>2, <1>4, <1>7, <1>9 DEF Inv, FramesOutliveTasksOfReturns
  <1>14. Callers' BY <1>1, <1>3 DEF Inv, Callers, At
  <1>15. Waited'
    <2> SUFFICES ASSUME NEW u \in Threads, At(u, "wait")', NEW j \in 1 .. call'[u].next - 1
                 PROVE  [thread |-> u, no |-> call'[u].no, i |-> j] \in DOMAIN future'
      BY DEF Waited
    <2>1. u # t BY <1>3 DEF At
    <2> QED BY <1>1, <1>3, <2>1 DEF Inv, Waited, At
  <1>16. Once'
    <2>1. \A i \in DOMAIN queue : queue[i] # e BY <1>8 DEF Pending
    <2>2. \A w \in Workers : worker[w] # e BY <1>2, <1>8 DEF Pending
    <2>3. \A i, j \in DOMAIN queue' : queue'[i] = queue'[j] => i = j
      BY <1>5, <2>1 DEF Inv, Once
    <2>4. \A w \in Workers, i \in DOMAIN queue' : queue'[i] # worker[w]
      BY <1>5, <2>2 DEF Inv, Once
    <2> QED BY <1>1, <2>3, <2>4 DEF Inv, Once
  <1>17. Ending'
    <2>1. pool = "alive" /\ Workers # {} /\ ~stop BY <1>1 DEF Inv, Callers, Ending, At
    <2> QED BY <1>1, <2>1 DEF Inv, Ending
  <1> QED BY <1>6, <1>11, <1>12, <1>13, <1>14, <1>15, <1>16, <1>17 DEF Inv

\* A step that may only wake workers leaves the tasks where they are.
LEMMA WakeKeeps ==
  ASSUME TypeOK, worker' \in [Workers -> {Asleep, Checking, Exited} \cup Task], UNCHANGED queue,
         \A w \in Workers : worker'[w] = worker[w]
                            \/ (worker[w] \notin Task /\ worker'[w] = Checking)
  PROVE  /\ Pending' = Pending
         /\ Once => Once'
         /\ \A w \in Workers : worker'[w] = Exited => worker[w] = Exited
  <1>1. Checking \notin Task /\ Checking # Exited BY PcAssumption
  <1>2. \A w \in Workers : (worker'[w] \in Task \/ worker[w] \in Task) => worker'[w] = worker[w]
    BY <1>1
  <1>3. Pending' = Pending BY <1>2 DEF Pending
  <1>4. Once => Once' 
    <2>1. queue \in Seq(Task) BY DEF TypeOK
    <2>2. \A i \in DOMAIN queue : queue[i] \in Task BY <2>1
    <2>3. Once => \A w \in Workers, i \in DOMAIN queue : queue[i] # worker'[w]
      BY <1>2, <2>2 DEF Once
    <2>4. Once => \A v, w \in Workers : worker'[v] \in Task /\ worker'[v] = worker'[w] => v = w
      BY <1>2 DEF Once
    <2> QED BY <2>3, <2>4 DEF Once
  <1> QED BY <1>1, <1>3, <1>4

LEMMA NotifyKeeps ==
  ASSUME Inv, NEW t \in Threads, Notify(t)
  PROVE  Inv'
  <1>1. /\ call[t].pc = "notify" /\ call[t].pc # Idle /\ NextTask(t)
        /\ UNCHANGED <<queue, future, stop, pool, thrown>>
    BY PcAssumption DEF Notify, At
  <1>2. /\ worker' \in [Workers -> {Asleep, Checking, Exited} \cup Task]
        /\ \A w \in Workers : worker'[w] = worker[w]
                              \/ (worker[w] \notin Task /\ worker'[w] = Checking)
    <2>1. worker \in [Workers -> {Asleep, Checking, Exited} \cup Task] /\ Asleep \notin Task
      BY PcAssumption DEF Inv, TypeOK
    <2>2. CASE UNCHANGED worker BY <2>1, <2>2
    <2>3. CASE \E w \in Workers : worker[w] = Asleep /\ worker' = [worker EXCEPT ![w] = Checking]
      BY <2>1, <2>3
    <2> QED BY <2>2, <2>3 DEF Notify
  <1>3. call[t].next \in 1 .. MaxTasks /\ call[t].next <= call[t].n /\ call[t].n <= MaxTasks
        /\ call[t].n \in Nat
    BY CallFacts, PoolAssumption DEF Inv, Callers
  <1>4. \/ call[t].next < call[t].n /\ Goto(t, call[t].next + 1, "enqueue")
        \/ call[t].next = call[t].n /\ Goto(t, 1, "wait")
    BY <1>1, <1>3 DEF NextTask
  <1>5. /\ call' \in [Threads -> CallRecord] /\ \A u \in Threads \ {t} : call'[u] = call[u]
        /\ call'[t].no = call[t].no /\ call'[t].n = call[t].n
        /\ \/ /\ call[t].next < call[t].n
              /\ call'[t].next = call[t].next + 1 /\ call'[t].pc = "enqueue"
           \/ /\ call[t].next = call[t].n /\ call'[t].next = 1 /\ call'[t].pc = "wait"
    <2>1. CASE call[t].next < call[t].n /\ Goto(t, call[t].next + 1, "enqueue")
      <3>1. call[t].next + 1 \in 1 .. MaxTasks BY <1>3, <2>1, PoolAssumption
      <3> QED BY <2>1, <3>1, GotoFacts DEF Inv
    <2>2. CASE call[t].next = call[t].n /\ Goto(t, 1, "wait")
      <3>1. 1 \in 1 .. MaxTasks BY PoolAssumption
      <3> QED BY <2>2, <3>1, GotoFacts DEF Inv
    <2> QED BY <1>4, <2>1, <2>2
  <1>6. /\ Pending' = Pending /\ Once'
        /\ \A w \in Workers : worker'[w] = Exited => worker[w] = Exited
    BY <1>1, <1>2, WakeKeeps DEF Inv
  <1>7. Pending \subseteq Task /\ DOMAIN future \subseteq Task BY PendingAreTasks DEF Inv, TypeOK
  <1>8. TypeOK' BY <1>1, <1>2, <1>5 DEF Inv, TypeOK, CallRecord
  <1>9. \A k \in Task : IsLive(k)' = IsLive(k) /\ (Enqueued(k) => Enqueued(k)')
    <2> SUFFICES ASSUME NEW k \in Task
                 PROVE  IsLive(k)' = IsLive(k) /\ (Enqueued(k) => Enqueued(k)')
      OBVIOUS
    <2>1. CASE k.thread = t
      <3>1. call'[t].pc # Idle BY <1>5, PcAssumption
      <3>2. IsLive(k)' = IsLive(k) BY <1>1, <1>5, <2>1, <3>1 DEF IsLive, At
      <3>3. k.i \in Nat BY TaskIsItsFields
      <3> QED BY <1>1, <1>3, <1>5, <2>1, <3>2, <3>3 DEF Enqueued, At
    <2>2. CASE k.thread # t BY <1>5, <2>2, OtherCalls
    <2> QED BY <2>1, <2>2
  <1>10. Tasks' BY <1>6, <1>7, <1>9 DEF Inv, Tasks
  <1>11. Futures' BY <1>1, <1>6, <1>7, <1>9 DEF Inv, Futures
  <1>12. FramesOutliveTasksOfReturns' BY <1>1, <1>6, <1>7, <1>9 DEF Inv, FramesOutliveTasksOfReturns
  <1>13. Callers' BY <1>1, <1>3, <1>5 DEF Inv, Callers, At
  <1>14. Waited'
    <2> SUFFICES ASSUME NEW u \in Threads, At(u, "wait")', NEW j \in 1 .. call'[u].next - 1
                 PROVE  [thread |-> u, no |-> call'[u].no, i |-> j] \in DOMAIN future'
      BY DEF Waited
    <2>1. CASE u = t BY <1>5, <2>1 DEF At
    <2>2. CASE u # t BY <1>1, <1>5, <2>2 DEF Inv, Waited, At
    <2> QED BY <2>1, <2>2
  <1>15. Ending' BY <1>1, <1>6 DEF Inv, Ending, Callers, At
  <1> QED BY <1>6, <1>8, <1>10, <1>11, <1>12, <1>13, <1>14, <1>15 DEF Inv

\* The next future: nothing changes but the task that is waited for.
LEMMA WaitsOnKeeps ==
  ASSUME Inv, NEW t \in Threads, At(t, "wait"), Ready(t), call[t].next < call[t].n,
         Goto(t, call[t].next + 1, "wait"), UNCHANGED <<queue, worker, future, stop, pool, thrown>>
  PROVE  Inv'
  <1>1. /\ call' \in [Threads -> CallRecord] /\ \A u \in Threads \ {t} : call'[u] = call[u]
        /\ call'[t].no = call[t].no /\ call'[t].n = call[t].n
        /\ call'[t].next = call[t].next + 1 /\ call'[t].pc = "wait" /\ call[t].pc = "wait"
    <2>1. call[t].next + 1 \in 1 .. MaxTasks BY CallFacts, PoolAssumption DEF Inv
    <2> QED BY <2>1, GotoFacts DEF Inv, At
  <1>2. call[t].next \in Nat /\ call[t].n \in Nat BY CallFacts DEF Inv
  <1>3. Pending' = Pending /\ Pending \subseteq Task /\ DOMAIN future \subseteq Task
    BY PendingAreTasks DEF Pending, Inv, TypeOK
  <1>4. TypeOK' BY <1>1 DEF Inv, TypeOK, CallRecord
  <1>5. \A k \in Task : IsLive(k)' = IsLive(k) /\ (Enqueued(k) => Enqueued(k)')
    <2> SUFFICES ASSUME NEW k \in Task
                 PROVE  IsLive(k)' = IsLive(k) /\ (Enqueued(k) => Enqueued(k)')
      OBVIOUS
    <2>1. CASE k.thread = t
      <3>1. IsLive(k)' = IsLive(k) BY <1>1, <2>1 DEF IsLive, At
      <3> QED BY <1>1, <2>1, <3>1 DEF Enqueued, At
    <2>2. CASE k.thread # t BY <1>1, <2>2, OtherCalls
    <2> QED BY <2>1, <2>2
  <1>6. Tasks' BY <1>3, <1>5 DEF Inv, Tasks
  <1>7. Futures' BY <1>3, <1>5 DEF Inv, Futures
  <1>8. FramesOutliveTasksOfReturns' BY <1>3, <1>5 DEF Inv, FramesOutliveTasksOfReturns
  <1>9. Callers' BY <1>1, <1>2 DEF Inv, Callers, At
  <1>10. Waited'
    <2> SUFFICES ASSUME NEW u \in Threads, At(u, "wait")', NEW j \in 1 .. call'[u].next - 1
                 PROVE  [thread |-> u, no |-> call'[u].no, i |-> j] \in DOMAIN future
      BY DEF Waited
    <2>1. CASE u = t
      <3>1. CASE j = call[t].next BY <1>1, <2>1, <3>1 DEF Ready, TaskOf
      <3>2. CASE j # call[t].next
        <4>1. j \in 1 .. call[t].next - 1 BY <1>1, <1>2, <2>1, <3>2
        <4> QED BY <1>1, <2>1, <4>1 DEF Inv, Waited, At
      <3> QED BY <3>1, <3>2
    <2>2. CASE u # t BY <1>1, <2>2 DEF Inv, Waited, At
    <2> QED BY <2>1, <2>2
  <1>11. Once' BY DEF Inv, Once
  <1>12. Ending' BY DEF Inv, Ending
  <1> QED BY <1>4, <1>6, <1>7, <1>8, <1>9, <1>10, <1>11, <1>12 DEF Inv

\* A call that waits for its last task, and has it, has no other that is pending.
LEMMA AllDone ==
  ASSUME Inv, NEW t \in Threads, At(t, "wait"), Ready(t), ~(call[t].next < call[t].n)
  PROVE  \A k \in Pending : k.thread # t \/ k.no # call[t].no
  <1> SUFFICES ASSUME NEW k \in Pending, k.thread = t, k.no = call[t].no PROVE FALSE
    OBVIOUS
  <1>1. k \in Task /\ k.i \in Nat /\ k.i >= 1 /\ k = [thread |-> t, no |-> call[t].no, i |-> k.i]
    BY PendingAreTasks, TaskIsItsFields DEF Inv
  <1>2. IsLive(k) BY PcAssumption DEF IsLive, At
  <1>3. k.i <= call[t].n /\ call[t].n = call[t].next /\ call[t].next \in Nat
    BY <1>2, CallFacts DEF Inv, Tasks, Enqueued, Callers
  <1>4. k \in DOMAIN future
    <2>1. CASE k.i = call[t].next BY <1>1, <2>1 DEF Ready, TaskOf
    <2>2. CASE k.i # call[t].next
      <3>1. k.i \in 1 .. call[t].next - 1 BY <1>1, <1>3, <2>2
      <3> QED BY <1>1, <3>1 DEF Inv, Waited
    <2> QED BY <2>1, <2>2
  <1> QED BY <1>4 DEF Inv, Futures

LEMMA WaitKeeps ==
  ASSUME Inv, NEW t \in Threads, Wait(t)
  PROVE  Inv'
  <1>1. At(t, "wait") /\ ~At(t, Idle) /\ Ready(t) /\ UNCHANGED <<queue, worker, stop, pool>>
    BY PcAssumption DEF Wait, At
  <1>2. CASE Leave(t, TRUE) BY <1>1, <1>2, LeaveKeeps
  <1>3. CASE call[t].next < call[t].n /\ Goto(t, call[t].next + 1, "wait") /\ UNCHANGED <<future, thrown>>
    BY <1>1, <1>3, WaitsOnKeeps
  <1>4. CASE ~(call[t].next < call[t].n) /\ Leave(t, ReadyThrew(t))
    <2>1. \A k \in Pending : k.thread # t \/ k.no # call[t].no BY <1>1, <1>4, AllDone
    <2>2. ReadyThrew(t) \in BOOLEAN BY DEF ReadyThrew
    <2> QED BY <1>1, <1>4, <2>1, <2>2, LeaveKeeps
  <1> QED BY <1>2, <1>3, <1>4 DEF Wait

--------------------------------------------------------------------------------
(* The workers.                                                            *)

\* What holds of the calls and their futures holds on when only workers move and
\* no task comes back.
LEMMA SameForCalls ==
  ASSUME Inv, UNCHANGED <<call, future, thrown, pool>>, Pending' \subseteq Pending
  PROVE  Callers' /\ Tasks' /\ Futures' /\ Waited' /\ FramesOutliveTasksOfReturns'
  <1>1. Pending \subseteq Task /\ DOMAIN future \subseteq Task BY PendingAreTasks DEF Inv, TypeOK
  <1>2. \A k \in Task : IsLive(k)' = IsLive(k) /\ (Enqueued(k) => Enqueued(k)')
    BY DEF IsLive, Enqueued, At
  <1>3. Callers' BY DEF Inv, Callers, At
  <1>4. Tasks' BY <1>1, <1>2 DEF Inv, Tasks
  <1>5. Futures' BY <1>1, <1>2 DEF Inv, Futures
  <1>6. Waited' BY DEF Inv, Waited, At
  <1>7. FramesOutliveTasksOfReturns' BY <1>1, <1>2 DEF Inv, FramesOutliveTasksOfReturns
  <1> QED BY <1>3, <1>4, <1>5, <1>6, <1>7

LEMMA CheckKeeps ==
  ASSUME Inv, NEW w \in Workers, Check(w)
  PROVE  Inv'
  <1>1. /\ worker[w] = Checking /\ Checking \notin Task
        /\ UNCHANGED <<call, future, stop, pool, thrown>>
    BY PcAssumption DEF Check
  <1>2. /\ worker \in [Workers -> {Asleep, Checking, Exited} \cup Task] /\ queue \in Seq(Task)
    BY DEF Inv, TypeOK
  <1>3. CASE queue # <<>>
    <2>1. worker' = [worker EXCEPT ![w] = Head(queue)] /\ queue' = Tail(queue)
      BY <1>3 DEF Check
    <2>2. /\ Head(queue) \in Task /\ Tail(queue) \in Seq(Task)
          /\ 1 \in DOMAIN queue /\ Head(queue) = queue[1]
          /\ \A i \in DOMAIN Tail(queue) : /\ i + 1 \in DOMAIN queue /\ Tail(queue)[i] = queue[i + 1]
                                           /\ i \in Nat /\ i >= 1
      BY <1>2, <1>3, HeadFacts
    <2>3. /\ worker'[w] = queue[1] /\ \A v \in Workers \ {w} : worker'[v] = worker[v]
          /\ worker' \in [Workers -> {Asleep, Checking, Exited} \cup Task]
      BY <1>2, <2>1, <2>2
    <2>4. \A i \in DOMAIN queue' : /\ i + 1 \in DOMAIN queue /\ queue'[i] = queue[i + 1]
                                   /\ i \in Nat /\ i >= 1
      BY <2>1, <2>2
    <2>5. Pending' \subseteq Pending BY <2>2, <2>3, <2>4 DEF Pending
    <2>6. TypeOK' BY <1>1, <2>1, <2>2, <2>3 DEF Inv, TypeOK
    <2>7. Once'
      <3>1. \A i, j \in DOMAIN queue' : queue'[i] = queue'[j] => i = j
        <4> SUFFICES ASSUME NEW i \in DOMAIN queue', NEW j \in DOMAIN queue', queue'[i] = queue'[j]
                     PROVE  i = j
          OBVIOUS
        <4>1. i + 1 = j + 1 BY <2>4 DEF Inv, Once
        <4> QED BY <2>4, <4>1
      <3>2. \A i \in DOMAIN queue' : queue'[i] # queue[1]
        <4> SUFFICES ASSUME NEW i \in DOMAIN queue', queue'[i] = queue[1] PROVE FALSE
          OBVIOUS
        <4>1. i + 1 = 1 BY <2>2, <2>4 DEF Inv, Once
        <4> QED BY <2>4, <4>1
      <3>3. \A v \in Workers, i \in DOMAIN queue' : queue'[i] # worker'[v]
        BY <2>3, <2>4, <3>2 DEF Inv, Once
      <3>4. \A v \in Workers : worker[v] # queue[1] BY <2>2 DEF Inv, Once
      <3>5. \A u, v \in Workers : worker'[u] \in Task /\ worker'[u] = worker'[v] => u = v
        BY <2>3, <3>4 DEF Inv, Once
      <3> QED BY <3>1, <3>3, <3>5 DEF Once
    <2>8. Ending'
      <3>1. \A v \in Workers : worker[v] # Exited BY <1>3 DEF Inv, Ending
      <3>2. Exited \notin Task /\ pool # "gone" BY <1>3, <3>1, PcAssumption DEF Inv, Ending
      <3>3. \A v \in Workers : worker'[v] # Exited BY <2>2, <2>3, <3>1, <3>2
      <3> QED BY <1>1, <3>2, <3>3 DEF Inv, Ending
    <2> QED BY <1>1, <2>5, <2>6, <2>7, <2>8, SameForCalls DEF Inv
  <1>4. CASE queue = <<>>
    <2>1. /\ UNCHANGED queue
          /\ worker' = [worker EXCEPT ![w] = IF stop THEN Exited ELSE Asleep]
      BY <1>4 DEF Check
    <2>2. /\ worker' \in [Workers -> {Asleep, Checking, Exited} \cup Task]
          /\ worker'[w] = (IF stop THEN Exited ELSE Asleep) /\ worker'[w] \notin Task
          /\ \A v \in Workers \ {w} : worker'[v] = worker[v]
      BY <1>2, <2>1, PcAssumption
    <2>3. Pending' \subseteq Pending BY <2>1, <2>2 DEF Pending
    <2>4. TypeOK' BY <1>1, <2>1, <2>2 DEF Inv, TypeOK
    <2>5. Once'
      <3>1. DOMAIN queue = {} BY <1>4
      <3>2. \A u, v \in Workers : worker'[u] \in Task /\ worker'[u] = worker'[v] => u = v
        BY <2>2 DEF Inv, Once
      <3> QED BY <2>1, <3>1, <3>2 DEF Once
    <2>6. Ending'
      <3>1. pool # "gone" BY <1>1, PcAssumption DEF Inv, Ending
      <3>2. \A v \in Workers : worker'[v] = Exited => stop
        BY <2>2, PcAssumption DEF Inv, Ending
      <3> QED BY <1>1, <1>4, <2>1, <3>1, <3>2 DEF Inv, Ending
    <2> QED BY <1>1, <2>3, <2>4, <2>5, <2>6, SameForCalls DEF Inv
  <1> QED BY <1>3, <1>4

LEMMA WakeSpuriouslyKeeps ==
  ASSUME Inv, NEW w \in Workers, WakeSpuriously(w)
  PROVE  Inv'
  <1>1. /\ worker[w] = Asleep /\ Asleep \notin Task /\ Asleep # Exited
        /\ UNCHANGED <<call, queue, future, stop, pool, thrown>>
    BY PcAssumption DEF WakeSpuriously
  <1>2. /\ worker' \in [Workers -> {Asleep, Checking, Exited} \cup Task]
        /\ \A v \in Workers : worker'[v] = worker[v]
                              \/ (worker[v] \notin Task /\ worker'[v] = Checking)
    BY <1>1 DEF WakeSpuriously, Inv, TypeOK
  <1>3. /\ Pending' = Pending /\ Once'
        /\ \A v \in Workers : worker'[v] = Exited => worker[v] = Exited
    BY <1>1, <1>2, WakeKeeps DEF Inv
  <1>4. TypeOK' BY <1>1, <1>2 DEF Inv, TypeOK
  <1>5. Ending' BY <1>1, <1>3 DEF Inv, Ending
  <1> QED BY <1>1, <1>3, <1>4, <1>5, SameForCalls DEF Inv

LEMMA RunTaskKeeps ==
  ASSUME Inv, NEW w \in Workers, RunTask(w)
  PROVE  Inv'
  <1>0. PICK k \in Task : k = worker[w] BY DEF RunTask
  <1>1. /\ worker' = [worker EXCEPT ![w] = Checking] /\ Checking \notin Task /\ Checking # Exited
        /\ UNCHANGED <<call, queue, stop, pool, thrown>>
    BY PcAssumption DEF RunTask
  <1>2. worker \in [Workers -> {Asleep, Checking, Exited} \cup Task] /\ queue \in Seq(Task)
    BY DEF Inv, TypeOK
  <1>3. /\ worker' \in [Workers -> {Asleep, Checking, Exited} \cup Task] /\ worker'[w] = Checking
        /\ \A v \in Workers \ {w} : worker'[v] = worker[v]
    BY <1>1, <1>2
  <1>4. Pending' \subseteq Pending /\ k \notin Pending' /\ k \in Pending
    <2>1. \A i \in DOMAIN queue : queue[i] # k BY <1>0 DEF Inv, Once
    <2>2. \A v \in Workers \ {w} : worker[v] # k BY <1>0 DEF Inv, Once
    <2> QED BY <1>0, <1>1, <1>3, <2>1, <2>2 DEF Pending
  <1>5. Enqueued(k) BY <1>4 DEF Inv, Tasks
  <1>6. Pending \subseteq Task /\ DOMAIN future \subseteq Task BY PendingAreTasks DEF Inv, TypeOK
  <1>7. \A j \in Task : IsLive(j)' = IsLive(j) /\ (Enqueued(j) => Enqueued(j)')
    BY <1>1 DEF IsLive, Enqueued, At
  <1>8. /\ DOMAIN future \subseteq DOMAIN future'
        /\ DOMAIN future' \subseteq DOMAIN future \cup (IF IsLive(k) THEN {k} ELSE {})
        /\ future' \in [DOMAIN future' -> {"ok", "threw"}]
    <2>1. future \in [DOMAIN future -> {"ok", "threw"}] BY DEF Inv, TypeOK
    <2>2. CASE IsLive(k)
      <3>1. PICK o \in Outcomes :
              future' = [j \in DOMAIN future \cup {k} |-> IF j = k THEN o ELSE future[j]]
        BY <1>0, <2>2 DEF RunTask
      <3>2. o \in {"ok", "threw"} BY DEF Outcomes
      <3> QED BY <2>1, <2>2, <3>1, <3>2
    <2>3. CASE ~IsLive(k) BY <1>0, <2>1, <2>3 DEF RunTask
    <2> QED BY <2>2, <2>3
  <1>9. TypeOK' BY <1>1, <1>3, <1>6, <1>8 DEF Inv, TypeOK
  <1>10. Futures'
    <2> SUFFICES ASSUME NEW j \in DOMAIN future'
                 PROVE  IsLive(j)' /\ Enqueued(j)' /\ j \notin Pending'
      BY DEF Futures
    <2>1. CASE j \in DOMAIN future BY <1>4, <1>6, <1>7, <2>1 DEF Inv, Futures
    <2>2. CASE j = k /\ IsLive(k) BY <1>4, <1>5, <1>7, <2>2
    <2> QED BY <1>8, <2>1, <2>2
  <1>11. Callers' BY <1>1 DEF Inv, Callers, At
  <1>12. Tasks' BY <1>4, <1>6, <1>7 DEF Inv, Tasks
  <1>13. Waited' BY <1>1, <1>8 DEF Inv, Waited, At
  <1>14. FramesOutliveTasksOfReturns' BY <1>1, <1>4, <1>6, <1>7 DEF Inv, FramesOutliveTasksOfReturns
  <1>15. Once'
    <2>1. \A i \in DOMAIN queue : queue[i] \in Task BY <1>2
    <2> QED BY <1>1, <1>3, <2>1 DEF Inv, Once
  <1>16. Ending'
    <2>1. worker[w] # Exited /\ pool # "gone" BY <1>0, PcAssumption DEF Inv, Ending
    <2> QED BY <1>1, <1>3, <2>1 DEF Inv, Ending
  <1> QED BY <1>9, <1>10, <1>11, <1>12, <1>13, <1>14, <1>15, <1>16 DEF Inv

--------------------------------------------------------------------------------
(* The destructor.                                                         *)

LEMMA StopKeeps == ASSUME Inv, Stop PROVE Inv'
  <1>1. /\ pool = "alive" /\ \A t \in Threads : At(t, Idle)
        /\ stop' = TRUE /\ pool' = "stopping" /\ UNCHANGED <<call, queue, worker, future, thrown>>
    BY DEF Stop
  <1>2. Pending' = Pending /\ Pending \subseteq Task /\ DOMAIN future \subseteq Task
    BY <1>1, PendingAreTasks DEF Pending, Inv, TypeOK
  <1>3. \A k \in Task : IsLive(k)' = IsLive(k) /\ (Enqueued(k) => Enqueued(k)')
    BY <1>1 DEF IsLive, Enqueued, At
  <1>4. TypeOK' BY <1>1 DEF Inv, TypeOK
  <1>5. Callers' BY <1>1 DEF Inv, Callers, At
  <1>6. Tasks' BY <1>2, <1>3 DEF Inv, Tasks
  <1>7. Futures' BY <1>1, <1>2, <1>3 DEF Inv, Futures
  <1>8. Waited' BY <1>1 DEF Inv, Waited, At
  <1>9. FramesOutliveTasksOfReturns' BY <1>1, <1>2, <1>3 DEF Inv, FramesOutliveTasksOfReturns
  <1>10. Once' BY <1>1 DEF Inv, Once
  <1>11. Ending' BY <1>1 DEF Inv, Ending
  <1> QED BY <1>4, <1>5, <1>6, <1>7, <1>8, <1>9, <1>10, <1>11 DEF Inv

LEMMA NotifyAllKeeps == ASSUME Inv, NotifyAll PROVE Inv'
  <1>1. /\ pool = "stopping" /\ pool' = "joining" /\ UNCHANGED <<call, queue, future, stop, thrown>>
        /\ worker' = [w \in Workers |-> IF worker[w] = Asleep THEN Checking ELSE worker[w]]
    BY DEF NotifyAll
  <1>2. /\ worker' \in [Workers -> {Asleep, Checking, Exited} \cup Task]
        /\ \A v \in Workers : worker'[v] = worker[v]
                              \/ (worker[v] \notin Task /\ worker'[v] = Checking)
    BY <1>1, PcAssumption DEF Inv, TypeOK
  <1>3. /\ Pending' = Pending /\ Once'
        /\ \A v \in Workers : worker'[v] = Exited => worker[v] = Exited
    BY <1>1, <1>2, WakeKeeps DEF Inv
  <1>4. Pending \subseteq Task /\ DOMAIN future \subseteq Task BY PendingAreTasks DEF Inv, TypeOK
  <1>5. \A k \in Task : IsLive(k)' = IsLive(k) /\ (Enqueued(k) => Enqueued(k)')
    BY <1>1 DEF IsLive, Enqueued, At
  <1>6. TypeOK' BY <1>1, <1>2 DEF Inv, TypeOK
  <1>7. Callers' BY <1>1 DEF Inv, Callers, At
  <1>8. Tasks' BY <1>3, <1>4, <1>5 DEF Inv, Tasks
  <1>9. Futures' BY <1>1, <1>3, <1>4, <1>5 DEF Inv, Futures
  <1>10. Waited' BY <1>1 DEF Inv, Waited, At
  <1>11. FramesOutliveTasksOfReturns' BY <1>1, <1>3, <1>4, <1>5 DEF Inv, FramesOutliveTasksOfReturns
  <1>12. Ending' BY <1>1, <1>3 DEF Inv, Ending
  <1> QED BY <1>3, <1>6, <1>7, <1>8, <1>9, <1>10, <1>11, <1>12 DEF Inv

LEMMA JoinKeeps == ASSUME Inv, Join PROVE Inv'
  <1>1. /\ pool = "joining" /\ pool' = "gone" /\ \A w \in Workers : worker[w] = Exited
        /\ UNCHANGED <<call, queue, worker, future, stop, thrown>>
    BY DEF Join
  <1>2. Pending' = Pending /\ Pending \subseteq Task /\ DOMAIN future \subseteq Task
    BY <1>1, PendingAreTasks DEF Pending, Inv, TypeOK
  <1>3. \A k \in Task : IsLive(k)' = IsLive(k) /\ (Enqueued(k) => Enqueued(k)')
    BY <1>1 DEF IsLive, Enqueued, At
  <1>4. TypeOK' BY <1>1 DEF Inv, TypeOK
  <1>5. Callers' BY <1>1 DEF Inv, Callers, At
  <1>6. Tasks' BY <1>2, <1>3 DEF Inv, Tasks
  <1>7. Futures' BY <1>1, <1>2, <1>3 DEF Inv, Futures
  <1>8. Waited' BY <1>1 DEF Inv, Waited, At
  <1>9. FramesOutliveTasksOfReturns' BY <1>1, <1>2, <1>3 DEF Inv, FramesOutliveTasksOfReturns
  <1>10. Once' BY <1>1 DEF Inv, Once
  <1>11. Ending' BY <1>1 DEF Inv, Ending
  <1> QED BY <1>4, <1>5, <1>6, <1>7, <1>8, <1>9, <1>10, <1>11 DEF Inv

LEMMA StutterKeeps == ASSUME Inv, UNCHANGED vars PROVE Inv'
  <1>1. UNCHANGED <<call, queue, worker, future, stop, pool, thrown>> BY DEF vars
  <1>2. Pending' \subseteq Pending BY <1>1 DEF Pending
  <1>3. TypeOK' BY <1>1 DEF Inv, TypeOK
  <1>4. Once' BY <1>1 DEF Inv, Once
  <1>5. Ending' BY <1>1 DEF Inv, Ending
  <1> QED BY <1>1, <1>2, <1>3, <1>4, <1>5, SameForCalls DEF Inv

--------------------------------------------------------------------------------
(* The theorems.                                                           *)

LEMMA NextKeeps == ASSUME Inv, [Next]_vars PROVE Inv'
  <1>1. CASE \E t \in Threads, kind \in Kinds, n \in 1 .. MaxTasks : Begin(t, kind, n)
    BY <1>1, BeginKeeps
  <1>2. CASE \E t \in Threads : ReadFails(t) BY <1>2, ReadFailsKeeps
  <1>3. CASE \E t \in Threads : Continue(t)
    BY <1>3, EnqueueKeeps, NotifyKeeps, WaitKeeps DEF Continue
  <1>4. CASE \E w \in Workers : Work(w) BY <1>4, CheckKeeps, RunTaskKeeps DEF Work
  <1>5. CASE \E w \in Workers : WakeSpuriously(w) BY <1>5, WakeSpuriouslyKeeps
  <1>6. CASE Stop BY <1>6, StopKeeps
  <1>7. CASE NotifyAll BY <1>7, NotifyAllKeeps
  <1>8. CASE Join BY <1>8, JoinKeeps
  <1>9. CASE UNCHANGED vars BY <1>9, StutterKeeps
  <1> QED BY <1>1, <1>2, <1>3, <1>4, <1>5, <1>6, <1>7, <1>8, <1>9 DEF Next

\* The inductive invariant of callers, queue, workers and futures (4088-4212).
THEOREM PoolInductive == Spec => []Inv
  <1>1. Init => Inv BY InitInv
  <1>2. Inv /\ [Next]_vars => Inv' BY NextKeeps
  <1> QED BY <1>1, <1>2, PTL DEF Spec

\* The types of queue, workers, futures and calls: a thread is always at one of the tasks
\* of its call (4139-4152).
THEOREM PoolTypeOK == Spec => []TypeOK
  <1>1. Inv => TypeOK BY DEF Inv
  <1> QED BY <1>1, PoolInductive, PTL

\* No task outlives the frame of a call of parallel_for() (4152) or prefetch()
\* (8123) that returned.
THEOREM FramesOutliveTheirTasks == Spec => []FramesOutliveTasksOfReturns
  <1>1. Inv => FramesOutliveTasksOfReturns BY DEF Inv
  <1> QED BY <1>1, PoolInductive, PTL

\* ~ThreadPool (4113) leaves no task behind: a worker exits only when the queue is
\* empty, and nothing enters the queue after stop.
THEOREM DrainedAtTheEnd == Spec => []DrainedWhenGone
  <1>1. Inv => DrainedWhenGone
    <2> SUFFICES ASSUME Inv, pool = "gone" PROVE Pending = {} BY DEF DrainedWhenGone
    <2>1. \A w \in Workers : worker[w] = Exited /\ Exited \notin Task
      BY PcAssumption DEF Inv, Ending
    <2>2. queue = <<>> BY <2>1 DEF Inv, Ending
    <2> QED BY <2>1, <2>2 DEF Pending
  <1> QED BY <1>1, PoolInductive, PTL

================================================================================
