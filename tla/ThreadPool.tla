----------------------------- MODULE ThreadPool -----------------------------
(***************************************************************************)
(* The pool of threads (cppmyth/src/private/os/threads/threadpool.cpp).    *)
(* Workers are queued; threads are made for them up to m_maxSize, look for *)
(* more, wait once for the time m_keepAlive, look again and leave.         *)
(*                                                                         *)
(* The critical sections of m_mutex are single steps.  Workers are not     *)
(* told apart: m_queue is their number.  m_pool is the linked list of the  *)
(* threads, the newest first, and m_poolSize its length.                   *)
(***************************************************************************)
EXTENDS Integers, Sequences, FiniteSetsExt, Event

CONSTANTS
  Sizes,     \* the sizes the application sets
  MaxSize,   \* the greatest of them
  MaxQueue,  \* bound: workers in the queue
  MaxCalls,  \* bound: calls of the application
  MaxFail    \* bound: failures of thread_create

ASSUME PoolAssumption ==
  /\ MaxSize \in Nat /\ Sizes \subseteq 0..MaxSize /\ Sizes # {}
  /\ {MaxQueue, MaxCalls, MaxFail} \subseteq Nat

VARIABLES
  m_maxSize, m_queue, m_pool, m_waitingCount,
  m_stopped, m_suspended, m_empty,
  m_queueFill, m_queueEmpty,
  th,        \* the threads: [pc, notifiedStop, waiting]
  waiter,    \* a thread of the application that waits for an empty queue
  destroyer, \* the destructor: not called, waiting, done
  missed,    \* history: the pool counted on a thread that was to leave
  calls, fails

settings == <<m_maxSize, m_stopped, m_suspended>>
work == <<m_queue, m_waitingCount>>
events == <<m_queueFill, m_queueEmpty>>
bounds == <<calls, fails>>
vars == <<settings, work, events, m_pool, m_empty, th, waiter, destroyer, missed, bounds>>

Threads == 1..MaxSize
NoThread == [pc |-> "none", notifiedStop |-> FALSE, waiting |-> FALSE]
Started == [NoThread EXCEPT !.pc = "loop"]
Pooled == Range(m_pool)

Init ==
  /\ m_maxSize \in Sizes
  /\ m_queue = 0 /\ m_pool = <<>> /\ m_waitingCount = 0
  /\ m_stopped = FALSE /\ m_suspended = FALSE /\ m_empty = FALSE
  /\ m_queueFill = NewEvent /\ m_queueEmpty = NewEvent
  /\ th = [t \in Threads |-> NoThread]
  /\ waiter = "idle" /\ destroyer = "none"
  /\ missed = FALSE
  /\ calls = MaxCalls /\ fails = MaxFail

Call == destroyer = "none" /\ calls > 0 /\ calls' = calls - 1

----------------------------------------------------------------------------
(***************************************************************************)
(* A thread                                                                *)
(***************************************************************************)
Goes(t, pc) == th' = [th EXCEPT ![t].pc = pc]

CheckStopped(t) ==
  /\ th[t].pc = "loop"
  /\ Goes(t, IF th[t].notifiedStop THEN "leave" ELSE "pop")
  /\ UNCHANGED <<settings, work, events, m_pool, m_empty, waiter, destroyer, missed, bounds>>

\* The second time it finds nothing, it leaves. The event that the queue is
\* empty is notified before it is looked at.
pop_queue(t) ==
  /\ th[t].pc = "pop"
  /\ m_queueEmpty' = IF m_suspended THEN m_queueEmpty ELSE notify_one(m_queueEmpty)
  /\ IF ~m_suspended /\ m_queue > 0
     THEN m_queue' = m_queue - 1 /\ Goes(t, "work")
     ELSE UNCHANGED m_queue /\ Goes(t, IF th[t].waiting THEN "leave" ELSE "wait")
  /\ UNCHANGED <<settings, m_waitingCount, m_queueFill, m_pool, m_empty,
                 waiter, destroyer, missed, bounds>>

\* External: the worker's process returns.
process(t) ==
  /\ th[t].pc = "work"
  /\ th' = [th EXCEPT ![t].pc = "loop", ![t].waiting = FALSE]
  /\ UNCHANGED <<settings, work, events, m_pool, m_empty, waiter, destroyer, missed, bounds>>

wait_queue(t) ==
  /\ th[t].pc = "wait"
  /\ m_waitingCount' = m_waitingCount + 1
  /\ Goes(t, "enter")
  /\ UNCHANGED <<settings, m_queue, events, m_pool, m_empty, waiter, destroyer, missed, bounds>>

EnterWait(t) ==
  /\ th[t].pc = "enter"
  /\ IF m_queueFill.notified
     THEN m_queueFill' = Notified(Waiting(m_queueFill)) /\ Goes(t, "woken")
     ELSE m_queueFill' = Waiting(m_queueFill) /\ Goes(t, "asleep")
  /\ UNCHANGED <<settings, work, m_queueEmpty, m_pool, m_empty, waiter, destroyer, missed, bounds>>

\* Notified, or the time is up.
Wake(t) ==
  /\ th[t].pc = "asleep"
  /\ m_queueFill' = IF m_queueFill.notified THEN Notified(m_queueFill) ELSE TimedOut(m_queueFill)
  /\ Goes(t, "woken")
  /\ UNCHANGED <<settings, work, m_queueEmpty, m_pool, m_empty, waiter, destroyer, missed, bounds>>

\* Mutant: one that waited does not look again.
WaitedLeaves(t) ==
  /\ th[t].pc = "woken"
  /\ m_waitingCount' = m_waitingCount - 1
  /\ th' = [th EXCEPT ![t].pc = "leave", ![t].waiting = TRUE]
  /\ UNCHANGED <<settings, m_queue, events, m_pool, m_empty, waiter, destroyer, missed, bounds>>

Waited(t) ==
  /\ th[t].pc = "woken"
  /\ m_waitingCount' = m_waitingCount - 1
  /\ th' = [th EXCEPT ![t].pc = "loop", ![t].waiting = TRUE]
  /\ UNCHANGED <<settings, m_queue, events, m_pool, m_empty, waiter, destroyer, missed, bounds>>

\* Out of the linked list: its neighbours are linked.
Unchained(t) ==
  LET i == CHOOSE k \in DOMAIN m_pool : m_pool[k] = t
  IN [k \in 1..Len(m_pool) - 1 |-> IF k < i THEN m_pool[k] ELSE m_pool[k + 1]]

\* Mutant: the last one does not say so.
finalizeQuiet(t) ==
  /\ th[t].pc = "leave"
  /\ m_pool' = Unchained(t)
  /\ th' = [th EXCEPT ![t] = NoThread]
  /\ UNCHANGED <<settings, work, events, m_empty, waiter, destroyer, missed, bounds>>

\* The last one tells that the pool is empty.
finalize(t) ==
  /\ th[t].pc = "leave"
  /\ m_pool' = Unchained(t)
  /\ m_empty' = (m_empty \/ m_pool' = <<>>)
  /\ th' = [th EXCEPT ![t] = NoThread]
  /\ UNCHANGED <<settings, work, events, waiter, destroyer, missed, bounds>>

ThreadStep(t) ==
  \/ CheckStopped(t) \/ pop_queue(t) \/ process(t) \/ wait_queue(t)
  \/ EnterWait(t) \/ Wake(t) \/ Waited(t) \/ finalize(t)

----------------------------------------------------------------------------
(***************************************************************************)
(* The application                                                         *)
(***************************************************************************)
\* A thread that will not look at the queue again, or only once more.
Leaving(t) == th[t].pc = "leave" \/ th[t].notifiedStop

\* The threads told to stop: the newest.
Excess(size) == {m_pool[i] : i \in 1..Len(m_pool) - size}

\* How many threads __resize makes, if none fails.
Wanting(size, queue) ==
  IF Len(m_pool) < size THEN Min({queue, size - Len(m_pool)}) ELSE 0

\* Any c threads that are not in use.
Fresh(c) == CHOOSE s \in [1..c -> Threads \ Pooled] : IsInjective(s)

__resize(size, queue) ==
  \E c \in 0..Wanting(size, queue) :
    /\ IF c < Wanting(size, queue) THEN fails > 0 /\ fails' = fails - 1 ELSE UNCHANGED fails
    /\ m_pool' = Fresh(c) \o m_pool
    /\ m_empty' \in {m_empty, m_empty \/ (m_pool = <<>> /\ c < Wanting(size, queue))}
    /\ th' = [t \in Threads |->
                IF t \in Range(Fresh(c)) THEN Started
                ELSE [th[t] EXCEPT !.notifiedStop = @ \/ t \in Excess(size)]]
    /\ m_queueFill' = IF Len(m_pool) > size /\ m_waitingCount > 0
                      THEN notify_all(m_queueFill) ELSE m_queueFill
    /\ missed' = (missed \/ c < Wanting(size, queue) \/ \E t \in Pooled : Leaving(t))

\* What is stopped takes no worker. A thread that waits is woken for it; else a
\* thread is made.
enqueue ==
  /\ Call
  /\ m_queue < MaxQueue
  /\ ~m_stopped
  /\ m_queue' = m_queue + 1
  /\ IF ~m_suspended /\ m_waitingCount = 0
     THEN __resize(m_maxSize, m_queue + 1)
     ELSE /\ m_queueFill' = IF m_suspended THEN m_queueFill ELSE notify_one(m_queueFill)
          /\ missed' = (missed \/ (~m_suspended /\ \E t \in Pooled : Leaving(t)))
          /\ UNCHANGED <<m_pool, m_empty, th, fails>>
  /\ UNCHANGED <<settings, m_waitingCount, m_queueEmpty, waiter, destroyer>>

set_max_size ==
  /\ Call
  /\ m_maxSize' \in Sizes
  /\ IF m_suspended THEN UNCHANGED <<m_pool, m_empty, th, m_queueFill, missed, fails>>
     ELSE __resize(m_maxSize', m_queue)
  /\ UNCHANGED <<m_stopped, m_suspended, work, m_queueEmpty, waiter, destroyer>>

suspend ==
  /\ Call
  /\ m_suspended' = TRUE
  /\ UNCHANGED <<m_maxSize, m_stopped, work, events, m_pool, m_empty, th,
                 waiter, destroyer, missed, fails>>

resume ==
  /\ Call
  /\ m_suspended' = FALSE
  /\ __resize(m_maxSize, m_queue)
  /\ UNCHANGED <<m_maxSize, m_stopped, work, m_queueEmpty, waiter, destroyer>>

reset ==
  /\ Call
  /\ m_stopped' = TRUE
  /\ m_queue' = 0
  /\ UNCHANGED <<m_maxSize, m_suspended, m_waitingCount, events, m_pool, m_empty, th,
                 waiter, destroyer, missed, fails>>

\* stop and start.
SetStopped ==
  /\ Call
  /\ m_stopped' \in BOOLEAN
  /\ UNCHANGED <<m_maxSize, m_suspended, work, events, m_pool, m_empty, th,
                 waiter, destroyer, missed, fails>>

\* With and without a time-out.
wait_empty ==
  /\ waiter = "idle"
  /\ Call
  /\ waiter' \in IF m_queue = 0 THEN {"idle"} ELSE {"enter", "enter_for"}
  /\ UNCHANGED <<settings, work, events, m_pool, m_empty, th, destroyer, missed, fails>>

WaitEmpty ==
  /\ \/ /\ waiter \in {"enter", "enter_for"}
        /\ IF m_queueEmpty.notified
           THEN m_queueEmpty' = Notified(Waiting(m_queueEmpty)) /\ waiter' = "idle"
           ELSE m_queueEmpty' = Waiting(m_queueEmpty)
                /\ waiter' = IF waiter = "enter" THEN "asleep" ELSE "asleep_for"
     \/ /\ waiter \in {"asleep", "asleep_for"}
        /\ m_queueEmpty.notified \/ waiter = "asleep_for"
        /\ m_queueEmpty' = IF m_queueEmpty.notified THEN Notified(m_queueEmpty)
                           ELSE TimedOut(m_queueEmpty)
        /\ waiter' = "idle"
  /\ UNCHANGED <<settings, work, m_queueFill, m_pool, m_empty, th, destroyer, missed, bounds>>

\* Mutant: m_empty may be what it was when the pool was empty before.
DestroyStale ==
  /\ destroyer = "none" /\ waiter = "idle"
  /\ m_stopped' = TRUE
  /\ m_queue' = 0
  /\ destroyer' = IF m_pool = <<>> THEN "done" ELSE "wait"
  /\ th' = [t \in Threads |-> [th[t] EXCEPT !.notifiedStop = @ \/ t \in Pooled]]
  /\ m_queueFill' = notify_all(m_queueFill)
  /\ UNCHANGED <<m_maxSize, m_suspended, m_waitingCount, m_queueEmpty, m_pool, waiter,
                 m_empty, missed, bounds>>

\* The destructor: nobody else uses the pool any more.
Destroy ==
  /\ destroyer = "none" /\ waiter = "idle"
  /\ m_stopped' = TRUE
  /\ m_queue' = 0
  /\ IF m_pool = <<>>
     THEN destroyer' = "done" /\ UNCHANGED <<m_empty, th, m_queueFill>>
     ELSE /\ destroyer' = "wait"
          /\ m_empty' = FALSE
          /\ th' = [t \in Threads |-> [th[t] EXCEPT !.notifiedStop = @ \/ t \in Pooled]]
          /\ m_queueFill' = notify_all(m_queueFill)
  /\ UNCHANGED <<m_maxSize, m_suspended, m_waitingCount, m_queueEmpty, m_pool, waiter,
                 missed, bounds>>

Destroyed ==
  /\ destroyer = "wait"
  /\ m_empty
  /\ destroyer' = "done"
  /\ UNCHANGED <<settings, work, events, m_pool, m_empty, th, waiter, missed, bounds>>

Next ==
  \/ enqueue \/ set_max_size \/ suspend \/ resume \/ reset \/ SetStopped
  \/ wait_empty \/ WaitEmpty \/ Destroy \/ Destroyed
  \/ \E t \in Threads : ThreadStep(t)

Spec == Init /\ [][Next]_vars

\* The threads run, the workers they process return.
FairSpec == Spec /\ WF_vars(Destroyed) /\ \A t \in Threads : WF_vars(ThreadStep(t))

----------------------------------------------------------------------------
(***************************************************************************)
(* Properties                                                              *)
(***************************************************************************)
\* The types; m_waitingCount is the number of threads between the two halves of
\* wait_queue, and no thread is left once the pool is destroyed.
TypeOK ==
  /\ m_maxSize \in Sizes /\ m_queue \in Nat
  /\ m_pool \in Seq(Threads) /\ IsInjective(m_pool)
  /\ {m_stopped, m_suspended, m_empty, missed} \subseteq BOOLEAN
  /\ \A t \in Threads : th[t].pc # "none" <=> t \in Pooled
  /\ m_waitingCount = Cardinality({t \in Threads : th[t].pc \in {"enter", "asleep", "woken"}})
  /\ m_queueFill.waitingCount = Cardinality({t \in Threads : th[t].pc = "asleep"})
  /\ destroyer \in {"none", "wait", "done"}
  /\ destroyer = "done" => Pooled = {}

\* No worker is forgotten: while the queue of a pool that is not suspended holds
\* one, a thread will look at it. The exception is a thread that had decided to
\* leave, or was told to, and was still counted when the worker was queued or
\* the pool resized: enqueue then makes none in its place. (Or none could be
\* made.)
NoneForgotten ==
  m_queue > 0 /\ ~m_suspended /\ m_maxSize > 0 /\ ~missed =>
    \E t \in Pooled : ~Leaving(t)

\* The destructor returns: every thread hears of the stop, wherever it is in its
\* wait, and the last one wakes the destructor.
DestructorReturns == destroyer = "wait" ~> destroyer = "done"

=============================================================================
