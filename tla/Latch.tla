------------------------------- MODULE Latch -------------------------------
(***************************************************************************)
(* OS::Latch: the recursive shared/exclusive lock that guards the chain,   *)
(* the transfers and every protocol connection of the library              *)
(* (cppmyth/src/private/os/threads/latch.{h,cpp}).                         *)
(*                                                                         *)
(* Any number of threads call lock, unlock, lock_shared, unlock_shared and *)
(* try_lock_shared in any legal order.  The fields of the latch are only   *)
(* touched under its spin lock, so a section that runs from spin_lock to   *)
(* spin_unlock without blocking is one step.  What is not atomic is kept:  *)
(* a thread that must wait takes the gate's mutex while it still holds the *)
(* spin lock ("pop gate then unlock spin"), a thread that notifies takes   *)
(* it after it gave the spin lock up ("unlock spin then pop gate"), and a  *)
(* thread that is woken competes again for the mutex and the spin lock.    *)
(***************************************************************************)
EXTENDS Integers, FiniteSets

CONSTANTS
  Threads,   \* the threads that share the latch
  NoThread,  \* thread_t(0): nobody
  Upgrade,   \* may a thread that holds S alone ask for X (lock() under S)?
  MaxX,      \* bound: how deep a thread nests lock()
  MaxS       \* bound: how deep a thread nests lock_shared()

ASSUME ThreadsAssumption == IsFiniteSet(Threads) /\ NoThread \notin Threads
ASSUME UpgradeAssumption == Upgrade \in BOOLEAN
ASSUME BoundsAssumption == MaxX \in Nat \ {0} /\ MaxS \in Nat \ {0}

VARIABLES
  px,          \* enable X precedence: set by the constructor, then constant
  s_spin,      \* the thread inside the spin lock across a blocking call
  x_owner,     \* the thread that holds X
  x_wait,      \* counts requests in wait for X
  x_flag,      \* X status: 0, 1, 2, 3 or deeper
  s_nodes,     \* recursive count of S per thread: 0 means no node
  x_gate_lock, \* holder of the mutex of x_gate
  s_gate_lock, \* holder of the mutex of s_gate
  x_gate,      \* threads waiting on the condition x_gate
  s_gate,      \* threads waiting on the condition s_gate
  op,          \* the blocking call a thread is inside of
  pc           \* where in that call it is

vars == <<px, s_spin, x_owner, x_wait, x_flag, s_nodes, x_gate_lock,
          s_gate_lock, x_gate, s_gate, op, pc>>

gates == <<x_gate_lock, s_gate_lock, x_gate, s_gate>>

X_STEP_0 == 0
X_STEP_1 == 1
X_STEP_2 == 2
X_STEP_3 == 3

Ops == {"none", "lock", "lock_shared"}

\* gate: holds the spin lock and wants the mutex; cond: holds the mutex and
\* is about to wait; wait: in the wait set or woken from it; retry: wants the
\* spin lock to test the condition again.
XStage == {"xgate", "xcond", "xwait", "xretry"}
SStage == {"sgate", "scond", "swait", "sretry"}
PCs == {"idle", "xnotify", "snotify"} \cup XStage \cup SStage

Init ==
  /\ px \in BOOLEAN
  /\ s_spin = NoThread
  /\ x_owner = NoThread
  /\ x_wait = 0
  /\ x_flag = X_STEP_0
  /\ s_nodes = [t \in Threads |-> 0]
  /\ x_gate_lock = NoThread
  /\ s_gate_lock = NoThread
  /\ x_gate = {}
  /\ s_gate = {}
  /\ op = [t \in Threads |-> "none"]
  /\ pc = [t \in Threads |-> "idle"]

----------------------------------------------------------------------------
\* The thread returns from its call.
Return(t) ==
  /\ pc' = [pc EXCEPT ![t] = "idle"]
  /\ op' = [op EXCEPT ![t] = "none"]

\* The list of S holders is empty or holds the node of t alone.
OnlySelf(t) == \A u \in Threads \ {t} : s_nodes[u] = 0

(***************************************************************************)
(* lock()                                                                  *)
(***************************************************************************)
LockRecursive(t) ==
  /\ pc[t] = "idle"
  /\ s_spin = NoThread
  /\ x_owner = t
  /\ x_flag < X_STEP_2 + MaxX
  /\ x_flag' = x_flag + 1
  /\ UNCHANGED <<px, s_spin, x_owner, x_wait, s_nodes, gates, op, pc>>

\* t is at the head of the first loop of lock(), with the spin lock.
AtXLoop(t) ==
  /\ s_spin = NoThread
  /\ \/ /\ pc[t] = "idle"
        /\ x_owner # t
        /\ Upgrade \/ s_nodes[t] = 0
     \/ /\ pc[t] = "xretry"
        /\ op[t] = "lock"

\* The count of requests in wait, the one of t included.
Requests(t) == IF pc[t] = "idle" THEN x_wait + 1 ELSE x_wait

\* Mutant: X is granted beside the readers.
LockGrantBesideS(t) ==
  /\ AtXLoop(t)
  /\ x_flag \in {X_STEP_0, X_STEP_2}
  /\ x_flag' = X_STEP_3
  /\ x_wait' = Requests(t) - 1
  /\ x_owner' = t
  /\ Return(t)
  /\ UNCHANGED <<px, s_spin, s_nodes, gates>>

\* X is free, or reserved for a request in wait, and no other holds S.
LockGrant(t) ==
  /\ AtXLoop(t)
  /\ x_flag \in {X_STEP_0, X_STEP_2}
  /\ OnlySelf(t)
  /\ x_flag' = X_STEP_3
  /\ x_wait' = Requests(t) - 1
  /\ x_owner' = t
  /\ Return(t)
  /\ UNCHANGED <<px, s_spin, s_nodes, gates>>

\* X is taken at step 1 and waits for the release of S.
LockPending(t) ==
  /\ AtXLoop(t)
  /\ x_flag \in {X_STEP_0, X_STEP_2}
  /\ ~OnlySelf(t)
  /\ x_flag' = X_STEP_1
  /\ x_wait' = Requests(t) - 1
  /\ s_spin' = t
  /\ pc' = [pc EXCEPT ![t] = "sgate"]
  /\ op' = [op EXCEPT ![t] = "lock"]
  /\ UNCHANGED <<px, x_owner, s_nodes, gates>>

\* X belongs to another: wait on x_gate.
LockWait(t) ==
  /\ AtXLoop(t)
  /\ x_flag \notin {X_STEP_0, X_STEP_2}
  /\ x_wait' = Requests(t)
  /\ s_spin' = t
  /\ pc' = [pc EXCEPT ![t] = "xgate"]
  /\ op' = [op EXCEPT ![t] = "lock"]
  /\ UNCHANGED <<px, x_owner, x_flag, s_nodes, gates>>

\* Mutant: back from s_gate, whatever the wake-up, X is taken.
LockFinishUnchecked(t) ==
  /\ pc[t] = "sretry"
  /\ s_spin = NoThread
  /\ x_flag' = X_STEP_3
  /\ x_owner' = t
  /\ Return(t)
  /\ UNCHANGED <<px, s_spin, x_wait, s_nodes, gates>>

\* Back from s_gate: the notifier has handed X over, or S is released.
LockFinish(t) ==
  /\ pc[t] = "sretry"
  /\ s_spin = NoThread
  /\ x_flag = X_STEP_3 \/ OnlySelf(t)
  /\ x_flag' = X_STEP_3
  /\ x_owner' = t
  /\ Return(t)
  /\ UNCHANGED <<px, s_spin, x_wait, s_nodes, gates>>

\* Back from s_gate while others still hold S: wait again.
LockWaitAgain(t) ==
  /\ pc[t] = "sretry"
  /\ s_spin = NoThread
  /\ ~(x_flag = X_STEP_3 \/ OnlySelf(t))
  /\ s_spin' = t
  /\ pc' = [pc EXCEPT ![t] = "sgate"]
  /\ UNCHANGED <<px, x_owner, x_wait, x_flag, s_nodes, gates, op>>

(***************************************************************************)
(* unlock()                                                                *)
(***************************************************************************)
\* Mutant: the owner is not checked.
UnlockAnyOwner(t) ==
  /\ pc[t] = "idle"
  /\ s_spin = NoThread
  /\ x_owner # t \/ x_flag > X_STEP_3
  /\ x_flag' = x_flag - 1
  /\ UNCHANGED <<px, s_spin, x_owner, x_wait, s_nodes, gates, op, pc>>

\* Nested, or called by a thread that does not own X (which changes nothing).
UnlockNested(t) ==
  /\ pc[t] = "idle"
  /\ s_spin = NoThread
  /\ x_owner # t \/ x_flag > X_STEP_3
  /\ x_flag' = IF x_owner = t THEN x_flag - 1 ELSE x_flag
  /\ UNCHANGED <<px, s_spin, x_owner, x_wait, s_nodes, gates, op, pc>>

\* Mutant: X is always left reserved.
AlwaysReserved == X_STEP_2

\* What unlock() leaves when requests are in wait: step 2, else step 0.
ReleasedFlag == IF x_wait = 0 THEN X_STEP_0 ELSE X_STEP_2

UnlockLast(t) ==
  /\ pc[t] = "idle"
  /\ s_spin = NoThread
  /\ x_owner = t
  /\ x_flag = X_STEP_3
  /\ x_owner' = NoThread
  /\ x_flag' = ReleasedFlag
  /\ pc' = [pc EXCEPT ![t] = "xnotify"]
  /\ UNCHANGED <<px, s_spin, x_wait, s_nodes, gates, op>>

\* The trailing mutex_lock, cond_broadcast, mutex_unlock on x_gate.
XNotify(t) ==
  /\ pc[t] = "xnotify"
  /\ x_gate_lock = NoThread
  /\ x_gate' = {}
  /\ pc' = [pc EXCEPT ![t] = "idle"]
  /\ UNCHANGED <<px, s_spin, x_owner, x_wait, x_flag, s_nodes, x_gate_lock,
                 s_gate_lock, s_gate, op>>

(***************************************************************************)
(* lock_shared()                                                           *)
(***************************************************************************)
\* Mutant: readers pass a pending request for X.
SMayPassPending(t) == x_owner = t \/ x_flag < X_STEP_2

\* S is granted with no wait: t owns X, or X is not in the way.
SMayPass(t) ==
  \/ x_owner = t
  \/ ~px /\ x_flag < X_STEP_2
  \/ px /\ (x_flag = X_STEP_0 \/ (x_flag = X_STEP_1 /\ s_nodes[t] > 0))

AtSLoop(t) ==
  /\ s_spin = NoThread
  /\ \/ pc[t] = "idle" /\ s_nodes[t] < MaxS
     \/ pc[t] = "xretry" /\ op[t] = "lock_shared"

LockSharedGrant(t) ==
  /\ AtSLoop(t)
  /\ SMayPass(t)
  /\ s_nodes' = [s_nodes EXCEPT ![t] = @ + 1]
  /\ Return(t)
  /\ UNCHANGED <<px, s_spin, x_owner, x_wait, x_flag, gates>>

LockSharedWait(t) ==
  /\ AtSLoop(t)
  /\ ~SMayPass(t)
  /\ s_spin' = t
  /\ pc' = [pc EXCEPT ![t] = "xgate"]
  /\ op' = [op EXCEPT ![t] = "lock_shared"]
  /\ UNCHANGED <<px, x_owner, x_wait, x_flag, s_nodes, gates>>

\* try_lock_shared(): it never waits.
TryLockShared(t) ==
  /\ pc[t] = "idle"
  /\ s_spin = NoThread
  /\ s_nodes[t] < MaxS
  /\ s_nodes' = IF x_flag = X_STEP_0 \/ x_owner = t
                THEN [s_nodes EXCEPT ![t] = @ + 1]
                ELSE s_nodes
  /\ UNCHANGED <<px, s_spin, x_owner, x_wait, x_flag, gates, op, pc>>

(***************************************************************************)
(* unlock_shared(); the code asserts that the caller has a node.           *)
(***************************************************************************)
\* Does this call free the last node of t while X waits for S?
FinalizesX(t) == s_nodes[t] = 1 /\ x_flag = X_STEP_1 /\ x_owner # t

UnlockShared(t) ==
  /\ pc[t] = "idle"
  /\ s_spin = NoThread
  /\ s_nodes[t] > 0
  /\ ~FinalizesX(t)
  /\ s_nodes' = [s_nodes EXCEPT ![t] = @ - 1]
  /\ UNCHANGED <<px, s_spin, x_owner, x_wait, x_flag, gates, op, pc>>

\* On the last S of all, X is handed over to the pending request.
UnlockSharedLast(t) ==
  /\ pc[t] = "idle"
  /\ s_spin = NoThread
  /\ FinalizesX(t)
  /\ s_nodes' = [s_nodes EXCEPT ![t] = 0]
  /\ x_flag' = IF OnlySelf(t) THEN X_STEP_3 ELSE x_flag
  /\ pc' = [pc EXCEPT ![t] = "snotify"]
  /\ UNCHANGED <<px, s_spin, x_owner, x_wait, gates, op>>

\* The trailing mutex_lock, cond_signal, mutex_unlock on s_gate.
SNotify(t) ==
  /\ pc[t] = "snotify"
  /\ s_gate_lock = NoThread
  /\ \/ s_gate = {} /\ UNCHANGED s_gate
     \/ \E u \in s_gate : s_gate' = s_gate \ {u}
  /\ pc' = [pc EXCEPT ![t] = "idle"]
  /\ UNCHANGED <<px, s_spin, x_owner, x_wait, x_flag, s_nodes, x_gate_lock,
                 s_gate_lock, x_gate, op>>

(***************************************************************************)
(* The gates: mutex_lock, spin_unlock, cond_timedwait, mutex_unlock.       *)
(***************************************************************************)
\* Mutant: the spin lock is freed with no mutex held.
XGateEnterUnlocked(t) ==
  /\ pc[t] = "xgate"
  /\ s_spin' = NoThread
  /\ pc' = [pc EXCEPT ![t] = "xcond"]
  /\ UNCHANGED <<px, x_owner, x_wait, x_flag, s_nodes, gates, op>>

\* "pop gate then unlock spin": the mutex is taken before the spin is freed.
XGateEnter(t) ==
  /\ pc[t] = "xgate"
  /\ x_gate_lock = NoThread
  /\ x_gate_lock' = t
  /\ s_spin' = NoThread
  /\ pc' = [pc EXCEPT ![t] = "xcond"]
  /\ UNCHANGED <<px, x_owner, x_wait, x_flag, s_nodes, s_gate_lock, x_gate,
                 s_gate, op>>

XCondWait(t) ==
  /\ pc[t] = "xcond"
  /\ x_gate' = x_gate \cup {t}
  /\ x_gate_lock' = NoThread
  /\ pc' = [pc EXCEPT ![t] = "xwait"]
  /\ UNCHANGED <<px, s_spin, x_owner, x_wait, x_flag, s_nodes, s_gate_lock,
                 s_gate, op>>

\* cond_timedwait returns with the mutex, which is released at once.
XWake(t) ==
  /\ pc[t] = "xwait"
  /\ t \notin x_gate
  /\ x_gate_lock = NoThread
  /\ pc' = [pc EXCEPT ![t] = "xretry"]
  /\ UNCHANGED <<px, s_spin, x_owner, x_wait, x_flag, s_nodes, gates, op>>

\* EXIT_TIMEOUT elapses, or the condition variable wakes spuriously.
XTimeout(t) ==
  /\ t \in x_gate
  /\ x_gate' = x_gate \ {t}
  /\ UNCHANGED <<px, s_spin, x_owner, x_wait, x_flag, s_nodes, x_gate_lock,
                 s_gate_lock, s_gate, op, pc>>

SGateEnter(t) ==
  /\ pc[t] = "sgate"
  /\ s_gate_lock = NoThread
  /\ s_gate_lock' = t
  /\ s_spin' = NoThread
  /\ pc' = [pc EXCEPT ![t] = "scond"]
  /\ UNCHANGED <<px, x_owner, x_wait, x_flag, s_nodes, x_gate_lock, x_gate,
                 s_gate, op>>

SCondWait(t) ==
  /\ pc[t] = "scond"
  /\ s_gate' = s_gate \cup {t}
  /\ s_gate_lock' = NoThread
  /\ pc' = [pc EXCEPT ![t] = "swait"]
  /\ UNCHANGED <<px, s_spin, x_owner, x_wait, x_flag, s_nodes, x_gate_lock,
                 x_gate, op>>

SWake(t) ==
  /\ pc[t] = "swait"
  /\ t \notin s_gate
  /\ s_gate_lock = NoThread
  /\ pc' = [pc EXCEPT ![t] = "sretry"]
  /\ UNCHANGED <<px, s_spin, x_owner, x_wait, x_flag, s_nodes, gates, op>>

STimeout(t) ==
  /\ t \in s_gate
  /\ s_gate' = s_gate \ {t}
  /\ UNCHANGED <<px, s_spin, x_owner, x_wait, x_flag, s_nodes, x_gate_lock,
                 s_gate_lock, x_gate, op, pc>>

----------------------------------------------------------------------------
Next ==
  \E t \in Threads :
    \/ LockRecursive(t) \/ LockGrant(t) \/ LockPending(t) \/ LockWait(t)
    \/ LockFinish(t) \/ LockWaitAgain(t)
    \/ UnlockNested(t) \/ UnlockLast(t) \/ XNotify(t)
    \/ LockSharedGrant(t) \/ LockSharedWait(t) \/ TryLockShared(t)
    \/ UnlockShared(t) \/ UnlockSharedLast(t) \/ SNotify(t)
    \/ XGateEnter(t) \/ XCondWait(t) \/ XWake(t) \/ XTimeout(t)
    \/ SGateEnter(t) \/ SCondWait(t) \/ SWake(t) \/ STimeout(t)

Spec == Init /\ [][Next]_vars

(***************************************************************************)
(* Fairness.  A thread that can run does run, and cond_timedwait returns.  *)
(* A thread inside a call that keeps asking for the spin lock or for the   *)
(* mutex of a gate, which are free again and again, gets it: spin_lock     *)
(* yields and asks again, and waits are a second long.  The callers do not *)
(* keep S for ever: a nested lock_shared is released, and so is the last   *)
(* one.  Nothing is assumed of the callers that hold X.                    *)
(***************************************************************************)
\* The step by which a thread that asks for the spin lock or a mutex goes on.
Proceed(t) ==
  \/ /\ pc[t] \in {"xretry", "sretry"}
     /\ \/ LockGrant(t) \/ LockPending(t) \/ LockWait(t)
        \/ LockFinish(t) \/ LockWaitAgain(t)
        \/ LockSharedGrant(t) \/ LockSharedWait(t)
  \/ XGateEnter(t) \/ XWake(t) \/ XNotify(t)
  \/ SGateEnter(t) \/ SWake(t) \/ SNotify(t)

ReleaseS(t) == UnlockShared(t) \/ UnlockSharedLast(t)

ThreadFairness(t) ==
  /\ SF_vars(Proceed(t))
  /\ WF_vars(XCondWait(t)) /\ WF_vars(SCondWait(t))
  /\ WF_vars(XTimeout(t)) /\ WF_vars(STimeout(t))

ClientFairness(t) ==
  /\ SF_vars(ReleaseS(t))
  /\ SF_vars(ReleaseS(t) /\ s_nodes[t] = 1)

FairSpec == Spec /\ \A t \in Threads : ThreadFairness(t) /\ ClientFairness(t)

----------------------------------------------------------------------------
(***************************************************************************)
(* Properties                                                              *)
(***************************************************************************)
\* The types of the variables.
TypeOK ==
  /\ px \in BOOLEAN
  /\ s_spin \in Threads \cup {NoThread}
  /\ x_owner \in Threads \cup {NoThread}
  /\ x_wait \in Nat
  /\ x_flag \in Nat
  /\ s_nodes \in [Threads -> Nat]
  /\ x_gate_lock \in Threads \cup {NoThread}
  /\ s_gate_lock \in Threads \cup {NoThread}
  /\ x_gate \in SUBSET Threads
  /\ s_gate \in SUBSET Threads
  /\ op \in [Threads -> Ops]
  /\ pc \in [Threads -> PCs]

\* The requests that lock() counts in x_wait: threads in its first loop.
XRequests == {t \in Threads : op[t] = "lock" /\ pc[t] \in XStage}

\* The thread that took X at step 1 and waits for the release of S.
Pending(t) == pc[t] \in SStage

\* Exclusion: the owner of X is alone, and X handed over by unlock_shared
\* (step 3 without an owner) is handed over only when nobody holds S.
Exclusion ==
  /\ x_owner # NoThread => x_flag >= X_STEP_3 /\ OnlySelf(x_owner)
  /\ x_flag >= X_STEP_3 /\ x_owner = NoThread
       => \A t \in Threads : s_nodes[t] = 0

\* x_wait counts exactly the requests in wait, so unlock() neither reserves
\* X for a request that left (step 2 with nobody to take it: a latch no one
\* can lock shared again) nor frees X under one that waits.
Reservation ==
  /\ x_wait = Cardinality(XRequests)
  /\ x_flag = X_STEP_2 => XRequests # {}
  /\ x_flag = X_STEP_0 => XRequests = {}

\* No wake-up is lost, whatever the timeout does: X reserved (step 2) has an
\* heir that is awake or about to be notified; no reader sleeps beside a free
\* latch unless a notification is due; a pending request does not sleep once
\* S is released unless a notification is due.
NoLostWakeup ==
  /\ x_flag = X_STEP_2 =>
       \/ \E t \in Threads : pc[t] = "xnotify"
       \/ \E t \in XRequests :
            pc[t] = "xretry" \/ (pc[t] = "xwait" /\ t \notin x_gate)
  /\ x_flag = X_STEP_0 /\ x_gate # {} => \E t \in Threads : pc[t] = "xnotify"
  /\ \A t \in s_gate : OnlySelf(t) => \E u \in Threads : pc[u] = "snotify"

\* The latch implements the shared/exclusive lock.
RW == INSTANCE RWLock WITH
        holder <- x_owner,
        xdepth <- IF x_owner = NoThread THEN 0 ELSE x_flag - X_STEP_2,
        sdepth <- s_nodes

ImplementsRWLock == RW!Spec

\* X precedence: with px, a request that took X at step 1 gets it, however
\* many readers come and go.
PendingServed == \A t \in Threads : (px /\ Pending(t)) ~> (x_owner = t)

\* A reserved X is taken: the latch does not stay closed at step 2.
ReservedTaken == (x_flag = X_STEP_2) ~> (x_flag # X_STEP_2)

=============================================================================
