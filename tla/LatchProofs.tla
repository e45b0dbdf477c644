---------------------------- MODULE LatchProofs ----------------------------
(***************************************************************************)
(* Proofs about OS::Latch for any finite set of threads and any depth of   *)
(* nesting.  The inductive invariant adds to the properties of Latch what  *)
(* the program counters say about the locks and the wait sets.             *)
(***************************************************************************)
EXTENDS Latch, FiniteSetTheorems, TLAPS

\* Who holds the spin lock and the mutexes, who sleeps, and which call a
\* thread is inside of, all follow from the program counters.
Control ==
  /\ \A t \in Threads : s_spin = t <=> pc[t] \in {"xgate", "sgate"}
  /\ \A t \in Threads : x_gate_lock = t <=> pc[t] = "xcond"
  /\ \A t \in Threads : s_gate_lock = t <=> pc[t] = "scond"
  /\ \A t \in x_gate : pc[t] = "xwait"
  /\ \A t \in s_gate : pc[t] = "swait"
  /\ \A t \in Threads : pc[t] \in {"idle", "xnotify", "snotify"} => op[t] =
     "none"
  /\ \A t \in Threads : pc[t] \in XStage => op[t] \in {"lock", "lock_shared"}
  /\ \A t \in Threads : pc[t] \in SStage => op[t] = "lock"

\* One thread at most is between step 1 and the ownership of X.
OnePending ==
  /\ \A t, u \in Threads : Pending(t) /\ Pending(u) => t = u
  /\ \A t \in Threads :
       Pending(t) => x_flag \in {X_STEP_1, X_STEP_3} /\ x_owner = NoThread

\* A thread that goes to sleep had a reason to when it took the spin lock,
\* and once it gave the spin lock up a change of that reason is notified.
XSleep ==
  /\ \A t \in Threads : pc[t] = "xgate" =>
       x_flag # X_STEP_0 /\ (op[t] = "lock" => x_flag # X_STEP_2)
  /\ x_flag = X_STEP_0 /\ (\E t \in Threads : pc[t] = "xcond" \/ t \in x_gate)
       => \E t \in Threads : pc[t] = "xnotify"
  /\ x_flag = X_STEP_2 =>
       \/ \E t \in Threads : pc[t] = "xnotify"
       \/ \E t \in XRequests :
            pc[t] = "xretry" \/ (pc[t] = "xwait" /\ t \notin x_gate)

SSleep ==
  /\ \A t \in Threads : pc[t] = "sgate" => ~OnlySelf(t)
  /\ \A t \in Threads :
       (pc[t] = "scond" \/ t \in s_gate) /\ OnlySelf(t)
         => \E u \in Threads : pc[u] = "snotify"

IInv == TypeOK /\ Control /\ OnePending /\ Exclusion /\ Reservation
          /\ XSleep /\ SSleep

----------------------------------------------------------------------------
USE ThreadsAssumption, BoundsAssumption
USE DEF X_STEP_0, X_STEP_1, X_STEP_2, X_STEP_3

\* x_wait is the size of a finite set: how it changes when a request joins or
\* leaves that set, and when it is zero.
LEMMA CountedRequests ==
  ASSUME TypeOK, Reservation
  PROVE  /\ IsFiniteSet(XRequests)
         /\ x_wait = 0 <=> XRequests = {}
         /\ \A t \in XRequests :
              x_wait - 1 \in Nat /\ x_wait - 1 = Cardinality(XRequests \ {t})
         /\ \A t \in Threads \ XRequests :
              x_wait + 1 = Cardinality(XRequests \cup {t})
<1>1. IsFiniteSet(XRequests)
  BY FS_Subset DEF XRequests
<1>2. x_wait = 0 <=> XRequests = {}
  BY <1>1, FS_EmptySet DEF Reservation
<1>3. ASSUME NEW t \in XRequests
      PROVE  x_wait - 1 \in Nat /\ x_wait - 1 = Cardinality(XRequests \ {t})
  <2>1. Cardinality(XRequests \ {t}) = Cardinality(XRequests) - 1
    BY <1>1, FS_RemoveElement
  <2>2. x_wait # 0
    BY <1>2, <1>3
  <2> QED BY <2>1, <2>2 DEF Reservation, TypeOK
<1>4. ASSUME NEW t \in Threads \ XRequests
      PROVE  x_wait + 1 = Cardinality(XRequests \cup {t})
  BY <1>1, FS_AddElement DEF Reservation
<1> QED BY <1>1, <1>2, <1>3, <1>4

\* Every step keeps the types; x_wait - 1 stays a natural number because the
\* request that leaves was counted.
LEMMA TypePreserved == ASSUME IInv, Next PROVE TypeOK'
<1> USE DEF IInv, gates, Return, AtXLoop, AtSLoop, TypeOK, PCs, Ops, XStage,
            SStage
<1>1. ASSUME NEW t \in Threads, LockRecursive(t)
      PROVE  TypeOK'
  BY <1>1 DEF LockRecursive
<1>2. ASSUME NEW t \in Threads, LockGrant(t)
      PROVE  TypeOK'
  <2>1. x_wait' \in Nat
    BY <1>2, CountedRequests DEF LockGrant, Requests, XRequests
  <2> QED BY <1>2, <2>1 DEF LockGrant
<1>3. ASSUME NEW t \in Threads, LockPending(t)
      PROVE  TypeOK'
  <2>1. x_wait' \in Nat
    BY <1>3, CountedRequests DEF LockPending, Requests, XRequests
  <2> QED BY <1>3, <2>1 DEF LockPending
<1>4. ASSUME NEW t \in Threads, LockWait(t)
      PROVE  TypeOK'
  BY <1>4 DEF LockWait, Requests
<1>5. ASSUME NEW t \in Threads, LockFinish(t)
      PROVE  TypeOK'
  BY <1>5 DEF LockFinish
<1>6. ASSUME NEW t \in Threads, LockWaitAgain(t)
      PROVE  TypeOK'
  BY <1>6 DEF LockWaitAgain
<1>7. ASSUME NEW t \in Threads, UnlockNested(t)
      PROVE  TypeOK'
  BY <1>7 DEF UnlockNested
<1>8. ASSUME NEW t \in Threads, UnlockLast(t)
      PROVE  TypeOK'
  BY <1>8 DEF UnlockLast, ReleasedFlag
<1>9. ASSUME NEW t \in Threads, XNotify(t)
      PROVE  TypeOK'
  BY <1>9 DEF XNotify
<1>10. ASSUME NEW t \in Threads, LockSharedGrant(t)
      PROVE  TypeOK'
  BY <1>10 DEF LockSharedGrant
<1>11. ASSUME NEW t \in Threads, LockSharedWait(t)
      PROVE  TypeOK'
  BY <1>11 DEF LockSharedWait
<1>12. ASSUME NEW t \in Threads, TryLockShared(t)
      PROVE  TypeOK'
  BY <1>12 DEF TryLockShared
<1>13. ASSUME NEW t \in Threads, UnlockShared(t)
      PROVE  TypeOK'
  BY <1>13 DEF UnlockShared
<1>14. ASSUME NEW t \in Threads, UnlockSharedLast(t)
      PROVE  TypeOK'
  BY <1>14 DEF UnlockSharedLast, FinalizesX
<1>15. ASSUME NEW t \in Threads, SNotify(t)
      PROVE  TypeOK'
  BY <1>15 DEF SNotify
<1>16. ASSUME NEW t \in Threads, XGateEnter(t) \/ XCondWait(t) \/ XWake(t) \/
             XTimeout(t)
      PROVE  TypeOK'
  BY <1>16 DEF XGateEnter, XCondWait, XWake, XTimeout
<1>17. ASSUME NEW t \in Threads, SGateEnter(t) \/ SCondWait(t) \/ SWake(t) \/
             STimeout(t)
      PROVE  TypeOK'
  BY <1>17 DEF SGateEnter, SCondWait, SWake, STimeout
<1> QED BY <1>1, <1>2, <1>3, <1>4, <1>5, <1>6, <1>7, <1>8, <1>9, <1>10, <1>11,
           <1>12, <1>13, <1>14, <1>15, <1>16, <1>17 DEF Next

\* Every step moves the locks and the wait sets together with the program
\* counter.
LEMMA ControlPreserved == ASSUME IInv, Next PROVE Control'
<1> USE DEF IInv, gates, Return, AtXLoop, AtSLoop, TypeOK, Control, PCs,
            XStage, SStage
<1>1. ASSUME NEW t \in Threads, LockRecursive(t)
      PROVE  Control'
  BY <1>1 DEF LockRecursive
<1>2. ASSUME NEW t \in Threads, LockGrant(t)
      PROVE  Control'
  BY <1>2 DEF LockGrant
<1>3. ASSUME NEW t \in Threads, LockPending(t)
      PROVE  Control'
  BY <1>3 DEF LockPending
<1>4. ASSUME NEW t \in Threads, LockWait(t)
      PROVE  Control'
  BY <1>4 DEF LockWait
<1>5. ASSUME NEW t \in Threads, LockFinish(t)
      PROVE  Control'
  BY <1>5 DEF LockFinish
<1>6. ASSUME NEW t \in Threads, LockWaitAgain(t)
      PROVE  Control'
  BY <1>6 DEF LockWaitAgain
<1>7. ASSUME NEW t \in Threads, UnlockNested(t)
      PROVE  Control'
  BY <1>7 DEF UnlockNested
<1>8. ASSUME NEW t \in Threads, UnlockLast(t)
      PROVE  Control'
  BY <1>8 DEF UnlockLast
<1>9. ASSUME NEW t \in Threads, XNotify(t)
      PROVE  Control'
  BY <1>9 DEF XNotify
<1>10. ASSUME NEW t \in Threads, LockSharedGrant(t)
      PROVE  Control'
  BY <1>10 DEF LockSharedGrant
<1>11. ASSUME NEW t \in Threads, LockSharedWait(t)
      PROVE  Control'
  BY <1>11 DEF LockSharedWait
<1>12. ASSUME NEW t \in Threads, TryLockShared(t)
      PROVE  Control'
  BY <1>12 DEF TryLockShared
<1>13. ASSUME NEW t \in Threads, UnlockShared(t)
      PROVE  Control'
  BY <1>13 DEF UnlockShared
<1>14. ASSUME NEW t \in Threads, UnlockSharedLast(t)
      PROVE  Control'
  BY <1>14 DEF UnlockSharedLast
<1>15. ASSUME NEW t \in Threads, SNotify(t)
      PROVE  Control'
  BY <1>15 DEF SNotify
<1>16. ASSUME NEW t \in Threads, XGateEnter(t) \/ XCondWait(t) \/ XWake(t) \/
             XTimeout(t)
      PROVE  Control'
  BY <1>16 DEF XGateEnter, XCondWait, XWake, XTimeout
<1>17. ASSUME NEW t \in Threads, SGateEnter(t) \/ SCondWait(t) \/ SWake(t) \/
             STimeout(t)
      PROVE  Control'
  BY <1>17 DEF SGateEnter, SCondWait, SWake, STimeout
<1> QED BY <1>1, <1>2, <1>3, <1>4, <1>5, <1>6, <1>7, <1>8, <1>9, <1>10, <1>11,
           <1>12, <1>13, <1>14, <1>15, <1>16, <1>17 DEF Next

\* A second thread cannot pass step 1 before the first one is done with X.
LEMMA OnePendingPreserved == ASSUME IInv, Next PROVE OnePending'
<1> USE DEF IInv, gates, Return, AtXLoop, AtSLoop, TypeOK, OnePending, Control,
            Exclusion, Pending, PCs, XStage, SStage, OnlySelf, FinalizesX
<1>1. ASSUME NEW t \in Threads, LockRecursive(t)
      PROVE  OnePending'
  BY <1>1 DEF LockRecursive
<1>2. ASSUME NEW t \in Threads, LockGrant(t)
      PROVE  OnePending'
  BY <1>2 DEF LockGrant
<1>3. ASSUME NEW t \in Threads, LockPending(t)
      PROVE  OnePending'
  BY <1>3 DEF LockPending
<1>4. ASSUME NEW t \in Threads, LockWait(t)
      PROVE  OnePending'
  BY <1>4 DEF LockWait
<1>5. ASSUME NEW t \in Threads, LockFinish(t)
      PROVE  OnePending'
  BY <1>5 DEF LockFinish
<1>6. ASSUME NEW t \in Threads, LockWaitAgain(t)
      PROVE  OnePending'
  BY <1>6 DEF LockWaitAgain
<1>7. ASSUME NEW t \in Threads, UnlockNested(t)
      PROVE  OnePending'
  BY <1>7 DEF UnlockNested
<1>8. ASSUME NEW t \in Threads, UnlockLast(t)
      PROVE  OnePending'
  BY <1>8 DEF UnlockLast
<1>9. ASSUME NEW t \in Threads, XNotify(t)
      PROVE  OnePending'
  BY <1>9 DEF XNotify
<1>10. ASSUME NEW t \in Threads, LockSharedGrant(t)
      PROVE  OnePending'
  BY <1>10 DEF LockSharedGrant
<1>11. ASSUME NEW t \in Threads, LockSharedWait(t)
      PROVE  OnePending'
  BY <1>11 DEF LockSharedWait
<1>12. ASSUME NEW t \in Threads, TryLockShared(t)
      PROVE  OnePending'
  BY <1>12 DEF TryLockShared
<1>13. ASSUME NEW t \in Threads, UnlockShared(t)
      PROVE  OnePending'
  BY <1>13 DEF UnlockShared
<1>14. ASSUME NEW t \in Threads, UnlockSharedLast(t)
      PROVE  OnePending'
  BY <1>14 DEF UnlockSharedLast
<1>15. ASSUME NEW t \in Threads, SNotify(t)
      PROVE  OnePending'
  BY <1>15 DEF SNotify
<1>16. ASSUME NEW t \in Threads, XGateEnter(t) \/ XCondWait(t) \/ XWake(t) \/
             XTimeout(t)
      PROVE  OnePending'
  BY <1>16 DEF XGateEnter, XCondWait, XWake, XTimeout
<1>17. ASSUME NEW t \in Threads, SGateEnter(t) \/ SCondWait(t) \/ SWake(t) \/
             STimeout(t)
      PROVE  OnePending'
  BY <1>17 DEF SGateEnter, SCondWait, SWake, STimeout
<1> QED BY <1>1, <1>2, <1>3, <1>4, <1>5, <1>6, <1>7, <1>8, <1>9, <1>10, <1>11,
           <1>12, <1>13, <1>14, <1>15, <1>16, <1>17 DEF Next

\* No step puts a second thread beside the owner of X.
LEMMA ExclusionPreserved == ASSUME IInv, Next PROVE Exclusion'
<1> USE DEF IInv, gates, Return, AtXLoop, AtSLoop, TypeOK, Exclusion,
            OnePending, Control, Pending, SStage, OnlySelf, SMayPass,
            FinalizesX, ReleasedFlag
<1>1. ASSUME NEW t \in Threads, LockRecursive(t)
      PROVE  Exclusion'
  BY <1>1 DEF LockRecursive
<1>2. ASSUME NEW t \in Threads, LockGrant(t)
      PROVE  Exclusion'
  BY <1>2 DEF LockGrant
<1>3. ASSUME NEW t \in Threads, LockPending(t)
      PROVE  Exclusion'
  BY <1>3 DEF LockPending
<1>4. ASSUME NEW t \in Threads, LockWait(t)
      PROVE  Exclusion'
  BY <1>4 DEF LockWait
<1>5. ASSUME NEW t \in Threads, LockFinish(t)
      PROVE  Exclusion'
  BY <1>5 DEF LockFinish
<1>6. ASSUME NEW t \in Threads, LockWaitAgain(t)
      PROVE  Exclusion'
  BY <1>6 DEF LockWaitAgain
<1>7. ASSUME NEW t \in Threads, UnlockNested(t)
      PROVE  Exclusion'
  BY <1>7 DEF UnlockNested
<1>8. ASSUME NEW t \in Threads, UnlockLast(t)
      PROVE  Exclusion'
  BY <1>8 DEF UnlockLast
<1>9. ASSUME NEW t \in Threads, XNotify(t)
      PROVE  Exclusion'
  BY <1>9 DEF XNotify
<1>10. ASSUME NEW t \in Threads, LockSharedGrant(t)
      PROVE  Exclusion'
  BY <1>10 DEF LockSharedGrant
<1>11. ASSUME NEW t \in Threads, LockSharedWait(t)
      PROVE  Exclusion'
  BY <1>11 DEF LockSharedWait
<1>12. ASSUME NEW t \in Threads, TryLockShared(t)
      PROVE  Exclusion'
  BY <1>12 DEF TryLockShared
<1>13. ASSUME NEW t \in Threads, UnlockShared(t)
      PROVE  Exclusion'
  BY <1>13 DEF UnlockShared
<1>14. ASSUME NEW t \in Threads, UnlockSharedLast(t)
      PROVE  Exclusion'
  BY <1>14 DEF UnlockSharedLast
<1>15. ASSUME NEW t \in Threads, SNotify(t)
      PROVE  Exclusion'
  BY <1>15 DEF SNotify
<1>16. ASSUME NEW t \in Threads, XGateEnter(t) \/ XCondWait(t) \/ XWake(t) \/
             XTimeout(t)
      PROVE  Exclusion'
  BY <1>16 DEF XGateEnter, XCondWait, XWake, XTimeout
<1>17. ASSUME NEW t \in Threads, SGateEnter(t) \/ SCondWait(t) \/ SWake(t) \/
             STimeout(t)
      PROVE  Exclusion'
  BY <1>17 DEF SGateEnter, SCondWait, SWake, STimeout
<1> QED BY <1>1, <1>2, <1>3, <1>4, <1>5, <1>6, <1>7, <1>8, <1>9, <1>10, <1>11,
           <1>12, <1>13, <1>14, <1>15, <1>16, <1>17 DEF Next

\* No step leaves a thread asleep on x_gate that should be awake.
LEMMA XSleepPreserved == ASSUME IInv, Next PROVE XSleep'
<1> USE DEF IInv, gates, Return, AtXLoop, AtSLoop, TypeOK, XSleep, Control,
            Exclusion, Reservation, XRequests, PCs, XStage, SStage, SMayPass,
            FinalizesX, ReleasedFlag
<1>1. ASSUME NEW t \in Threads, LockRecursive(t)
      PROVE  XSleep'
  BY <1>1 DEF LockRecursive
<1>2. ASSUME NEW t \in Threads, LockGrant(t)
      PROVE  XSleep'
  BY <1>2 DEF LockGrant
<1>3. ASSUME NEW t \in Threads, LockPending(t)
      PROVE  XSleep'
  BY <1>3 DEF LockPending
<1>4. ASSUME NEW t \in Threads, LockWait(t)
      PROVE  XSleep'
  BY <1>4 DEF LockWait
<1>5. ASSUME NEW t \in Threads, LockFinish(t)
      PROVE  XSleep'
  BY <1>5 DEF LockFinish
<1>6. ASSUME NEW t \in Threads, LockWaitAgain(t)
      PROVE  XSleep'
  BY <1>6 DEF LockWaitAgain
<1>7. ASSUME NEW t \in Threads, UnlockNested(t)
      PROVE  XSleep'
  BY <1>7 DEF UnlockNested
<1>8. ASSUME NEW t \in Threads, UnlockLast(t)
      PROVE  XSleep'
  BY <1>8 DEF UnlockLast
<1>9. ASSUME NEW t \in Threads, XNotify(t)
      PROVE  XSleep'
  BY <1>9 DEF XNotify
<1>10. ASSUME NEW t \in Threads, LockSharedGrant(t)
      PROVE  XSleep'
  BY <1>10 DEF LockSharedGrant
<1>11. ASSUME NEW t \in Threads, LockSharedWait(t)
      PROVE  XSleep'
  BY <1>11 DEF LockSharedWait
<1>12. ASSUME NEW t \in Threads, TryLockShared(t)
      PROVE  XSleep'
  BY <1>12 DEF TryLockShared
<1>13. ASSUME NEW t \in Threads, UnlockShared(t)
      PROVE  XSleep'
  BY <1>13 DEF UnlockShared
<1>14. ASSUME NEW t \in Threads, UnlockSharedLast(t)
      PROVE  XSleep'
  BY <1>14 DEF UnlockSharedLast
<1>15. ASSUME NEW t \in Threads, SNotify(t)
      PROVE  XSleep'
  BY <1>15 DEF SNotify
<1>16. ASSUME NEW t \in Threads, XGateEnter(t)
      PROVE  XSleep'
  BY <1>16 DEF XGateEnter
<1>17. ASSUME NEW t \in Threads, XCondWait(t)
      PROVE  XSleep'
  BY <1>17 DEF XCondWait
<1>18. ASSUME NEW t \in Threads, XWake(t)
      PROVE  XSleep'
  BY <1>18 DEF XWake
<1>19. ASSUME NEW t \in Threads, XTimeout(t)
      PROVE  XSleep'
  BY <1>19 DEF XTimeout
<1>20. ASSUME NEW t \in Threads, SGateEnter(t) \/ SCondWait(t) \/ SWake(t) \/
             STimeout(t)
      PROVE  XSleep'
  BY <1>20 DEF SGateEnter, SCondWait, SWake, STimeout
<1> QED BY <1>1, <1>2, <1>3, <1>4, <1>5, <1>6, <1>7, <1>8, <1>9, <1>10, <1>11,
           <1>12, <1>13, <1>14, <1>15, <1>16, <1>17, <1>18, <1>19, <1>20 DEF
           Next

\* No step leaves the pending thread asleep on s_gate that should be awake.
LEMMA SSleepPreserved == ASSUME IInv, Next PROVE SSleep'
<1> USE DEF IInv, gates, Return, AtXLoop, AtSLoop, TypeOK, SSleep, Control,
            OnePending, Exclusion, OnlySelf, Pending, PCs, SStage, FinalizesX
<1>1. ASSUME NEW t \in Threads, LockRecursive(t)
      PROVE  SSleep'
  BY <1>1 DEF LockRecursive
<1>2. ASSUME NEW t \in Threads, LockGrant(t)
      PROVE  SSleep'
  BY <1>2 DEF LockGrant
<1>3. ASSUME NEW t \in Threads, LockPending(t)
      PROVE  SSleep'
  BY <1>3 DEF LockPending
<1>4. ASSUME NEW t \in Threads, LockWait(t)
      PROVE  SSleep'
  BY <1>4 DEF LockWait
<1>5. ASSUME NEW t \in Threads, LockFinish(t)
      PROVE  SSleep'
  BY <1>5 DEF LockFinish
<1>6. ASSUME NEW t \in Threads, LockWaitAgain(t)
      PROVE  SSleep'
  BY <1>6 DEF LockWaitAgain
<1>7. ASSUME NEW t \in Threads, UnlockNested(t)
      PROVE  SSleep'
  BY <1>7 DEF UnlockNested
<1>8. ASSUME NEW t \in Threads, UnlockLast(t)
      PROVE  SSleep'
  BY <1>8 DEF UnlockLast
<1>9. ASSUME NEW t \in Threads, XNotify(t)
      PROVE  SSleep'
  BY <1>9 DEF XNotify
<1>10. ASSUME NEW t \in Threads, LockSharedGrant(t)
      PROVE  SSleep'
  BY <1>10 DEF LockSharedGrant
<1>11. ASSUME NEW t \in Threads, LockSharedWait(t)
      PROVE  SSleep'
  BY <1>11 DEF LockSharedWait
<1>12. ASSUME NEW t \in Threads, TryLockShared(t)
      PROVE  SSleep'
  BY <1>12 DEF TryLockShared
<1>13. ASSUME NEW t \in Threads, UnlockShared(t)
      PROVE  SSleep'
  BY <1>13 DEF UnlockShared
<1>14. ASSUME NEW t \in Threads, UnlockSharedLast(t)
      PROVE  SSleep'
  BY <1>14 DEF UnlockSharedLast
<1>15. ASSUME NEW t \in Threads, SNotify(t)
      PROVE  SSleep'
  BY <1>15 DEF SNotify
<1>16. ASSUME NEW t \in Threads, XGateEnter(t) \/ XCondWait(t) \/ XWake(t) \/
             XTimeout(t)
      PROVE  SSleep'
  BY <1>16 DEF XGateEnter, XCondWait, XWake, XTimeout
<1>17. ASSUME NEW t \in Threads, SGateEnter(t)
      PROVE  SSleep'
  BY <1>17 DEF SGateEnter
<1>18. ASSUME NEW t \in Threads, SCondWait(t)
      PROVE  SSleep'
  BY <1>18 DEF SCondWait
<1>19. ASSUME NEW t \in Threads, SWake(t)
      PROVE  SSleep'
  BY <1>19 DEF SWake
<1>20. ASSUME NEW t \in Threads, STimeout(t)
      PROVE  SSleep'
  BY <1>20 DEF STimeout
<1> QED BY <1>1, <1>2, <1>3, <1>4, <1>5, <1>6, <1>7, <1>8, <1>9, <1>10, <1>11,
           <1>12, <1>13, <1>14, <1>15, <1>16, <1>17, <1>18, <1>19, <1>20 DEF
           Next

\* x_wait follows the requests: a step adds the caller to the set, removes
\* it, or leaves the set as it is.
LEMMA ReservationPreserved == ASSUME IInv, Next PROVE Reservation'
<1> USE DEF IInv, gates, Return, AtXLoop, AtSLoop, TypeOK, Reservation,
            Exclusion
<1>1. ASSUME NEW t \in Threads, LockRecursive(t)
      PROVE  Reservation'
  <2>1. XRequests' = XRequests
    BY <1>1 DEF LockRecursive, Control, XRequests, XStage, SStage
  <2> QED BY <1>1, <2>1, CountedRequests DEF LockRecursive
<1>2. ASSUME NEW t \in Threads, LockGrant(t)
      PROVE  Reservation'
  <2>1. XRequests' = XRequests \ {t}
    BY <1>2 DEF LockGrant, Control, XRequests, XStage, SStage
  <2>2. t \in XRequests <=> pc[t] = "xretry"
    BY <1>2 DEF LockGrant, Control, XRequests, XStage, SStage
  <2>3. x_wait' = Cardinality(XRequests')
    <3>1. CASE pc[t] = "xretry"
      <4>1. x_wait' = x_wait - 1
        BY <1>2, <3>1 DEF LockGrant, Requests
      <4> QED BY <2>1, <2>2, <3>1, <4>1, CountedRequests
    <3>2. CASE pc[t] = "idle"
      <4>1. x_wait' = x_wait
        BY <1>2, <3>2 DEF LockGrant, Requests
      <4>2. XRequests' = XRequests
        BY <2>1, <2>2, <3>2
      <4> QED BY <4>1, <4>2
    <3> QED BY <1>2, <3>1, <3>2 DEF LockGrant
  <2> QED BY <2>3, <1>2, <2>1, CountedRequests DEF LockGrant
<1>3. ASSUME NEW t \in Threads, LockPending(t)
      PROVE  Reservation'
  <2>1. XRequests' = XRequests \ {t}
    BY <1>3 DEF LockPending, Control, XRequests, XStage, SStage
  <2>2. t \in XRequests <=> pc[t] = "xretry"
    BY <1>3 DEF LockPending, Control, XRequests, XStage, SStage
  <2>3. x_wait' = Cardinality(XRequests')
    <3>1. CASE pc[t] = "xretry"
      <4>1. x_wait' = x_wait - 1
        BY <1>3, <3>1 DEF LockPending, Requests
      <4> QED BY <2>1, <2>2, <3>1, <4>1, CountedRequests
    <3>2. CASE pc[t] = "idle"
      <4>1. x_wait' = x_wait
        BY <1>3, <3>2 DEF LockPending, Requests
      <4>2. XRequests' = XRequests
        BY <2>1, <2>2, <3>2
      <4> QED BY <4>1, <4>2
    <3> QED BY <1>3, <3>1, <3>2 DEF LockPending
  <2> QED BY <2>3, <1>3, <2>1, CountedRequests DEF LockPending
<1>4. ASSUME NEW t \in Threads, LockWait(t)
      PROVE  Reservation'
  <2>1. XRequests' = XRequests \cup {t}
    BY <1>4 DEF LockWait, Control, XRequests, XStage, SStage
  <2>2. t \in XRequests <=> pc[t] = "xretry"
    BY <1>4 DEF LockWait, Control, XRequests, XStage, SStage
  <2>3. CASE pc[t] = "xretry"
    BY <1>4, <2>1, <2>2, <2>3 DEF LockWait, Requests
  <2>4. CASE pc[t] = "idle"
    BY <1>4, <2>1, <2>2, <2>4, CountedRequests DEF LockWait, Requests
  <2> QED BY <1>4, <2>3, <2>4 DEF LockWait
<1>5. ASSUME NEW t \in Threads, LockFinish(t)
      PROVE  Reservation'
  <2>1. XRequests' = XRequests
    BY <1>5 DEF LockFinish, Control, XRequests, XStage, SStage
  <2> QED BY <1>5, <2>1, CountedRequests DEF LockFinish, OnePending, Pending,
             SStage
<1>6. ASSUME NEW t \in Threads, LockWaitAgain(t)
      PROVE  Reservation'
  <2>1. XRequests' = XRequests
    BY <1>6 DEF LockWaitAgain, Control, XRequests, XStage, SStage
  <2> QED BY <1>6, <2>1, CountedRequests DEF LockWaitAgain
<1>7. ASSUME NEW t \in Threads, UnlockNested(t)
      PROVE  Reservation'
  <2>1. XRequests' = XRequests
    BY <1>7 DEF UnlockNested, Control, XRequests, XStage, SStage
  <2> QED BY <1>7, <2>1, CountedRequests DEF UnlockNested
<1>8. ASSUME NEW t \in Threads, UnlockLast(t)
      PROVE  Reservation'
  <2>1. XRequests' = XRequests
    BY <1>8 DEF UnlockLast, Control, XRequests, XStage, SStage
  <2> QED BY <1>8, <2>1, CountedRequests DEF UnlockLast, ReleasedFlag
<1>9. ASSUME NEW t \in Threads, XNotify(t)
      PROVE  Reservation'
  <2>1. XRequests' = XRequests
    BY <1>9 DEF XNotify, Control, XRequests, XStage, SStage
  <2> QED BY <1>9, <2>1, CountedRequests DEF XNotify
<1>10. ASSUME NEW t \in Threads, LockSharedGrant(t)
      PROVE  Reservation'
  <2>1. XRequests' = XRequests
    BY <1>10 DEF LockSharedGrant, Control, XRequests, XStage, SStage
  <2> QED BY <1>10, <2>1, CountedRequests DEF LockSharedGrant
<1>11. ASSUME NEW t \in Threads, LockSharedWait(t)
      PROVE  Reservation'
  <2>1. XRequests' = XRequests
    BY <1>11 DEF LockSharedWait, Control, XRequests, XStage, SStage
  <2> QED BY <1>11, <2>1, CountedRequests DEF LockSharedWait
<1>12. ASSUME NEW t \in Threads, TryLockShared(t)
      PROVE  Reservation'
  <2>1. XRequests' = XRequests
    BY <1>12 DEF TryLockShared, Control, XRequests, XStage, SStage
  <2> QED BY <1>12, <2>1, CountedRequests DEF TryLockShared
<1>13. ASSUME NEW t \in Threads, UnlockShared(t)
      PROVE  Reservation'
  <2>1. XRequests' = XRequests
    BY <1>13 DEF UnlockShared, Control, XRequests, XStage, SStage
  <2> QED BY <1>13, <2>1, CountedRequests DEF UnlockShared
<1>14. ASSUME NEW t \in Threads, UnlockSharedLast(t)
      PROVE  Reservation'
  <2>1. XRequests' = XRequests
    BY <1>14 DEF UnlockSharedLast, Control, XRequests, XStage, SStage
  <2> QED BY <1>14, <2>1, CountedRequests DEF UnlockSharedLast
<1>15. ASSUME NEW t \in Threads, SNotify(t)
      PROVE  Reservation'
  <2>1. XRequests' = XRequests
    BY <1>15 DEF SNotify, Control, XRequests, XStage, SStage
  <2> QED BY <1>15, <2>1, CountedRequests DEF SNotify
<1>16. ASSUME NEW t \in Threads, XGateEnter(t) \/ XCondWait(t) \/ XWake(t) \/
             XTimeout(t)
      PROVE  Reservation'
  <2>1. XRequests' = XRequests
    BY <1>16 DEF XGateEnter, XCondWait, XWake, XTimeout, Control, XRequests,
       XStage, SStage
  <2> QED BY <1>16, <2>1 DEF XGateEnter, XCondWait, XWake, XTimeout
<1>17. ASSUME NEW t \in Threads, SGateEnter(t) \/ SCondWait(t) \/ SWake(t) \/
             STimeout(t)
      PROVE  Reservation'
  <2>1. XRequests' = XRequests
    BY <1>17 DEF SGateEnter, SCondWait, SWake, STimeout, Control, XRequests,
       XStage, SStage
  <2> QED BY <1>17, <2>1 DEF SGateEnter, SCondWait, SWake, STimeout
<1> QED BY <1>1, <1>2, <1>3, <1>4, <1>5, <1>6, <1>7, <1>8, <1>9, <1>10, <1>11,
           <1>12, <1>13, <1>14, <1>15, <1>16, <1>17 DEF Next

\* The inductive invariant: it holds at first and every step keeps it.
THEOREM InductiveInvariant == Spec => []IInv
<1>1. Init => IInv
  <2> SUFFICES ASSUME Init PROVE IInv
    OBVIOUS
  <2>1. XRequests = {}
    BY DEF Init, XRequests, XStage
  <2>2. TypeOK
    BY DEF Init, TypeOK, PCs, Ops
  <2>3. Control /\ OnePending
    BY DEF Init, Control, OnePending, Pending, XStage, SStage
  <2>4. Exclusion /\ XSleep /\ SSleep
    BY DEF Init, Exclusion, XSleep, SSleep, OnlySelf
  <2>5. Reservation
    BY <2>1, FS_EmptySet DEF Init, Reservation
  <2> QED BY <2>2, <2>3, <2>4, <2>5 DEF IInv
<1>2. IInv /\ [Next]_vars => IInv'
  <2>1. CASE Next
    BY <2>1, TypePreserved, ControlPreserved, OnePendingPreserved,
       ExclusionPreserved, ReservationPreserved, XSleepPreserved,
       SSleepPreserved DEF IInv
  <2>2. CASE UNCHANGED vars
    BY <2>2 DEF vars, IInv, TypeOK, Control, OnePending, Pending, Exclusion,
       OnlySelf, Reservation, XRequests, XSleep, SSleep
  <2> QED BY <2>1, <2>2
<1> QED BY <1>1, <1>2, PTL DEF Spec

\* lock, unlock, lock_shared, unlock_shared and try_lock_shared keep the
\* fields of the latch in their types for any number of threads.
THEOREM TypeCorrect == Spec => []TypeOK
<1>1. IInv => TypeOK
  BY DEF IInv
<1> QED BY <1>1, InductiveInvariant, PTL

\* The owner of X is alone, also when unlock_shared handed X over while the
\* heir was still asleep: lock() and unlock_shared() of any threads.
THEOREM ExclusionHolds == Spec => []Exclusion
<1>1. IInv => Exclusion
  BY DEF IInv
<1> QED BY <1>1, InductiveInvariant, PTL

\* unlock() reserves X (step 2) exactly when a request is in wait for it.
THEOREM ReservationHolds == Spec => []Reservation
<1>1. IInv => Reservation
  BY DEF IInv
<1> QED BY <1>1, InductiveInvariant, PTL

\* The orders "pop gate then unlock spin" and "unlock spin then pop gate"
\* lose no wake-up, whatever the timeout does.
THEOREM NoWakeupIsLost == Spec => []NoLostWakeup
<1>1. IInv => NoLostWakeup
  BY DEF IInv, XSleep, SSleep, TypeOK, NoLostWakeup
<1> QED BY <1>1, InductiveInvariant, PTL

\* The latch implements the recursive shared/exclusive lock: a call takes
\* effect at the step that sets x_owner or the node count, and all the other
\* steps of the waits and notifications are invisible to the callers.
THEOREM Implementation == Spec => ImplementsRWLock
<1>1. Init => RW!Init
  BY DEF Init, RW!Init
<1>2. IInv /\ [Next]_vars => [RW!Next]_(RW!vars)
  <2> SUFFICES ASSUME IInv, [Next]_vars PROVE [RW!Next]_(RW!vars)
    OBVIOUS
  <2> USE DEF RW!vars, IInv, TypeOK, Exclusion, gates, OnlySelf
  <2>1. ASSUME NEW t \in Threads, LockRecursive(t)
        PROVE  RW!AcquireX(t)
    BY <2>1 DEF LockRecursive, RW!AcquireX
  <2>2. ASSUME NEW t \in Threads, LockGrant(t)
        PROVE  RW!AcquireX(t)
    BY <2>2 DEF LockGrant, AtXLoop, RW!AcquireX
  <2>3. ASSUME NEW t \in Threads, LockFinish(t)
        PROVE  RW!AcquireX(t)
    BY <2>3 DEF LockFinish, OnePending, Pending, SStage, RW!AcquireX
  <2>4. ASSUME NEW t \in Threads, UnlockNested(t)
        PROVE  RW!ReleaseX(t) \/ UNCHANGED RW!vars
    BY <2>4 DEF UnlockNested, RW!ReleaseX
  <2>5. ASSUME NEW t \in Threads, UnlockLast(t)
        PROVE  RW!ReleaseX(t)
    BY <2>5 DEF UnlockLast, RW!ReleaseX
  <2>6. ASSUME NEW t \in Threads, LockSharedGrant(t)
        PROVE  RW!AcquireS(t)
    BY <2>6 DEF LockSharedGrant, AtSLoop, SMayPass, RW!AcquireS
  <2>7. ASSUME NEW t \in Threads, TryLockShared(t)
        PROVE  RW!AcquireS(t) \/ UNCHANGED RW!vars
    BY <2>7 DEF TryLockShared, RW!AcquireS
  <2>8. ASSUME NEW t \in Threads, UnlockShared(t)
        PROVE  RW!ReleaseS(t)
    BY <2>8 DEF UnlockShared, RW!ReleaseS
  <2>9. ASSUME NEW t \in Threads, UnlockSharedLast(t)
        PROVE  RW!ReleaseS(t)
    BY <2>9 DEF UnlockSharedLast, FinalizesX, RW!ReleaseS
  <2>10. ASSUME NEW t \in Threads, LockPending(t) \/ LockWait(t) \/
               LockWaitAgain(t) \/ LockSharedWait(t) \/ XNotify(t) \/
               SNotify(t)
        PROVE  UNCHANGED RW!vars
    BY <2>10 DEF LockPending, LockWait, LockWaitAgain, LockSharedWait, XNotify,
       SNotify
  <2>11. ASSUME NEW t \in Threads, XGateEnter(t) \/ XCondWait(t) \/ XWake(t) \/
               XTimeout(t) \/ SGateEnter(t) \/ SCondWait(t) \/ SWake(t) \/
               STimeout(t)
        PROVE  UNCHANGED RW!vars
    BY <2>11 DEF XGateEnter, XCondWait, XWake, XTimeout, SGateEnter, SCondWait,
       SWake, STimeout
  <2>12. CASE UNCHANGED vars
    BY <2>12 DEF vars
  <2> QED BY <2>1, <2>2, <2>3, <2>4, <2>5, <2>6, <2>7, <2>8, <2>9, <2>10,
             <2>11, <2>12 DEF Next, RW!Next
<1> QED BY <1>1, <1>2, InductiveInvariant, PTL DEF Spec, ImplementsRWLock,
           RW!Spec

=============================================================================
