-------------------------- MODULE ThreadPoolProofs --------------------------
(***************************************************************************)
(* Proofs about the pool of threads, for any sizes, number of workers,     *)
(* calls and failures: the bookkeeping of the pool, and that no worker is  *)
(* forgotten.                                                              *)
(***************************************************************************)
EXTENDS ThreadPool, SequenceTheorems, FiniteSetTheorems, TLAPS

----------------------------------------------------------------------------
(***************************************************************************)
(* Lists of different threads                                              *)
(***************************************************************************)
Lists == {s \in Seq(Threads) : IsInjective(s)}

LEMMA ThreadsFinite ==
  ASSUME PoolAssumption
  PROVE  IsFiniteSet(Threads) /\ Cardinality(Threads) = MaxSize
<1>1. MaxSize \in Nat
  BY DEF PoolAssumption
<1>2. 1 \in Int /\ MaxSize \in Int
  BY <1>1
<1>3. /\ IsFiniteSet(1..MaxSize)
      /\ Cardinality(1..MaxSize) = IF 1 > MaxSize THEN 0 ELSE MaxSize - 1 + 1
  BY <1>2, FS_Interval
<1>. QED
  BY <1>1, <1>3 DEF Threads

\* A list has as many threads as it is long, so others are left.
LEMMA ListCounts ==
  ASSUME PoolAssumption, NEW s \in Lists
  PROVE  /\ IsFiniteSet(Threads \ Range(s))
         /\ Cardinality(Threads \ Range(s)) = MaxSize - Len(s)
<1>. DEFINE n == Len(s)
<1>1. s \in Seq(Threads) /\ IsInjective(s) /\ n \in Nat /\ s \in [1..n -> Threads] /\ DOMAIN s = 1..n
  BY LenProperties DEF Lists
<1>. HIDE DEF n
<1>2. s \in [1..n -> Range(s)] /\ \A t \in Range(s) : \E i \in 1..n : s[i] = t
  BY <1>1 DEF Range
<1>3. s \in Bijection(1..n, Range(s))
  BY <1>1, <1>2 DEF Bijection, Injection, Surjection, IsInjective
<1>4. IsFiniteSet(1..n) /\ Cardinality(1..n) = n
  BY <1>1, FS_Interval
<1>5. ExistsBijection(1..n, Range(s))
  BY <1>3 DEF ExistsBijection
<1>6. Cardinality(Range(s)) = n
  BY <1>4, <1>5, FS_Bijection
<1>7. Range(s) \subseteq Threads
  BY <1>1 DEF Range
<1>8. Threads \cap Range(s) = Range(s)
  BY <1>7
<1>9. PICK T, R : T = Threads /\ R = Range(s)
  OBVIOUS
<1>10. IsFiniteSet(T \ R) /\ Cardinality(T \ R) = Cardinality(T) - Cardinality(T \cap R)
  BY <1>9, ThreadsFinite, FS_Difference
<1>. QED
  BY <1>6, <1>8, <1>9, <1>10, ThreadsFinite DEF n

\* As many as the greatest size allows can be taken.
LEMMA FreshExists ==
  ASSUME PoolAssumption, m_pool \in Lists, NEW c \in Nat, c <= MaxSize - Len(m_pool)
  PROVE  Fresh(c) \in [1..c -> Threads \ Pooled] /\ IsInjective(Fresh(c))
<1>. DEFINE F == Threads \ Range(m_pool)
            n == Cardinality(F)
<1>1. IsFiniteSet(F) /\ n = MaxSize - Len(m_pool)
  BY ListCounts
<1>2. ExistsBijection(1..n, F) /\ n \in Nat
  BY <1>1, FS_CardinalityType
<1>. HIDE DEF F, n
<1>3. PICK f : f \in Bijection(1..n, F)
  BY <1>2 DEF ExistsBijection
<1>4. f \in [1..n -> F] /\ \A a, b \in 1..n : f[a] = f[b] => a = b
  BY <1>3 DEF Bijection, Injection, Surjection, IsInjective
<1>. DEFINE s == [i \in 1..c |-> f[i]]
<1>5. c <= n
  BY <1>1
<1>6. 1..c \subseteq 1..n
  BY <1>2, <1>5
<1>7. s \in [1..c -> F] /\ IsInjective(s)
  BY <1>4, <1>6 DEF IsInjective
<1>. HIDE DEF s
<1>8. \E x \in [1..c -> F] : IsInjective(x)
  BY <1>7
<1>9. F = Threads \ Pooled
  BY DEF F, Pooled
<1>10. \E x \in [1..c -> Threads \ Pooled] : IsInjective(x)
  BY <1>8, <1>9
<1>. QED
  BY <1>10 DEF Fresh

\* New threads are chained in front of the others.
LEMMA Chained ==
  ASSUME PoolAssumption, NEW s \in Lists, NEW c \in Nat,
         NEW f \in [1..c -> Threads \ Range(s)], IsInjective(f)
  PROVE  /\ f \o s \in Lists /\ Range(f \o s) = Range(f) \cup Range(s)
         /\ Len(f \o s) = c + Len(s)
<1>1. s \in Seq(Threads) /\ IsInjective(s) /\ Len(s) \in Nat /\ DOMAIN s = 1..Len(s)
  BY LenProperties DEF Lists
<1>2. f \in Seq(Threads) /\ Len(f) = c /\ DOMAIN f = 1..c
  OBVIOUS
<1>3. /\ f \o s \in Seq(Threads) /\ Len(f \o s) = c + Len(s)
      /\ \A i \in 1..c + Len(s) : (f \o s)[i] = IF i <= c THEN f[i] ELSE s[i - c]
  BY <1>1, <1>2, ConcatProperties
<1>4. DOMAIN (f \o s) = 1..c + Len(s)
  BY <1>3, LenProperties
<1>. DEFINE g == f \o s
<1>. HIDE DEF g
<1>5. \A i \in 1..c : i \in DOMAIN g /\ g[i] = f[i]
  BY <1>1, <1>3, <1>4 DEF g
<1>6. \A i \in 1..Len(s) : i + c \in DOMAIN g /\ g[i + c] = s[i]
  BY <1>1, <1>3, <1>4 DEF g
<1>7. \A i \in DOMAIN g : \/ i \in 1..c
                          \/ i - c \in 1..Len(s) /\ g[i] = s[i - c]
  BY <1>1, <1>3, <1>4 DEF g
<1>8. Range(g) = Range(f) \cup Range(s)
  <2>1. ASSUME NEW t \in Range(g) PROVE t \in Range(f) \cup Range(s)
    BY <1>1, <1>2, <1>5, <1>7, <2>1 DEF Range
  <2>2. ASSUME NEW t \in Range(f) PROVE t \in Range(g)
    BY <1>2, <1>5, <2>2 DEF Range
  <2>3. ASSUME NEW t \in Range(s) PROVE t \in Range(g)
    <3>1. PICK i \in 1..Len(s) : s[i] = t
      BY <1>1, <2>3 DEF Range
    <3>2. i + c \in DOMAIN g /\ g[i + c] = t
      BY <1>6, <3>1
    <3>. QED
      BY <3>2 DEF Range
  <2>. QED
    BY <2>1, <2>2, <2>3
<1>9. ASSUME NEW i \in DOMAIN g, NEW j \in DOMAIN g, g[i] = g[j]
      PROVE  i = j
  <2>1. \A k \in 1..c : f[k] \notin Range(s)
    OBVIOUS
  <2>2. \A k \in 1..Len(s) : s[k] \in Range(s)
    BY <1>1 DEF Range
  <2>3. \A a, b \in 1..c : f[a] = f[b] => a = b
    BY <1>2 DEF IsInjective
  <2>4. \A a, b \in 1..Len(s) : s[a] = s[b] => a = b
    BY <1>1 DEF IsInjective
  <2>5. i \in Int /\ j \in Int
    BY <1>1, <1>4 DEF g
  <2>. QED
    BY <1>1, <1>5, <1>7, <1>9, <2>1, <2>2, <2>3, <2>4, <2>5
<1>10. IsInjective(g)
  BY <1>9 DEF IsInjective
<1>. QED
  BY <1>3, <1>8, <1>10 DEF g, Lists

\* finalize takes one thread out of the list, and no other.
LEMMA UnchainedLeavesOthers ==
  ASSUME m_pool \in Lists, NEW t \in Pooled
  PROVE  Unchained(t) \in Lists /\ Range(Unchained(t)) = Pooled \ {t}
<1>. DEFINE n == Len(m_pool)
            i == CHOOSE k \in DOMAIN m_pool : m_pool[k] = t
            u == Unchained(t)
<1>1. m_pool \in Seq(Threads) /\ IsInjective(m_pool) /\ n \in Nat /\ DOMAIN m_pool = 1..n
  BY LenProperties DEF Lists
<1>2. \E k \in DOMAIN m_pool : m_pool[k] = t
  BY DEF Pooled, Range
<1>3. i \in 1..n /\ m_pool[i] = t
  BY <1>1, <1>2
<1>4. u = [k \in 1..n - 1 |-> IF k < i THEN m_pool[k] ELSE m_pool[k + 1]]
  BY DEF Unchained
<1>. HIDE DEF i, u, n
<1>5. \A k \in 1..n : m_pool[k] \in Threads
  BY <1>1
<1>6. n - 1 \in Nat
  BY <1>1, <1>3
<1>7. \A k \in 1..n - 1 : (IF k < i THEN m_pool[k] ELSE m_pool[k + 1]) \in Threads
  <2>. SUFFICES ASSUME NEW k \in 1..n - 1
                PROVE  m_pool[k] \in Threads /\ m_pool[k + 1] \in Threads
    OBVIOUS
  <2>1. k \in 1..n /\ k + 1 \in 1..n
    BY <1>1
  <2>. QED
    BY <1>5, <2>1
<1>8. u \in [1..n - 1 -> Threads]
  BY <1>4, <1>7
<1>9. u \in Seq(Threads) /\ DOMAIN u = 1..n - 1
  BY <1>6, <1>8
<1>10. \A a, b \in 1..n : m_pool[a] = m_pool[b] => a = b
  BY <1>1 DEF IsInjective
<1>11. \A k \in 1..n - 1 : u[k] = IF k < i THEN m_pool[k] ELSE m_pool[k + 1]
  BY <1>4
<1>12. IsInjective(u)
  <2>1. ASSUME NEW a \in 1..n - 1, NEW b \in 1..n - 1, u[a] = u[b] PROVE a = b
    BY <1>1, <1>3, <1>10, <1>11, <2>1
  <2>. QED
    BY <1>9, <2>1 DEF IsInjective
<1>13. ASSUME NEW x \in Range(u) PROVE x \in Pooled \ {t}
  <2>1. PICK k \in 1..n - 1 : u[k] = x
    BY <1>9 DEF Range
  <2>2. \E j \in 1..n : j # i /\ m_pool[j] = x
    BY <1>1, <1>3, <1>11, <2>1
  <2>. QED
    BY <1>1, <1>3, <1>10, <2>2 DEF Pooled, Range
<1>14. ASSUME NEW x \in Pooled, x # t PROVE x \in Range(u)
  <2>1. PICK j \in 1..n : m_pool[j] = x
    BY <1>1 DEF Pooled, Range
  <2>2. j # i
    BY <1>3, <1>14, <2>1
  <2>3. CASE j < i
    <3>1. j \in 1..n - 1 /\ u[j] = x
      BY <1>1, <1>3, <1>11, <2>1, <2>3
    <3>. QED
      BY <1>9, <3>1 DEF Range
  <2>4. CASE j > i
    <3>1. j - 1 \in 1..n - 1 /\ u[j - 1] = x
      BY <1>1, <1>3, <1>11, <2>1, <2>4
    <3>. QED
      BY <1>9, <3>1 DEF Range
  <2>. QED
    BY <1>1, <1>3, <2>2, <2>3, <2>4
<1>15. Range(u) = Pooled \ {t}
  BY <1>13, <1>14
<1>. QED
  BY <1>9, <1>12, <1>15 DEF u, Lists

----------------------------------------------------------------------------
(***************************************************************************)
(* The inductive invariant: the types and counts, the course of the        *)
(* destructor, and that no worker is forgotten.                            *)
(***************************************************************************)
Places == {"none", "loop", "pop", "work", "wait", "enter", "asleep", "woken", "leave"}
PooledThreads == [pc : Places, notifiedStop : BOOLEAN, waiting : BOOLEAN]
Events == [notified : BOOLEAN, notifyOne : BOOLEAN, waitingCount : Int]

InWait(f) == {t \in Threads : f[t].pc \in {"enter", "asleep", "woken"}}
Asleep(f) == {t \in Threads : f[t].pc = "asleep"}

IInv ==
  /\ TypeOK
  /\ th \in [Threads -> PooledThreads]
  /\ m_queueFill \in Events
  /\ destroyer = "wait" /\ m_empty => m_pool = <<>>
  /\ NoneForgotten

\* What NoneForgotten says of a pool that is to look at its queue.
Looks == \E t \in Pooled : ~Leaving(t)

----------------------------------------------------------------------------
(***************************************************************************)
(* Steps of a thread                                                       *)
(***************************************************************************)
LEMMA Counts ==
  ASSUME PoolAssumption, NEW A \in SUBSET Threads, NEW t
  PROVE  /\ Cardinality(A) \in Nat
         /\ Cardinality(A \cup {t}) = IF t \in A THEN Cardinality(A) ELSE Cardinality(A) + 1
         /\ Cardinality(A \ {t}) = IF t \in A THEN Cardinality(A) - 1 ELSE Cardinality(A)
<1>1. IsFiniteSet(A)
  BY ThreadsFinite, FS_Subset
<1>. QED
  BY <1>1, FS_CardinalityType, FS_AddElement, FS_RemoveElement

\* A thread goes to another place: the sets that are counted.
LEMMA ThreadGoes ==
  ASSUME PoolAssumption, IInv, NEW t \in Threads, NEW r \in PooledThreads,
         th' = [th EXCEPT ![t] = r]
  PROVE  /\ th' \in [Threads -> PooledThreads]
         /\ th'[t] = r /\ \A u \in Threads \ {t} : th'[u] = th[u]
         /\ InWait(th') = IF r.pc \in {"enter", "asleep", "woken"}
                          THEN InWait(th) \cup {t} ELSE InWait(th) \ {t}
         /\ Asleep(th') = IF r.pc = "asleep" THEN Asleep(th) \cup {t} ELSE Asleep(th) \ {t}
<1>1. th' \in [Threads -> PooledThreads] /\ th'[t] = r /\ \A u \in Threads \ {t} : th'[u] = th[u]
  BY DEF IInv
<1>. QED
  BY <1>1 DEF InWait, Asleep

LEMMA EmptyList ==
  ASSUME NEW s \in Lists
  PROVE  s = <<>> <=> Range(s) = {}
<1>1. s \in Seq(Threads) /\ Len(s) \in Nat /\ DOMAIN s = 1..Len(s)
  BY LenProperties DEF Lists
<1>2. ASSUME s # <<>> PROVE Range(s) # {}
  <2>1. 1 \in DOMAIN s
    BY <1>1, <1>2, EmptySeq
  <2>. QED
    BY <2>1 DEF Range
<1>. QED
  BY <1>2 DEF Range

LEMMA EventOperations ==
  ASSUME NEW e \in Events
  PROVE  /\ e.waitingCount \in Int
         /\ Waiting(e) \in Events /\ Waiting(e).waitingCount = e.waitingCount + 1
         /\ TimedOut(e) \in Events /\ TimedOut(e).waitingCount = e.waitingCount - 1
         /\ Notified(e) \in Events /\ Notified(e).waitingCount = e.waitingCount - 1
         /\ notify_all(e) \in Events /\ notify_all(e).waitingCount = e.waitingCount
         /\ notify_one(e) \in Events /\ notify_one(e).waitingCount = e.waitingCount
<1>1. /\ e.waitingCount \in Int
      /\ Waiting(e) \in Events /\ Waiting(e).waitingCount = e.waitingCount + 1
      /\ TimedOut(e) \in Events /\ TimedOut(e).waitingCount = e.waitingCount - 1
  BY DEF Events, Waiting, TimedOut
<1>2. /\ notify_all(e) \in Events /\ notify_all(e).waitingCount = e.waitingCount
      /\ notify_one(e) \in Events /\ notify_one(e).waitingCount = e.waitingCount
  BY DEF Events, notify_all, notify_one
<1>3. PICK x \in Events : x = TimedOut(e)
  BY <1>1
<1>4. PICK b \in BOOLEAN : b = ~(e.notifyOne \/ e.waitingCount = 1)
  OBVIOUS
<1>5. Notified(e) = [x EXCEPT !.notified = b]
  BY <1>3, <1>4 DEF Notified
<1>6. Notified(e) \in Events /\ Notified(e).waitingCount = x.waitingCount
  BY <1>5 DEF Events
<1>. QED
  BY <1>1, <1>2, <1>3, <1>6

LEMMA PcChanged ==
  ASSUME IInv, NEW t \in Threads, NEW x \in Places, Goes(t, x)
  PROVE  \E r \in PooledThreads : /\ th' = [th EXCEPT ![t] = r]
                                  /\ r.pc = x /\ r.notifiedStop = th[t].notifiedStop
<1>1. th[t] \in PooledThreads
  BY DEF IInv
<1>2. PICK r : r = [th[t] EXCEPT !.pc = x]
  OBVIOUS
<1>3. r \in PooledThreads /\ r.pc = x /\ r.notifiedStop = th[t].notifiedStop
  BY <1>1, <1>2 DEF PooledThreads
<1>4. th' = [th EXCEPT ![t] = r]
  BY <1>2 DEF Goes
<1>. QED
  BY <1>3, <1>4

\* What a thread adds to the count of those in their wait, or asleep.
Holds(r, what) ==
  IF \/ what = "wait" /\ r.pc \in {"enter", "asleep", "woken"}
     \/ what = "sleep" /\ r.pc = "asleep"
  THEN 1 ELSE 0

\* The counts behind a step of a thread.
LEMMA Counted ==
  ASSUME PoolAssumption, IInv, NEW t \in Threads, NEW r \in PooledThreads,
         th' = [th EXCEPT ![t] = r]
  PROVE  /\ m_waitingCount \in Nat /\ m_queueFill.waitingCount \in Nat
         /\ Cardinality(InWait(th')) = m_waitingCount + Holds(r, "wait") - Holds(th[t], "wait")
         /\ Cardinality(Asleep(th')) = m_queueFill.waitingCount + Holds(r, "sleep") - Holds(th[t], "sleep")
<1>1. /\ m_waitingCount = Cardinality(InWait(th))
      /\ m_queueFill.waitingCount = Cardinality(Asleep(th))
      /\ t \in InWait(th) <=> th[t].pc \in {"enter", "asleep", "woken"}
      /\ t \in Asleep(th) <=> th[t].pc = "asleep"
  BY DEF IInv, TypeOK, InWait, Asleep
<1>2. InWait(th) \in SUBSET Threads /\ Asleep(th) \in SUBSET Threads
  BY DEF InWait, Asleep
<1>3. PICK A, B : A = InWait(th) /\ B = Asleep(th)
  OBVIOUS
<1>4. /\ Cardinality(A) \in Nat
      /\ Cardinality(A \cup {t}) = IF t \in A THEN Cardinality(A) ELSE Cardinality(A) + 1
      /\ Cardinality(A \ {t}) = IF t \in A THEN Cardinality(A) - 1 ELSE Cardinality(A)
  BY <1>2, <1>3, Counts
<1>5. /\ Cardinality(B) \in Nat
      /\ Cardinality(B \cup {t}) = IF t \in B THEN Cardinality(B) ELSE Cardinality(B) + 1
      /\ Cardinality(B \ {t}) = IF t \in B THEN Cardinality(B) - 1 ELSE Cardinality(B)
  BY <1>2, <1>3, Counts
<1>6. /\ InWait(th') = IF r.pc \in {"enter", "asleep", "woken"} THEN A \cup {t} ELSE A \ {t}
      /\ Asleep(th') = IF r.pc = "asleep" THEN B \cup {t} ELSE B \ {t}
  BY <1>3, ThreadGoes
<1>7. Cardinality(InWait(th')) = m_waitingCount + Holds(r, "wait") - Holds(th[t], "wait")
  BY <1>1, <1>3, <1>4, <1>6 DEF Holds
<1>8. Cardinality(Asleep(th')) = m_queueFill.waitingCount + Holds(r, "sleep") - Holds(th[t], "sleep")
  BY <1>1, <1>3, <1>5, <1>6 DEF Holds
<1>. QED
  BY <1>1, <1>3, <1>4, <1>5, <1>7, <1>8

\* A thread that stays in the pool.
LEMMA ThreadStays ==
  ASSUME PoolAssumption, IInv, NEW t \in Threads, NEW r \in PooledThreads,
         th[t].pc # "none", r.pc # "none", th' = [th EXCEPT ![t] = r],
         UNCHANGED <<settings, m_pool, m_empty, destroyer, missed>>,
         m_queue' \in Nat,
         m_queue' > 0 => m_queue > 0,
         m_waitingCount' - m_waitingCount = Holds(r, "wait") - Holds(th[t], "wait"),
         m_queueFill' \in Events, m_waitingCount' \in Int,
         m_queueFill'.waitingCount - m_queueFill.waitingCount = Holds(r, "sleep") - Holds(th[t], "sleep"),
         Leaving(t)' => \/ Leaving(t)
                        \/ m_queue' = 0 \/ m_suspended
  PROVE  IInv'
<1>1. /\ th' \in [Threads -> PooledThreads]
      /\ th'[t] = r /\ \A u \in Threads \ {t} : th'[u] = th[u]
  BY ThreadGoes
<1>2. Pooled' = Pooled
  BY DEF Pooled
<1>3. \A u \in Threads : th'[u].pc # "none" <=> th[u].pc # "none"
  BY <1>1
<1>4. /\ m_waitingCount' = Cardinality(InWait(th'))
      /\ m_queueFill'.waitingCount = Cardinality(Asleep(th'))
  <2>1. m_queueFill'.waitingCount \in Int
    BY DEF Events
  <2>2. Holds(r, "wait") \in Int /\ Holds(th[t], "wait") \in Int
        /\ Holds(r, "sleep") \in Int /\ Holds(th[t], "sleep") \in Int
    BY DEF Holds
  <2>3. /\ m_waitingCount \in Nat /\ m_queueFill.waitingCount \in Nat
        /\ Cardinality(InWait(th')) = m_waitingCount + Holds(r, "wait") - Holds(th[t], "wait")
        /\ Cardinality(Asleep(th')) = m_queueFill.waitingCount + Holds(r, "sleep") - Holds(th[t], "sleep")
    BY Counted
  <2>. QED
    BY <2>1, <2>2, <2>3
<1>5. TypeOK'
  BY <1>2, <1>3, <1>4 DEF IInv, TypeOK, settings, InWait, Asleep
<1>6. NoneForgotten'
  <2>1. Pooled \subseteq Threads
    BY DEF IInv, TypeOK, Pooled, Range
  <2>2. ASSUME NEW u \in Pooled, ~Leaving(u), m_queue' > 0, ~m_suspended PROVE ~Leaving(u)'
    <3>1. CASE u = t
      BY <2>2, <3>1
    <3>2. CASE u # t
      BY <1>1, <2>1, <2>2, <3>2 DEF Leaving
    <3>. QED
      BY <3>1, <3>2
  <2>. QED
    BY <1>2, <2>2 DEF IInv, NoneForgotten, settings
<1>. QED
  BY <1>1, <1>5, <1>6 DEF IInv

LEMMA ThreadGoesOn ==
  ASSUME PoolAssumption, IInv, NEW t \in Threads,
         CheckStopped(t) \/ pop_queue(t) \/ process(t) \/ wait_queue(t)
           \/ EnterWait(t) \/ Wake(t) \/ Waited(t)
  PROVE  IInv'
<1>1. /\ th[t] \in PooledThreads /\ m_queueFill \in Events /\ m_queue \in Nat
      /\ m_queueFill.waitingCount \in Int /\ m_waitingCount \in Int
  <2>1. th[t] \in PooledThreads /\ m_queueFill \in Events /\ m_queue \in Nat
    BY DEF IInv, TypeOK
  <2>2. m_waitingCount \in Int
    <3>1. InWait(th) \in SUBSET Threads /\ m_waitingCount = Cardinality(InWait(th))
      BY DEF IInv, TypeOK, InWait
    <3>2. PICK A \in SUBSET Threads : m_waitingCount = Cardinality(A)
      BY <3>1
    <3>3. Cardinality(A) \in Nat
      BY Counts
    <3>. QED
      BY <3>2, <3>3
  <2>. QED
    BY <2>1, <2>2 DEF Events
<1>2. CASE CheckStopped(t)
  <2>. USE DEF CheckStopped
  <2>1. PICK x \in Places : x = (IF th[t].notifiedStop THEN "leave" ELSE "pop")
    BY DEF Places
  <2>2. PICK r \in PooledThreads : /\ th' = [th EXCEPT ![t] = r]
                                   /\ r.pc = x /\ r.notifiedStop = th[t].notifiedStop
    BY <1>2, <2>1, PcChanged
  <2>3. th'[t] = r
    BY <2>2, ThreadGoes
  <2>4. Leaving(t)' => Leaving(t)
    BY <2>1, <2>2, <2>3 DEF Leaving
  <2>5. /\ m_waitingCount' - m_waitingCount = Holds(r, "wait") - Holds(th[t], "wait")
        /\ m_queueFill'.waitingCount - m_queueFill.waitingCount = Holds(r, "sleep") - Holds(th[t], "sleep")
        /\ m_waitingCount' \in Int
    BY <1>1, <1>2, <2>1, <2>2 DEF Holds, work, events
  <2>. QED
    BY <1>1, <1>2, <2>1, <2>2, <2>4, <2>5, ThreadStays DEF work, events
<1>3. CASE pop_queue(t)
  <2>. USE DEF pop_queue
  <2>1. PICK x \in Places : /\ x = IF ~m_suspended /\ m_queue > 0 THEN "work"
                                   ELSE IF th[t].waiting THEN "leave" ELSE "wait"
                            /\ Goes(t, x)
    BY <1>3 DEF Places
  <2>2. PICK r \in PooledThreads : /\ th' = [th EXCEPT ![t] = r]
                                   /\ r.pc = x /\ r.notifiedStop = th[t].notifiedStop
    BY <2>1, PcChanged
  <2>3. th'[t] = r
    BY <2>2, ThreadGoes
  <2>4. m_queue' \in Nat /\ (m_queue' > 0 => m_queue > 0)
    BY <1>1, <1>3
  <2>5. Leaving(t)' => Leaving(t) \/ m_queue' = 0 \/ m_suspended
    BY <1>1, <1>3, <2>1, <2>2, <2>3 DEF Leaving
  <2>6. /\ m_waitingCount' - m_waitingCount = Holds(r, "wait") - Holds(th[t], "wait")
        /\ m_queueFill'.waitingCount - m_queueFill.waitingCount = Holds(r, "sleep") - Holds(th[t], "sleep")
        /\ m_waitingCount' \in Int
    BY <1>1, <1>3, <2>1, <2>2 DEF Holds
  <2>. QED
    BY <1>1, <1>3, <2>1, <2>2, <2>4, <2>5, <2>6, ThreadStays
<1>4. CASE process(t)
  <2>. USE DEF process
  <2>1. PICK r : r = [th[t] EXCEPT !.pc = "loop", !.waiting = FALSE]
    OBVIOUS
  <2>2. r \in PooledThreads /\ r.pc = "loop" /\ r.notifiedStop = th[t].notifiedStop
    BY <1>1, <2>1 DEF PooledThreads, Places
  <2>3. th' = [th EXCEPT ![t] = r]
    BY <1>4, <2>1
  <2>4. th'[t] = r
    BY <2>2, <2>3, ThreadGoes
  <2>5. Leaving(t)' => Leaving(t)
    BY <2>2, <2>4 DEF Leaving
  <2>6. /\ m_waitingCount' - m_waitingCount = Holds(r, "wait") - Holds(th[t], "wait")
        /\ m_queueFill'.waitingCount - m_queueFill.waitingCount = Holds(r, "sleep") - Holds(th[t], "sleep")
        /\ m_waitingCount' \in Int
    BY <1>1, <1>4, <2>2, <2>3 DEF Holds, work, events
  <2>. QED
    BY <1>1, <1>4, <2>2, <2>3, <2>5, <2>6, ThreadStays DEF work, events
<1>5. CASE wait_queue(t)
  <2>. USE DEF wait_queue
  <2>1. "enter" \in Places
    BY DEF Places
  <2>2. PICK r \in PooledThreads : /\ th' = [th EXCEPT ![t] = r]
                                   /\ r.pc = "enter" /\ r.notifiedStop = th[t].notifiedStop
    BY <1>5, <2>1, PcChanged
  <2>3. th'[t] = r
    BY <2>2, ThreadGoes
  <2>4. Leaving(t)' => Leaving(t)
    BY <2>2, <2>3 DEF Leaving
  <2>5. /\ m_waitingCount' - m_waitingCount = Holds(r, "wait") - Holds(th[t], "wait")
        /\ m_queueFill'.waitingCount - m_queueFill.waitingCount = Holds(r, "sleep") - Holds(th[t], "sleep")
        /\ m_waitingCount' \in Int
    BY <1>1, <1>5, <2>2 DEF Holds, events
  <2>. QED
    BY <1>1, <1>5, <2>2, <2>4, <2>5, ThreadStays DEF events
<1>6. CASE EnterWait(t)
  <2>. USE DEF EnterWait
  <2>1. PICK x \in Places : /\ x = IF m_queueFill.notified THEN "woken" ELSE "asleep"
                            /\ Goes(t, x)
    BY <1>6 DEF Places
  <2>2. PICK r \in PooledThreads : /\ th' = [th EXCEPT ![t] = r]
                                   /\ r.pc = x /\ r.notifiedStop = th[t].notifiedStop
    BY <2>1, PcChanged
  <2>3. th'[t] = r
    BY <2>2, ThreadGoes
  <2>4. Leaving(t)' => Leaving(t)
    BY <2>1, <2>2, <2>3 DEF Leaving
  <2>5. /\ m_queueFill' \in Events
        /\ m_queueFill'.waitingCount =
             m_queueFill.waitingCount + (IF m_queueFill.notified THEN 0 ELSE 1)
    <3>1. PICK e \in Events : e = m_queueFill
      BY <1>1
    <3>2. /\ Waiting(e) \in Events /\ Waiting(e).waitingCount = e.waitingCount + 1
          /\ e.waitingCount \in Int
      BY EventOperations
    <3>3. Notified(Waiting(e)) \in Events /\ Notified(Waiting(e)).waitingCount = e.waitingCount
      BY <3>2, EventOperations
    <3>. QED
      BY <1>6, <3>1, <3>2, <3>3
  <2>6. /\ m_waitingCount' - m_waitingCount = Holds(r, "wait") - Holds(th[t], "wait")
        /\ m_queueFill'.waitingCount - m_queueFill.waitingCount = Holds(r, "sleep") - Holds(th[t], "sleep")
        /\ m_waitingCount' \in Int
    BY <1>1, <1>6, <2>1, <2>2, <2>5 DEF Holds, work
  <2>. QED
    BY <1>1, <1>6, <2>1, <2>2, <2>4, <2>5, <2>6, ThreadStays DEF work
<1>7. CASE Wake(t)
  <2>. USE DEF Wake
  <2>1. "woken" \in Places
    BY DEF Places
  <2>2. PICK r \in PooledThreads : /\ th' = [th EXCEPT ![t] = r]
                                   /\ r.pc = "woken" /\ r.notifiedStop = th[t].notifiedStop
    BY <1>7, <2>1, PcChanged
  <2>3. th'[t] = r
    BY <2>2, ThreadGoes
  <2>4. Leaving(t)' => Leaving(t)
    BY <2>2, <2>3 DEF Leaving
  <2>5. m_queueFill' \in Events /\ m_queueFill'.waitingCount = m_queueFill.waitingCount - 1
    <3>1. \A e \in Events : /\ Notified(e) \in Events /\ Notified(e).waitingCount = e.waitingCount - 1
                          /\ TimedOut(e) \in Events /\ TimedOut(e).waitingCount = e.waitingCount - 1
      BY EventOperations
    <3>. QED
      BY <1>1, <1>7, <3>1
  <2>6. /\ m_waitingCount' - m_waitingCount = Holds(r, "wait") - Holds(th[t], "wait")
        /\ m_queueFill'.waitingCount - m_queueFill.waitingCount = Holds(r, "sleep") - Holds(th[t], "sleep")
        /\ m_waitingCount' \in Int
    BY <1>1, <1>7, <2>2, <2>5 DEF Holds, work
  <2>. QED
    BY <1>1, <1>7, <2>2, <2>4, <2>5, <2>6, ThreadStays DEF work
<1>8. CASE Waited(t)
  <2>. USE DEF Waited
  <2>1. PICK r : r = [th[t] EXCEPT !.pc = "loop", !.waiting = TRUE]
    OBVIOUS
  <2>2. r \in PooledThreads /\ r.pc = "loop" /\ r.notifiedStop = th[t].notifiedStop
    BY <1>1, <2>1 DEF PooledThreads, Places
  <2>3. th' = [th EXCEPT ![t] = r]
    BY <1>8, <2>1
  <2>4. th'[t] = r
    BY <2>2, <2>3, ThreadGoes
  <2>5. Leaving(t)' => Leaving(t)
    BY <2>2, <2>4 DEF Leaving
  <2>6. /\ m_waitingCount' - m_waitingCount = Holds(r, "wait") - Holds(th[t], "wait")
        /\ m_queueFill'.waitingCount - m_queueFill.waitingCount = Holds(r, "sleep") - Holds(th[t], "sleep")
        /\ m_waitingCount' \in Int
    BY <1>1, <1>8, <2>2, <2>3 DEF Holds, events
  <2>. QED
    BY <1>1, <1>8, <2>2, <2>3, <2>5, <2>6, ThreadStays DEF events
<1>. QED
  BY <1>2, <1>3, <1>4, <1>5, <1>6, <1>7, <1>8

\* The last step of a thread takes it out of the pool; it was to leave, so those
\* that look at the queue stay.
LEMMA ThreadLeaves ==
  ASSUME PoolAssumption, IInv, NEW t \in Threads, finalize(t)
  PROVE  IInv'
<1>. USE DEF finalize
<1>1. m_pool \in Lists /\ t \in Pooled
  BY DEF IInv, TypeOK, Lists
<1>2. m_pool' \in Lists /\ Pooled' = Pooled \ {t}
  BY <1>1, UnchainedLeavesOthers DEF Pooled
<1>3. NoThread \in PooledThreads /\ NoThread.pc = "none"
  BY DEF NoThread, PooledThreads, Places
<1>4. PICK r \in PooledThreads : r = NoThread
  BY <1>3
<1>5. th' = [th EXCEPT ![t] = r] /\ r.pc = "none"
  BY <1>3, <1>4
<1>6. th' \in [Threads -> PooledThreads] /\ th'[t] = r /\ \A u \in Threads \ {t} : th'[u] = th[u]
  BY <1>5, ThreadGoes
<1>7. /\ m_waitingCount' = Cardinality(InWait(th'))
      /\ m_queueFill'.waitingCount = Cardinality(Asleep(th'))
  <2>1. /\ m_waitingCount \in Nat /\ m_queueFill.waitingCount \in Nat
        /\ Cardinality(InWait(th')) = m_waitingCount + Holds(r, "wait") - Holds(th[t], "wait")
        /\ Cardinality(Asleep(th')) = m_queueFill.waitingCount + Holds(r, "sleep") - Holds(th[t], "sleep")
    BY <1>5, Counted
  <2>2. /\ Holds(r, "wait") = 0 /\ Holds(th[t], "wait") = 0
        /\ Holds(r, "sleep") = 0 /\ Holds(th[t], "sleep") = 0
    BY <1>5 DEF Holds
  <2>3. m_waitingCount' = m_waitingCount /\ m_queueFill' = m_queueFill
    BY DEF work, events
  <2>. QED
    BY <2>1, <2>2, <2>3
<1>8. m_pool # <<>> /\ destroyer # "done"
  BY <1>1, EmptyList DEF Pooled, IInv, TypeOK
<1>9. destroyer' = "wait" /\ m_empty' => m_pool' = <<>>
  BY <1>8 DEF IInv, TypeOK
<1>10. \A u \in Threads : th'[u].pc # "none" <=> u \in Pooled'
  BY <1>1, <1>2, <1>5, <1>6 DEF IInv, TypeOK
<1>11. TypeOK'
  <2>1. m_empty' \in BOOLEAN
    BY DEF IInv, TypeOK
  <2>. QED
    BY <1>2, <1>7, <1>8, <1>10, <2>1 DEF IInv, TypeOK, Lists, settings, work, events, InWait, Asleep
<1>12. NoneForgotten'
  <2>1. Leaving(t)
    BY DEF Leaving
  <2>2. Pooled \subseteq Threads
    BY <1>1 DEF Pooled, Range, Lists
  <2>3. \A u \in Pooled : ~Leaving(u) => u \in Pooled' /\ ~Leaving(u)'
    BY <1>2, <1>6, <2>1, <2>2 DEF Leaving
  <2>. QED
    BY <2>3 DEF IInv, NoneForgotten, settings, work
<1>. QED
  BY <1>6, <1>9, <1>11, <1>12 DEF IInv, work, events

----------------------------------------------------------------------------
(***************************************************************************)
(* Resizing                                                                *)
(***************************************************************************)
LEMMA MinOfTwo ==
  ASSUME NEW a \in Nat, NEW b \in Nat
  PROVE  Min({a, b}) \in {a, b} /\ Min({a, b}) <= a /\ Min({a, b}) <= b
<1>1. \E x \in {a, b} : \A y \in {a, b} : x <= y
  OBVIOUS
<1>. QED
  BY <1>1 DEF Min

LEMMA WantingFacts ==
  ASSUME PoolAssumption, NEW n \in Nat, n = Len(m_pool), NEW size \in Sizes, NEW queue \in Nat
  PROVE  /\ Wanting(size, queue) \in Nat
         /\ Wanting(size, queue) > 0 => Wanting(size, queue) <= MaxSize - n
         /\ queue > 0 /\ n < size => Wanting(size, queue) > 0
<1>1. size \in Nat /\ size <= MaxSize /\ MaxSize \in Nat
  BY DEF PoolAssumption
<1>2. CASE n < size
  <2>1. size - n \in Nat
    BY <1>1, <1>2
  <2>2. PICK b \in Nat : b = size - n
    BY <2>1
  <2>3. Min({queue, b}) \in {queue, b} /\ Min({queue, b}) <= queue /\ Min({queue, b}) <= b
    BY MinOfTwo
  <2>4. Wanting(size, queue) = Min({queue, b})
    BY <1>2, <2>2 DEF Wanting
  <2>. QED
    BY <1>1, <1>2, <2>2, <2>3, <2>4
<1>3. CASE ~(n < size)
  BY <1>1, <1>3 DEF Wanting
<1>. QED
  BY <1>2, <1>3

\* New threads look at the queue; the oldest of a pool that shrinks go on.  So a
\* pool whose threads were not leaving looks at the queue.
LEMMA Resized ==
  ASSUME PoolAssumption, IInv, NEW size \in Sizes, NEW queue \in Nat, __resize(size, queue)
  PROVE  /\ m_pool' \in Lists
         /\ th' \in [Threads -> PooledThreads]
         /\ \A u \in Threads : th'[u].pc # "none" <=> u \in Pooled'
         /\ InWait(th') = InWait(th) /\ Asleep(th') = Asleep(th)
         /\ m_queueFill' \in Events /\ m_queueFill'.waitingCount = m_queueFill.waitingCount
         /\ m_empty' \in BOOLEAN /\ missed' \in BOOLEAN
         /\ queue > 0 /\ size > 0 /\ ~missed' => Looks'
<1>1. m_pool \in Lists /\ Pooled \subseteq Threads /\ Len(m_pool) \in Nat /\ DOMAIN m_pool = 1..Len(m_pool)
  BY LenProperties DEF IInv, TypeOK, Lists, Pooled, Range
<1>2. PICK n \in Nat : n = Len(m_pool)
  BY <1>1
<1>3. PICK c \in 0..Wanting(size, queue) :
        /\ m_pool' = Fresh(c) \o m_pool
        /\ m_empty' \in {m_empty, m_empty \/ (m_pool = <<>> /\ c < Wanting(size, queue))}
        /\ th' = [t \in Threads |->
                    IF t \in Range(Fresh(c)) THEN Started
                    ELSE [th[t] EXCEPT !.notifiedStop = @ \/ t \in Excess(size)]]
        /\ m_queueFill' = IF Len(m_pool) > size /\ m_waitingCount > 0
                          THEN notify_all(m_queueFill) ELSE m_queueFill
        /\ missed' = (missed \/ c < Wanting(size, queue) \/ \E t \in Pooled : Leaving(t))
  BY DEF __resize
<1>4. /\ Wanting(size, queue) \in Nat
      /\ Wanting(size, queue) > 0 => Wanting(size, queue) <= MaxSize - n
      /\ queue > 0 /\ n < size => Wanting(size, queue) > 0
  BY <1>2, WantingFacts
<1>5. c \in Nat /\ c <= Wanting(size, queue)
  BY <1>4
<1>6. n <= MaxSize
  <2>1. /\ IsFiniteSet(Threads \ Range(m_pool))
        /\ Cardinality(Threads \ Range(m_pool)) = MaxSize - Len(m_pool)
    BY <1>1, ListCounts
  <2>2. Cardinality(Threads \ Range(m_pool)) \in Nat
    BY <2>1, FS_CardinalityType
  <2>. QED
    BY <1>2, <2>1, <2>2 DEF PoolAssumption
<1>7. c <= MaxSize - Len(m_pool)
  BY <1>2, <1>4, <1>5, <1>6 DEF PoolAssumption
<1>8. PICK f : f = Fresh(c)
  OBVIOUS
<1>9. f \in [1..c -> Threads \ Range(m_pool)] /\ IsInjective(f)
  BY <1>1, <1>5, <1>7, <1>8, FreshExists DEF Pooled
<1>10. m_pool' \in Lists /\ Pooled' = Range(f) \cup Pooled
  BY <1>1, <1>3, <1>5, <1>8, <1>9, Chained DEF Pooled
<1>11. Range(f) \subseteq Threads \ Pooled
  BY <1>9 DEF Range, Pooled
<1>12. /\ th \in [Threads -> PooledThreads]
       /\ \A u \in Threads : th[u].pc # "none" <=> u \in Pooled
  BY DEF IInv, TypeOK
<1>13. Started \in PooledThreads /\ Started.pc = "loop" /\ Started.notifiedStop = FALSE
  BY DEF Started, NoThread, PooledThreads, Places
<1>14. ASSUME NEW u \in Threads, u \in Range(f)
       PROVE  th'[u] = Started
  BY <1>3, <1>8, <1>14
<1>15. ASSUME NEW u \in Threads, u \notin Range(f)
       PROVE  /\ th'[u] \in PooledThreads /\ th'[u].pc = th[u].pc
              /\ th'[u].notifiedStop <=> th[u].notifiedStop \/ u \in Excess(size)
  <2>1. PICK b \in BOOLEAN : b <=> th[u].notifiedStop \/ u \in Excess(size)
    OBVIOUS
  <2>2. th[u].notifiedStop \in BOOLEAN
    BY <1>12 DEF PooledThreads
  <2>3. th'[u] = [th[u] EXCEPT !.notifiedStop = b]
    BY <1>3, <1>8, <1>15, <2>1, <2>2
  <2>. QED
    BY <1>12, <2>1, <2>3 DEF PooledThreads
<1>16. th' \in [Threads -> PooledThreads]
  <2>1. \A u \in Threads : th'[u] \in PooledThreads
    BY <1>13, <1>14, <1>15
  <2>. QED
    BY <1>3, <2>1
<1>17. \A u \in Threads : th'[u].pc # "none" <=> u \in Pooled'
  BY <1>10, <1>12, <1>13, <1>14, <1>15
<1>18. InWait(th') = InWait(th) /\ Asleep(th') = Asleep(th)
  <2>1. ASSUME NEW u \in Threads PROVE u \in InWait(th') <=> u \in InWait(th)
    BY <1>11, <1>12, <1>13, <1>14, <1>15 DEF InWait
  <2>2. ASSUME NEW u \in Threads PROVE u \in Asleep(th') <=> u \in Asleep(th)
    BY <1>11, <1>12, <1>13, <1>14, <1>15 DEF Asleep
  <2>. QED
    BY <2>1, <2>2 DEF InWait, Asleep
<1>19. m_queueFill' \in Events /\ m_queueFill'.waitingCount = m_queueFill.waitingCount
  BY <1>3, EventOperations DEF IInv
<1>20. m_empty' \in BOOLEAN /\ missed' \in BOOLEAN
  BY <1>3 DEF IInv, TypeOK
<1>21. ASSUME queue > 0, size > 0, ~missed'
       PROVE  Looks'
  <2>1. c = Wanting(size, queue) /\ \A t \in Pooled : ~Leaving(t)
    <3>1. missed' = (missed \/ c < Wanting(size, queue) \/ \E t \in Pooled : Leaving(t))
      BY <1>3
    <3>2. ~(c < Wanting(size, queue)) /\ ~\E t \in Pooled : Leaving(t)
      BY <1>21, <3>1, Zenon
    <3>. QED
      BY <1>4, <1>5, <3>2
  <2>2. size \in Nat
    BY DEF PoolAssumption
  <2>3. CASE n < size
    <3>1. c > 0
      BY <1>4, <1>21, <2>1, <2>3
    <3>2. 1 \in DOMAIN f /\ f[1] \in Range(f)
      BY <1>5, <1>9, <3>1 DEF Range
    <3>3. f[1] \in Pooled' /\ f[1] \in Threads /\ th'[f[1]] = Started
      BY <1>10, <1>11, <1>14, <3>2
    <3>4. ~Leaving(f[1])'
      BY <1>13, <3>3 DEF Leaving
    <3>. QED
      BY <3>3, <3>4 DEF Looks
  <2>4. CASE n >= size
    <3>1. n \in 1..n
      BY <1>21, <2>2, <2>4
    <3>2. PICK u \in Threads : u = m_pool[n] /\ u \in Pooled
      BY <1>1, <1>2, <3>1 DEF Pooled, Range
    <3>3. u \notin Excess(size)
      <4>1. \A i \in 1..n : m_pool[i] = u => i = n
        BY <1>1, <1>2, <3>1, <3>2 DEF Lists, IsInjective
      <4>2. \A i \in 1..n - size : i \in 1..n /\ i # n
        BY <1>21, <2>2, <2>4
      <4>. QED
        BY <1>2, <4>1, <4>2 DEF Excess
    <3>4. u \notin Range(f) /\ u \in Pooled'
      BY <1>10, <1>11, <3>2
    <3>5. ~Leaving(u)
      BY <2>1, <3>2
    <3>6. ~Leaving(u)'
      BY <1>15, <3>3, <3>4, <3>5 DEF Leaving
    <3>. QED
      BY <3>4, <3>6 DEF Looks
  <2>. QED
    BY <2>2, <2>3, <2>4
<1>. QED
  BY <1>10, <1>16, <1>17, <1>18, <1>19, <1>20, <1>21

----------------------------------------------------------------------------
(***************************************************************************)
(* Calls of the application                                                *)
(***************************************************************************)
\* A call that resizes the pool.
LEMMA ResizingCall ==
  ASSUME PoolAssumption, IInv, Call, NEW size \in Sizes, NEW queue \in Nat, __resize(size, queue),
         m_maxSize' = size, m_queue' = queue,
         m_stopped' \in BOOLEAN, m_suspended' \in BOOLEAN,
         UNCHANGED <<m_waitingCount, destroyer>>
  PROVE  IInv'
<1>1. /\ m_pool' \in Lists
      /\ th' \in [Threads -> PooledThreads]
      /\ \A u \in Threads : th'[u].pc # "none" <=> u \in Pooled'
      /\ InWait(th') = InWait(th) /\ Asleep(th') = Asleep(th)
      /\ m_queueFill' \in Events /\ m_queueFill'.waitingCount = m_queueFill.waitingCount
      /\ m_empty' \in BOOLEAN /\ missed' \in BOOLEAN
      /\ queue > 0 /\ size > 0 /\ ~missed' => Looks'
  BY Resized
<1>2. destroyer' = "none"
  BY DEF Call
<1>3. TypeOK'
  BY <1>1, <1>2 DEF IInv, TypeOK, Lists, InWait, Asleep
<1>4. NoneForgotten'
  BY <1>1 DEF NoneForgotten, Looks
<1>. QED
  BY <1>1, <1>2, <1>3, <1>4 DEF IInv

\* A call, or a waiter for the queue, that leaves the threads alone.
LEMMA QuietCall ==
  ASSUME PoolAssumption, IInv,
         UNCHANGED <<m_pool, m_empty, th, m_waitingCount, m_queueFill, destroyer>>,
         m_maxSize' \in Sizes, m_stopped' \in BOOLEAN, m_suspended' \in BOOLEAN,
         m_queue' \in Nat, missed' \in BOOLEAN,
         NoneForgotten'
  PROVE  IInv'
<1>1. Pooled' = Pooled
  BY DEF Pooled
<1>2. TypeOK'
  BY <1>1 DEF IInv, TypeOK
<1>. QED
  BY <1>2 DEF IInv

LEMMA EnqueueStep ==
  ASSUME PoolAssumption, IInv, enqueue
  PROVE  IInv'
<1>. USE DEF enqueue
<1>1. /\ m_maxSize \in Sizes /\ m_queue \in Nat /\ m_stopped \in BOOLEAN /\ m_suspended \in BOOLEAN
      /\ missed \in BOOLEAN
      /\ m_queueFill \in Events /\ m_waitingCount = Cardinality(InWait(th))
      /\ m_queueFill.waitingCount = Cardinality(Asleep(th))
  BY DEF IInv, TypeOK, InWait, Asleep
<1>2. UNCHANGED <<m_maxSize, m_stopped, m_suspended, m_waitingCount, destroyer>> /\ Call
      /\ m_queue' = m_queue + 1
  BY DEF settings
<1>3. CASE ~m_suspended /\ m_waitingCount = 0
  <2>1. PICK size \in Sizes, queue \in Nat : size = m_maxSize /\ queue = m_queue + 1
    BY <1>1
  <2>2. __resize(size, queue)
    BY <1>3, <2>1
  <2>. QED
    BY <1>1, <1>2, <2>1, <2>2, ResizingCall
<1>4. CASE ~(~m_suspended /\ m_waitingCount = 0)
  <2>1. /\ m_queueFill' = IF m_suspended THEN m_queueFill ELSE notify_one(m_queueFill)
        /\ missed' = (missed \/ (~m_suspended /\ \E t \in Pooled : Leaving(t)))
        /\ UNCHANGED <<m_pool, m_empty, th, destroyer>>
    BY <1>4
  <2>2. m_queueFill' \in Events /\ m_queueFill'.waitingCount = m_queueFill.waitingCount
    BY <1>1, <2>1, EventOperations
  <2>3. Pooled' = Pooled
    BY <2>1 DEF Pooled
  <2>4. TypeOK'
    BY <1>1, <1>2, <2>1, <2>2, <2>3 DEF IInv, TypeOK, InWait, Asleep
  <2>5. ASSUME ~m_suspended, ~missed' PROVE \E t \in Pooled : ~Leaving(t)
    <3>1. ~\E t \in Pooled : Leaving(t)
      BY <2>1, <2>5, Zenon
    <3>2. InWait(th) # {}
      BY <1>1, <1>4, <2>5, FS_EmptySet
    <3>3. PICK t \in Threads : th[t].pc # "none"
      BY <3>2 DEF InWait
    <3>4. t \in Pooled
      BY <3>3 DEF IInv, TypeOK
    <3>. QED
      BY <3>1, <3>4
  <2>6. NoneForgotten'
    <3>1. \A t : Leaving(t)' <=> Leaving(t)
      BY <2>1 DEF Leaving
    <3>. QED
      BY <1>2, <2>3, <2>5, <3>1 DEF NoneForgotten
  <2>. QED
    BY <1>2, <2>1, <2>2, <2>4, <2>6 DEF IInv
<1>. QED
  BY <1>3, <1>4

LEMMA CallStep ==
  ASSUME PoolAssumption, IInv,
         set_max_size \/ suspend \/ resume \/ reset \/ SetStopped \/ wait_empty \/ WaitEmpty
  PROVE  IInv'
<1>1. /\ m_maxSize \in Sizes /\ m_queue \in Nat /\ m_stopped \in BOOLEAN /\ m_suspended \in BOOLEAN
      /\ missed \in BOOLEAN /\ NoneForgotten
  BY DEF IInv, TypeOK
<1>2. CASE set_max_size
  <2>. USE DEF set_max_size
  <2>1. /\ Call /\ m_maxSize' \in Sizes
        /\ UNCHANGED <<m_stopped, m_suspended, m_queue, m_waitingCount, destroyer>>
    BY <1>2 DEF work
  <2>2. CASE m_suspended
    <3>1. NoneForgotten'
      BY <2>1, <2>2 DEF NoneForgotten
    <3>. QED
      BY <1>1, <1>2, <2>1, <2>2, <3>1, QuietCall
  <2>3. CASE ~m_suspended
    <3>1. PICK size \in Sizes : size = m_maxSize'
      BY <2>1
    <3>2. __resize(size, m_queue)
      BY <1>2, <2>3, <3>1
    <3>. QED
      BY <1>1, <2>1, <3>1, <3>2, ResizingCall
  <2>. QED
    BY <2>2, <2>3
<1>3. CASE suspend
  <2>. USE DEF suspend
  <2>1. NoneForgotten'
    BY <1>3 DEF NoneForgotten
  <2>. QED
    BY <1>1, <1>3, <2>1, QuietCall DEF work, events
<1>4. CASE resume
  <2>. USE DEF resume
  <2>1. __resize(m_maxSize, m_queue) /\ Call /\ m_suspended' = FALSE
        /\ UNCHANGED <<m_maxSize, m_queue, m_stopped, m_waitingCount, destroyer>>
    BY <1>4 DEF work
  <2>. QED
    BY <1>1, <2>1, ResizingCall
<1>5. CASE reset
  <2>. USE DEF reset
  <2>1. NoneForgotten'
    BY <1>5 DEF NoneForgotten
  <2>. QED
    BY <1>1, <1>5, <2>1, QuietCall DEF events
<1>6. CASE SetStopped \/ wait_empty \/ WaitEmpty
  <2>1. /\ UNCHANGED <<m_maxSize, m_suspended, m_queue, m_waitingCount, m_pool, m_empty, th,
                      m_queueFill, destroyer, missed>>
        /\ m_stopped' \in BOOLEAN
    BY <1>1, <1>6 DEF SetStopped, wait_empty, WaitEmpty, settings, work, events
  <2>2. NoneForgotten'
    <3>1. Pooled' = Pooled /\ \A t : Leaving(t)' <=> Leaving(t)
      BY <2>1 DEF Pooled, Leaving
    <3>. QED
      BY <1>1, <2>1, <3>1 DEF NoneForgotten
  <2>. QED
    BY <1>1, <2>1, <2>2, QuietCall
<1>. QED
  BY <1>2, <1>3, <1>4, <1>5, <1>6

\* Every thread is told to stop; the queue is empty.
LEMMA DestroyStep ==
  ASSUME PoolAssumption, IInv, Destroy
  PROVE  IInv'
<1>. USE DEF Destroy
<1>1. /\ m_maxSize' = m_maxSize /\ m_suspended' = m_suspended /\ m_pool' = m_pool
      /\ m_waitingCount' = m_waitingCount /\ missed' = missed
      /\ m_stopped' = TRUE /\ m_queue' = 0 /\ Pooled' = Pooled
  BY DEF Pooled
<1>2. NoneForgotten'
  BY <1>1 DEF NoneForgotten
<1>3. m_pool \in Lists
  BY DEF IInv, TypeOK, Lists
<1>4. CASE m_pool = <<>>
  <2>1. destroyer' = "done" /\ UNCHANGED <<m_empty, th, m_queueFill>>
    BY <1>4
  <2>2. Pooled = {}
    BY <1>3, <1>4, EmptyList DEF Pooled
  <2>3. TypeOK'
    BY <1>1, <2>1, <2>2 DEF IInv, TypeOK
  <2>. QED
    BY <1>1, <1>2, <2>1, <2>3 DEF IInv
<1>5. CASE m_pool # <<>>
  <2>1. /\ destroyer' = "wait" /\ m_empty' = FALSE
        /\ th' = [t \in Threads |-> [th[t] EXCEPT !.notifiedStop = @ \/ t \in Pooled]]
        /\ m_queueFill' = notify_all(m_queueFill)
    BY <1>5
  <2>2. m_queueFill' \in Events /\ m_queueFill'.waitingCount = m_queueFill.waitingCount
    BY <2>1, EventOperations DEF IInv
  <2>3. ASSUME NEW t \in Threads PROVE th'[t] \in PooledThreads /\ th'[t].pc = th[t].pc
    <3>1. PICK b \in BOOLEAN : b <=> th[t].notifiedStop \/ t \in Pooled
      OBVIOUS
    <3>2. th[t] \in PooledThreads
      BY DEF IInv
    <3>3. th[t].notifiedStop \in BOOLEAN
      BY <3>2 DEF PooledThreads
    <3>4. th'[t] = [th[t] EXCEPT !.notifiedStop = b]
      BY <2>1, <3>1, <3>3
    <3>. QED
      BY <3>2, <3>4 DEF PooledThreads
  <2>4. th' \in [Threads -> PooledThreads]
    BY <2>1, <2>3
  <2>5. InWait(th') = InWait(th) /\ Asleep(th') = Asleep(th)
    BY <2>3 DEF InWait, Asleep
  <2>6. TypeOK'
    <3>1. /\ m_waitingCount = Cardinality(InWait(th))
          /\ m_queueFill.waitingCount = Cardinality(Asleep(th))
          /\ \A t \in Threads : th[t].pc # "none" <=> t \in Pooled
      BY DEF IInv, TypeOK, InWait, Asleep
    <3>2. /\ m_waitingCount' = Cardinality(InWait(th'))
          /\ m_queueFill'.waitingCount = Cardinality(Asleep(th'))
          /\ \A t \in Threads : th'[t].pc # "none" <=> t \in Pooled'
      BY <1>1, <2>2, <2>3, <2>5, <3>1
    <3>3. m_pool' \in Seq(Threads) /\ IsInjective(m_pool') /\ m_maxSize' \in Sizes
          /\ {m_stopped', m_suspended', m_empty', missed'} \subseteq BOOLEAN
      BY <1>1, <1>3, <2>1 DEF IInv, TypeOK, Lists
    <3>. QED
      BY <1>1, <2>1, <3>2, <3>3 DEF TypeOK, InWait, Asleep
  <2>. QED
    BY <1>1, <1>2, <2>1, <2>2, <2>4, <2>6 DEF IInv
<1>. QED
  BY <1>4, <1>5

LEMMA DestroyedStep ==
  ASSUME PoolAssumption, IInv, Destroyed
  PROVE  IInv'
<1>. USE DEF Destroyed
<1>1. m_pool = <<>>
  BY DEF IInv
<1>2. Pooled' = Pooled /\ Pooled = {} /\ \A t : Leaving(t)' <=> Leaving(t)
  BY <1>1 DEF Pooled, Range, Leaving
<1>3. TypeOK'
  BY <1>2 DEF IInv, TypeOK, settings, work, events
<1>4. NoneForgotten'
  BY <1>2 DEF IInv, NoneForgotten, settings, work
<1>. QED
  BY <1>1, <1>3, <1>4 DEF IInv, events

----------------------------------------------------------------------------
(***************************************************************************)
(* The theorems                                                            *)
(***************************************************************************)
LEMMA InitEstablishes ==
  ASSUME PoolAssumption, Init
  PROVE  IInv
<1>. USE DEF Init
<1>1. m_pool \in Lists /\ Pooled = {}
  BY DEF Lists, IsInjective, Pooled, Range
<1>2. NoThread \in PooledThreads /\ NoThread.pc = "none"
  BY DEF NoThread, PooledThreads, Places
<1>3. th \in [Threads -> PooledThreads] /\ \A t \in Threads : th[t].pc = "none"
  BY <1>2
<1>4. InWait(th) = {} /\ Asleep(th) = {}
  BY <1>3 DEF InWait, Asleep
<1>5. m_queueFill \in Events /\ m_queueFill.waitingCount = 0
  BY DEF Events, NewEvent
<1>6. TypeOK
  BY <1>1, <1>3, <1>4, <1>5, FS_EmptySet DEF TypeOK, Lists, InWait, Asleep
<1>7. NoneForgotten
  BY DEF NoneForgotten
<1>. QED
  BY <1>1, <1>3, <1>5, <1>6, <1>7 DEF IInv

LEMMA StepPreserves ==
  ASSUME PoolAssumption, IInv, [Next]_vars
  PROVE  IInv'
<1>1. CASE enqueue
  BY <1>1, EnqueueStep
<1>2. CASE set_max_size \/ suspend \/ resume \/ reset \/ SetStopped \/ wait_empty \/ WaitEmpty
  BY <1>2, CallStep
<1>3. CASE Destroy
  BY <1>3, DestroyStep
<1>4. CASE Destroyed
  BY <1>4, DestroyedStep
<1>5. CASE \E t \in Threads : ThreadStep(t)
  <2>1. PICK t \in Threads : ThreadStep(t)
    BY <1>5
  <2>2. CASE finalize(t)
    BY <2>2, ThreadLeaves
  <2>3. CASE CheckStopped(t) \/ pop_queue(t) \/ process(t) \/ wait_queue(t)
               \/ EnterWait(t) \/ Wake(t) \/ Waited(t)
    BY <2>3, ThreadGoesOn
  <2>. QED
    BY <2>1, <2>2, <2>3 DEF ThreadStep
<1>6. CASE UNCHANGED vars
  <2>1. UNCHANGED <<m_maxSize, m_stopped, m_suspended, m_queue, m_waitingCount, m_pool, m_empty,
                    th, m_queueFill, destroyer, missed>>
    BY <1>6 DEF vars, settings, work, events
  <2>2. Pooled' = Pooled /\ \A t : Leaving(t)' <=> Leaving(t)
    BY <2>1 DEF Pooled, Leaving
  <2>3. TypeOK'
    BY <2>1, <2>2 DEF IInv, TypeOK
  <2>4. NoneForgotten'
    BY <2>1, <2>2 DEF IInv, NoneForgotten
  <2>. QED
    BY <2>1, <2>3, <2>4 DEF IInv
<1>. QED
  BY <1>1, <1>2, <1>3, <1>4, <1>5, <1>6 DEF Next

\* The invariant holds in every state, for any sizes of the pool.
THEOREM InductiveInvariant == Spec => []IInv
<1>1. Init => IInv
  BY PoolAssumption, InitEstablishes
<1>2. IInv /\ [Next]_vars => IInv'
  BY PoolAssumption, StepPreserves
<1>. QED
  BY <1>1, <1>2, PTL DEF Spec

\* The list of the pool has every thread that runs once, m_waitingCount and the
\* event count exactly the threads in their wait, and the destructor has returned
\* only when no thread is left (threadpool.cpp:84, 160 and 318).
THEOREM TypeCorrect == Spec => []TypeOK
<1>1. IInv => TypeOK
  BY DEF IInv
<1>. QED
  BY <1>1, InductiveInvariant, PTL

\* A worker in the queue of a pool that is not suspended has a thread that looks
\* at the queue, unless the pool counted on one that was leaving: enqueue wakes a
\* waiting thread or makes one, and resume and set_max_size make up for what was
\* queued before (threadpool.cpp:180, 332).
THEOREM NoWorkerForgotten == Spec => []NoneForgotten
<1>1. IInv => NoneForgotten
  BY DEF IInv
<1>. QED
  BY <1>1, InductiveInvariant, PTL

=============================================================================
