------------------------- MODULE EventHandlerProofs -------------------------
(***************************************************************************)
(* Proofs about the event handler: what a subscription gets, and what it   *)
(* knows of the connection when it gets it, for any number of application  *)
(* threads, subscriptions and messages.                                    *)
(***************************************************************************)
EXTENDS EventHandler, SequenceTheorems, TLAPS

----------------------------------------------------------------------------
(***************************************************************************)
(* What a subscription was given, p, is in order and complete: it has      *)
(* every message of the log l of an event e behind w[e].                   *)
(***************************************************************************)
Gets(p, w, l) ==
  /\ \A i, j \in DOMAIN p : i < j => p[i] < p[j]
  /\ \A e \in DOMAIN w : \A n \in (w[e] + 1)..Len(l) :
       EventOf(l[n]) = e => n \in Range(p)

Wants == UNION {[S -> Nat] : S \in SUBSET Events}

\* What a new subscription gets: nothing, and it wants nothing.
LEMMA GetsFresh ==
  ASSUME NEW l
  PROVE  Gets(<<>>, [e \in {} |-> 0], l)
  BY DEF Gets

\* Subscribing for an event asks for nothing that was dispatched before.
LEMMA GetsSubscribed ==
  ASSUME NEW l \in Seq(Messages), NEW p, NEW w \in Wants, NEW e \in Events, Gets(p, w, l),
         NEW v, DOMAIN v = DOMAIN w \cup {e},
         \A f \in DOMAIN v : v[f] = IF f = e THEN Len(l) ELSE w[f]
  PROVE  Gets(p, v, l)
<1>1. Len(l) \in Nat /\ (Len(l) + 1)..Len(l) = {}
  BY LenProperties
<1>. QED
  BY <1>1 DEF Gets

\* A message that is dispatched and posted.
LEMMA GetsPosted ==
  ASSUME NEW l \in Seq(Messages), NEW p \in Seq(DOMAIN l), NEW w \in Wants,
         NEW m \in Messages, Gets(p, w, l)
  PROVE  Gets(Append(p, Len(l) + 1), w, Append(l, m))
<1>. DEFINE q == Append(p, Len(l) + 1)
            k == Append(l, m)
<1>1. /\ Len(l) \in Nat /\ Len(p) \in Nat
      /\ DOMAIN p = 1..Len(p) /\ DOMAIN l = 1..Len(l)
      /\ \A i \in 1..Len(p) : p[i] \in 1..Len(l)
  BY LenProperties
<1>2. /\ DOMAIN q = 1..Len(p) + 1
      /\ \A i \in 1..Len(p) : q[i] = p[i]
      /\ q[Len(p) + 1] = Len(l) + 1
  BY <1>1
<1>3. /\ Len(k) = Len(l) + 1
      /\ \A i \in 1..Len(l) : k[i] = l[i]
  BY <1>1
<1>4. ASSUME NEW i \in DOMAIN q, NEW j \in DOMAIN q, i < j
      PROVE  q[i] < q[j]
  <2>1. i \in 1..Len(p)
    BY <1>1, <1>2, <1>4
  <2>2. CASE j \in 1..Len(p)
    BY <1>1, <1>2, <1>4, <2>1, <2>2 DEF Gets
  <2>3. CASE j = Len(p) + 1
    BY <1>1, <1>2, <2>1, <2>3
  <2>. QED
    BY <1>1, <1>2, <2>2, <2>3
<1>5. ASSUME NEW e \in DOMAIN w, NEW n \in (w[e] + 1)..Len(k), EventOf(k[n]) = e
      PROVE  n \in Range(q)
  <2>1. w[e] \in Nat
    BY DEF Wants
  <2>2. CASE n = Len(l) + 1
    BY <1>1, <1>2, <2>2 DEF Range
  <2>3. CASE n \in (w[e] + 1)..Len(l)
    <3>1. k[n] = l[n]
      BY <1>1, <1>3, <2>1, <2>3
    <3>2. n \in Range(p)
      BY <1>5, <2>3, <3>1 DEF Gets
    <3>3. PICK i \in DOMAIN p : p[i] = n
      BY <3>2 DEF Range
    <3>4. i \in DOMAIN q /\ q[i] = n
      BY <1>1, <1>2, <3>3
    <3>. QED
      BY <3>4 DEF Range
  <2>. QED
    BY <1>1, <1>3, <1>5, <2>1, <2>2, <2>3
<1>. HIDE DEF q, k
<1>6. Gets(q, w, k)
  BY <1>4, <1>5 DEF Gets
<1>. QED
  BY <1>6 DEF q, k

\* A message of an event that the subscription did not ask for.
LEMMA GetsOther ==
  ASSUME NEW l \in Seq(Messages), NEW p, NEW w \in Wants,
         NEW m \in Messages, Gets(p, w, l), EventOf(m) \notin DOMAIN w
  PROVE  Gets(p, w, Append(l, m))
<1>1. Len(l) \in Nat /\ Len(Append(l, m)) = Len(l) + 1
  BY LenProperties
<1>2. \A i \in 1..Len(l) : Append(l, m)[i] = l[i]
  BY <1>1
<1>3. Append(l, m)[Len(l) + 1] = m
  BY <1>1
<1>4. \A e \in DOMAIN w : w[e] \in Nat
  BY DEF Wants
<1>. DEFINE k == Append(l, m)
<1>. HIDE DEF k
<1>5. ASSUME NEW e \in DOMAIN w, NEW n \in (w[e] + 1)..Len(k), EventOf(k[n]) = e
      PROVE  n \in Range(p)
  <2>1. n # Len(l) + 1
    BY <1>3, <1>5 DEF k
  <2>2. n \in 1..Len(l) /\ n \in (w[e] + 1)..Len(l)
    BY <1>1, <1>4, <2>1 DEF k
  <2>3. l[n] = k[n]
    BY <1>2, <2>2 DEF k
  <2>. QED
    BY <1>5, <2>2, <2>3 DEF Gets
<1>6. Gets(p, w, k)
  BY <1>5 DEF Gets
<1>. QED
  BY <1>6 DEF k

----------------------------------------------------------------------------
(***************************************************************************)
(* Queues                                                                  *)
(***************************************************************************)
\* Taking a message from the queue to the callback loses none.
LEMMA PopKeeps ==
  ASSUME NEW S, NEW d \in Seq(S), NEW q \in Seq(S), q # <<>>
  PROVE  /\ Append(d, Head(q)) \in Seq(S) /\ Tail(q) \in Seq(S)
         /\ Append(d, Head(q)) \o Tail(q) = d \o q
<1>1. Len(q) \in Nat \ {0} /\ Len(d) \in Nat
  BY EmptySeq, LenProperties
<1>2. Head(q) = q[1] /\ q[1] \in S
  BY <1>1
<1>3. /\ Tail(q) \in Seq(S) /\ Len(Tail(q)) = Len(q) - 1
      /\ \A i \in 1..Len(q) - 1 : Tail(q)[i] = q[i + 1]
  BY <1>1, HeadTailProperties
<1>4. /\ Append(d, Head(q)) \in Seq(S) /\ Len(Append(d, Head(q))) = Len(d) + 1
      /\ \A i \in 1..Len(d) : Append(d, Head(q))[i] = d[i]
      /\ Append(d, Head(q))[Len(d) + 1] = q[1]
  BY <1>1, <1>2
<1>. DEFINE a == Append(d, Head(q))
            t == Tail(q)
<1>. HIDE DEF a, t
<1>5. /\ a \o t \in Seq(S) /\ Len(a \o t) = Len(d) + Len(q)
      /\ d \o q \in Seq(S) /\ Len(d \o q) = Len(d) + Len(q)
  BY <1>1, <1>3, <1>4, ConcatProperties DEF a, t
<1>6. ASSUME NEW i \in 1..Len(d) + Len(q)
      PROVE  (a \o t)[i] = (d \o q)[i]
  <2>1. (a \o t)[i] = IF i <= Len(a) THEN a[i] ELSE t[i - Len(a)]
    BY <1>1, <1>3, <1>4, ConcatProperties DEF a, t
  <2>2. (d \o q)[i] = IF i <= Len(d) THEN d[i] ELSE q[i - Len(d)]
    BY <1>1, ConcatProperties
  <2>. QED
    BY <1>1, <1>3, <1>4, <2>1, <2>2 DEF a, t
<1>7. a \o t = d \o q
  BY <1>5, <1>6, SeqEqual
<1>. QED
  BY <1>3, <1>4, <1>7 DEF a, t

\* An id that is listed once gets the message once.
LEMMA PostsOnce ==
  ASSUME NEW S, NEW q \in Seq(S), NEW x, NEW T, NEW d \in Seq(S), S \subseteq T, x \in T
  PROVE  /\ q \o <<x>> \in Seq(T)
         /\ d \o (q \o <<x>>) = Append(d \o q, x)
<1>1. q \in Seq(T) /\ d \in Seq(T) /\ d \o q \in Seq(T)
  BY ConcatProperties
<1>2. <<x>> \in Seq(T)
  OBVIOUS
<1>3. q \o <<x>> \in Seq(T)
  BY <1>1, <1>2, ConcatProperties
<1>4. d \o (q \o <<x>>) = (d \o q) \o <<x>>
  BY <1>1, <1>2, ConcatAssociative
<1>5. (d \o q) \o <<x>> = Append(d \o q, x)
  BY <1>1, AppendIsConcat
<1>. QED
  BY <1>3, <1>4, <1>5

----------------------------------------------------------------------------
(***************************************************************************)
(* The inductive invariant.  The registered ids are listed for the events  *)
(* they want: else a dispatch would pass them over.  The thread of the     *)
(* handler keeps a course: what it is about to announce goes with where it *)
(* is, and while the connection is open and CONNECTED has gone out, the    *)
(* last status of the log is CONNECTED.                                    *)
(***************************************************************************)
Listed ==
  \A id \in m_subscriptions : \A e \in DOMAIN wanted[id] : m_subscriptionsByEvent[e][id] = 1

Connected ==
  \E k \in 1..Len(log) :
    /\ log[k] = "CONNECTED"
    /\ \A j \in (k + 1)..Len(log) : log[j] \notin Status

Course ==
  /\ epc \in {"off", "open", "retry"} => ~m_open
  /\ epc \in {"off", "open"} => out = None
  /\ epc = "connected" => out = "CONNECTED"
  /\ epc = "closing" => out = "STOPPED"
  /\ epc = "retry" => out \in {None, "DISCONNECTED", "NOTCONNECTED"}
  /\ epc = "loop" => out \in {None, "CONNECTED", "DATA"}
  /\ out = "DATA" => m_open
  /\ epc = "loop" /\ m_open /\ out # "CONNECTED" => Connected

IInv ==
  /\ TypeOK
  /\ wanted \in [Ids -> Wants]
  /\ Listed
  /\ Delivery
  /\ Course
  /\ StatusBeforeData

----------------------------------------------------------------------------
(***************************************************************************)
(* Kinds of steps                                                          *)
(***************************************************************************)
LEMMA DeliveryIsGets ==
  /\ Delivery <=> \A id \in m_subscriptions : Gets(Posted(id), wanted[id], log)
  /\ Delivery' <=> \A id \in m_subscriptions' : Gets(Posted(id)', wanted'[id], log')
  BY DEF Delivery, Gets

\* A step that leaves alone what a subscription gets.
LEMMA BookKept ==
  ASSUME IInv,
         UNCHANGED <<m_subscriptions, wanted, m_subscriptionsByEvent, m_msgQueue, delivered, log>>
  PROVE  wanted' \in [Ids -> Wants] /\ Listed' /\ Delivery'
<1>1. \A id : Posted(id)' = Posted(id)
  BY DEF Posted
<1>. QED
  BY <1>1, DeliveryIsGets DEF IInv, Listed

\* A step that leaves alone the thread of the handler.
LEMMA CourseKept ==
  ASSUME IInv, UNCHANGED <<epc, out, m_open, log>>
  PROVE  Course' /\ StatusBeforeData'
  BY DEF IInv, Course, Connected, StatusBeforeData

\* A fresh handler of an id, which is registered now or is not any more.
LEMMA FreshStep ==
  ASSUME IInv, NEW id, NEW a \in Apps, NEW at \in {"none", "queue"}, Fresh(id, a, at),
         m_subscriptions' \subseteq m_subscriptions \cup {id}, UNCHANGED <<m_subscriptionsByEvent, log>>,
         id \in m_subscriptions' => id \in Ids
  PROVE  /\ m_handle' \in [Ids -> Apps]
         /\ th' \in [Ids -> {"none", "queue", "work", "wait", "done"}]
         /\ m_msgQueue' \in [Ids -> Seq(DOMAIN log')] /\ delivered' \in [Ids -> Seq(DOMAIN log')]
         /\ m_queueContent' \in [Ids -> BOOLEAN] /\ notifiedStop' \in [Ids -> BOOLEAN]
         /\ wanted' \in [Ids -> Wants] /\ Listed' /\ Delivery'
<1>1. m_handle' \in [Ids -> Apps] /\ th' \in [Ids -> {"none", "queue", "work", "wait", "done"}]
  BY DEF IInv, TypeOK, Fresh
<1>2. m_queueContent' \in [Ids -> BOOLEAN] /\ notifiedStop' \in [Ids -> BOOLEAN]
  BY DEF IInv, TypeOK, Fresh
<1>3. m_msgQueue' \in [Ids -> Seq(DOMAIN log')] /\ delivered' \in [Ids -> Seq(DOMAIN log')]
  <2>1. <<>> \in Seq(DOMAIN log)
    OBVIOUS
  <2>. QED
    BY <2>1 DEF IInv, TypeOK, Fresh
<1>4. wanted' \in [Ids -> Wants]
  <2>1. [e \in {} |-> 0] \in [{} -> Nat]
    OBVIOUS
  <2>2. [e \in {} |-> 0] \in Wants
    BY <2>1 DEF Wants
  <2>. QED
    BY <2>2 DEF IInv, Fresh
<1>5. ASSUME NEW i \in m_subscriptions', i # id
      PROVE  /\ i \in m_subscriptions /\ i \in Ids
             /\ wanted'[i] = wanted[i] /\ Posted(i)' = Posted(i)
  BY <1>5 DEF IInv, TypeOK, Fresh, Posted
<1>6. ASSUME id \in m_subscriptions'
      PROVE  wanted'[id] = [e \in {} |-> 0] /\ Posted(id)' = <<>>
  <2>1. wanted'[id] = [e \in {} |-> 0] /\ delivered'[id] = <<>> /\ m_msgQueue'[id] = <<>>
    BY <1>6 DEF IInv, TypeOK, Fresh
  <2>2. <<>> \o <<>> = <<>>
    OBVIOUS
  <2>. QED
    BY <2>1, <2>2 DEF Posted
<1>7. Listed'
  <2>. SUFFICES ASSUME NEW i \in m_subscriptions', NEW e \in DOMAIN wanted'[i]
                PROVE  m_subscriptionsByEvent'[e][i] = 1
    BY DEF Listed
  <2>1. i # id
    BY <1>6
  <2>. QED
    BY <1>5, <2>1 DEF IInv, Listed
<1>8. Delivery'
  <2>1. ASSUME NEW i \in m_subscriptions'
        PROVE  Gets(Posted(i)', wanted'[i], log')
    <3>1. CASE i = id
      BY <1>6, <3>1, GetsFresh
    <3>2. CASE i # id
      BY <1>5, <3>2, DeliveryIsGets DEF IInv
    <3>. QED
      BY <3>1, <3>2
  <2>. QED
    BY <2>1, DeliveryIsGets
<1>. QED
  BY <1>1, <1>2, <1>3, <1>4, <1>7, <1>8

----------------------------------------------------------------------------
(***************************************************************************)
(* The registry and the threads of the subscriptions                       *)
(***************************************************************************)
LEMMA CreateStep ==
  ASSUME ActorsAssumption, IInv, NEW a \in Apps, CreateSubscription(a)
  PROVE  IInv'
<1>. USE DEF CreateSubscription
<1>1. CASE m_subscriptions' = m_subscriptions \cup {NextId} /\ Fresh(NextId, a, "queue")
  <2>1. Course' /\ StatusBeforeData'
    BY CourseKept DEF handler
  <2>2. "queue" \in {"none", "queue"}
    OBVIOUS
  <2>3. UNCHANGED <<m_subscriptionsByEvent, log>>
    BY DEF handler
  <2>4. /\ m_handle' \in [Ids -> Apps]
        /\ th' \in [Ids -> {"none", "queue", "work", "wait", "done"}]
        /\ m_msgQueue' \in [Ids -> Seq(DOMAIN log')] /\ delivered' \in [Ids -> Seq(DOMAIN log')]
        /\ m_queueContent' \in [Ids -> BOOLEAN] /\ notifiedStop' \in [Ids -> BOOLEAN]
        /\ wanted' \in [Ids -> Wants] /\ Listed' /\ Delivery'
    BY <1>1, <2>2, <2>3, FreshStep
  <2>5. TypeOK'
    BY <1>1, <2>4 DEF IInv, TypeOK, handler
  <2>. QED
    BY <2>1, <2>4, <2>5 DEF IInv
<1>2. CASE UNCHANGED <<m_subscriptions, m_handle, wanted, threads>>
  <2>1. Course' /\ StatusBeforeData'
    BY CourseKept DEF handler
  <2>2. wanted' \in [Ids -> Wants] /\ Listed' /\ Delivery'
    BY <1>2, BookKept DEF handler, threads
  <2>3. TypeOK'
    BY <1>2 DEF IInv, TypeOK, handler, threads
  <2>. QED
    BY <2>1, <2>2, <2>3 DEF IInv
<1>. QED
  BY <1>1, <1>2

LEMMA SubscribeStep ==
  ASSUME ActorsAssumption, IInv, NEW a \in Apps, NEW id \in Ids, NEW e \in Asked,
         SubscribeForEvent(a, id, e)
  PROVE  IInv'
<1>. USE DEF SubscribeForEvent
<1>1. e \in Events
  BY DEF ActorsAssumption, Events
<1>2. Course' /\ StatusBeforeData'
  BY CourseKept DEF handler
<1>3. /\ m_subscriptionsByEvent' \in [Events -> [Ids -> 0..1]]
      /\ m_subscriptionsByEvent'[e][id] = 1
      /\ \A f \in Events, i \in Ids :
           m_subscriptionsByEvent[f][i] = 1 => m_subscriptionsByEvent'[f][i] = 1
  BY <1>1 DEF IInv, TypeOK
<1>4. TypeOK'
  BY <1>3 DEF IInv, TypeOK, handler, threads
<1>. DEFINE w == [f \in DOMAIN wanted[id] \cup {e} |-> IF f = e THEN Len(log) ELSE wanted[id][f]]
<1>5. wanted' = [wanted EXCEPT ![id] = w]
  OBVIOUS
<1>. HIDE DEF w
<1>6. wanted[id] \in Wants /\ Gets(Posted(id), wanted[id], log) /\ log \in Seq(Messages)
  BY DeliveryIsGets DEF IInv, TypeOK
<1>7. Gets(Posted(id), w, log) /\ w \in Wants
  <2>1. PICK x, p : x = wanted[id] /\ p = Posted(id)
    OBVIOUS
  <2>2. DOMAIN w = DOMAIN x \cup {e} /\ \A f \in DOMAIN w : w[f] = IF f = e THEN Len(log) ELSE x[f]
    BY <2>1 DEF w
  <2>3. x \in Wants /\ Gets(p, x, log)
    BY <1>6, <2>1
  <2>4. Gets(p, w, log)
    BY <1>1, <1>6, <2>2, <2>3, GetsSubscribed
  <2>5. Len(log) \in Nat /\ DOMAIN x \in SUBSET Events /\ \A f \in DOMAIN x : x[f] \in Nat
    BY <1>6, <2>3, LenProperties DEF Wants
  <2>6. w \in [DOMAIN x \cup {e} -> Nat] /\ DOMAIN x \cup {e} \in SUBSET Events
    BY <1>1, <2>1, <2>5 DEF w
  <2>7. w \in Wants
    BY <2>6 DEF Wants
  <2>. QED
    BY <2>1, <2>4, <2>7
<1>8. wanted' \in [Ids -> Wants]
  BY <1>5, <1>7 DEF IInv
<1>9. /\ wanted'[id] = w
      /\ \A i \in Ids : i # id => wanted'[i] = wanted[i]
  BY <1>5 DEF IInv
<1>10. Listed'
  <2>. SUFFICES ASSUME NEW i \in m_subscriptions', NEW f \in DOMAIN wanted'[i]
                PROVE  m_subscriptionsByEvent'[f][i] = 1
    BY DEF Listed
  <2>1. i \in Ids /\ i \in m_subscriptions
    BY DEF IInv, TypeOK
  <2>2. f \in Events
    BY <1>8, <2>1 DEF Wants
  <2>3. CASE i # id
    BY <1>3, <1>9, <2>1, <2>2, <2>3 DEF IInv, Listed
  <2>4. CASE i = id /\ f # e
    <3>1. f \in DOMAIN wanted[i]
      BY <1>9, <2>4 DEF w
    <3>. QED
      BY <1>3, <2>1, <2>2, <3>1 DEF IInv, Listed
  <2>5. CASE i = id /\ f = e
    BY <1>3, <2>5
  <2>. QED
    BY <2>3, <2>4, <2>5
<1>11. Delivery'
  <2>1. \A i : Posted(i)' = Posted(i)
    BY DEF Posted, threads
  <2>2. ASSUME NEW i \in m_subscriptions'
        PROVE  Gets(Posted(i)', wanted'[i], log')
    <3>1. i \in Ids /\ i \in m_subscriptions /\ log' = log
      BY DEF IInv, TypeOK, handler
    <3>. QED
      BY <1>7, <1>9, <2>1, <3>1, DeliveryIsGets DEF IInv
  <2>. QED
    BY <2>2, DeliveryIsGets
<1>. QED
  BY <1>2, <1>4, <1>8, <1>10, <1>11 DEF IInv

LEMMA RevokeBegins ==
  ASSUME IInv, NEW a \in Apps, NEW S, S \subseteq m_subscriptions, Revoke(a, S)
  PROVE  IInv'
<1>. USE DEF Revoke
<1>1. Course' /\ StatusBeforeData'
  BY CourseKept DEF handler
<1>2. wanted' \in [Ids -> Wants] /\ Listed' /\ Delivery'
  BY BookKept DEF registry, threads, handler
<1>3. TypeOK'
  <2>1. S \in SUBSET Ids
    BY DEF IInv, TypeOK
  <2>2. m_mutex' \in Apps \cup {Nobody} /\ todo' \in [Apps -> SUBSET Ids]
        /\ apc' \in [Apps -> {"idle", "signal", "notify", "join", "stopwait"}]
    BY <2>1 DEF IInv, TypeOK
  <2>. QED
    BY <2>2 DEF IInv, TypeOK, registry, threads, handler
<1>. QED
  BY <1>1, <1>2, <1>3 DEF IInv

LEMMA RevokeGoesOn ==
  ASSUME ActorsAssumption, IInv, NEW a \in Apps, RevokeStep(a)
  PROVE  IInv'
<1>1. CASE SignalStop(a)
  <2>1. Course' /\ StatusBeforeData'
    BY <1>1, CourseKept DEF SignalStop, handler
  <2>2. wanted' \in [Ids -> Wants] /\ Listed' /\ Delivery'
    BY <1>1, BookKept DEF SignalStop, registry, handler
  <2>3. TypeOK'
    BY <1>1 DEF SignalStop, IInv, TypeOK, registry, handler
  <2>. QED
    BY <2>1, <2>2, <2>3 DEF IInv
<1>2. CASE NotifyStop(a)
  <2>1. Course' /\ StatusBeforeData'
    BY <1>2, CourseKept DEF NotifyStop, handler
  <2>2. wanted' \in [Ids -> Wants] /\ Listed' /\ Delivery'
    BY <1>2, BookKept DEF NotifyStop, registry, handler
  <2>3. TypeOK'
    BY <1>2 DEF NotifyStop, IInv, TypeOK, registry, handler
  <2>. QED
    BY <2>1, <2>2, <2>3 DEF IInv
<1>3. CASE JoinErase(a)
  <2>1. Course' /\ StatusBeforeData'
    BY <1>3, CourseKept DEF JoinErase, handler
  <2>2. PICK id : id = Current(a)
    OBVIOUS
  <2>3. /\ Fresh(id, Controller, "none") /\ Controller \in Apps /\ "none" \in {"none", "queue"}
        /\ m_subscriptions' = m_subscriptions \ {id}
        /\ UNCHANGED <<m_subscriptionsByEvent, log>>
    BY <1>3, <2>2 DEF JoinErase, handler, ActorsAssumption
  <2>4. /\ m_handle' \in [Ids -> Apps]
        /\ th' \in [Ids -> {"none", "queue", "work", "wait", "done"}]
        /\ m_msgQueue' \in [Ids -> Seq(DOMAIN log')] /\ delivered' \in [Ids -> Seq(DOMAIN log')]
        /\ m_queueContent' \in [Ids -> BOOLEAN] /\ notifiedStop' \in [Ids -> BOOLEAN]
        /\ wanted' \in [Ids -> Wants] /\ Listed' /\ Delivery'
    BY <2>3, FreshStep
  <2>5. /\ m_mutex' \in Apps \cup {Nobody} /\ todo' \in [Apps -> SUBSET Ids]
        /\ apc' \in [Apps -> {"idle", "signal", "notify", "join", "stopwait"}]
    BY <1>3 DEF JoinErase, IInv, TypeOK
  <2>6. TypeOK'
    BY <1>3, <2>3, <2>4, <2>5 DEF JoinErase, IInv, TypeOK, handler
  <2>. QED
    BY <2>1, <2>4, <2>6 DEF IInv
<1>. QED
  BY <1>1, <1>2, <1>3 DEF RevokeStep

\* A message goes from the queue to the callback; the thread waits or wakes.
LEMMA SubscriptionGoesOn ==
  ASSUME IInv, NEW id \in Ids, SubscriptionStep(id)
  PROVE  IInv'
<1>1. Course' /\ StatusBeforeData'
  BY CourseKept DEF SubscriptionStep, SubPop, SubWait, SubWorked, SubWake, handler
<1>2. CASE SubPop(id)
  <2>. USE DEF SubPop
  <2>. DEFINE d == Append(delivered[id], Head(m_msgQueue[id]))
              q == Tail(m_msgQueue[id])
  <2>1. delivered[id] \in Seq(DOMAIN log) /\ m_msgQueue[id] \in Seq(DOMAIN log) /\ m_msgQueue[id] # <<>>
    BY <1>2 DEF IInv, TypeOK
  <2>2. d \in Seq(DOMAIN log) /\ q \in Seq(DOMAIN log) /\ d \o q = Posted(id)
    BY <2>1, PopKeeps DEF Posted
  <2>3. delivered' = [delivered EXCEPT ![id] = d] /\ m_msgQueue' = [m_msgQueue EXCEPT ![id] = q]
    BY <1>2
  <2>. HIDE DEF d, q
  <2>4. log' = log /\ UNCHANGED registry
    BY <1>2 DEF handler
  <2>5. delivered' \in [Ids -> Seq(DOMAIN log')] /\ m_msgQueue' \in [Ids -> Seq(DOMAIN log')]
    BY <2>2, <2>3, <2>4 DEF IInv, TypeOK
  <2>6. th' \in [Ids -> {"none", "queue", "work", "wait", "done"}]
    BY <1>2 DEF IInv, TypeOK
  <2>7. TypeOK'
    BY <1>2, <2>4, <2>5, <2>6 DEF IInv, TypeOK, registry, handler
  <2>8. ASSUME NEW i \in Ids
        PROVE  Posted(i)' = Posted(i)
    BY <2>2, <2>3 DEF Posted, IInv, TypeOK
  <2>9. wanted' \in [Ids -> Wants] /\ Listed' /\ Delivery'
    <3>1. m_subscriptions' \subseteq Ids
      BY <2>4 DEF registry, IInv, TypeOK
    <3>. QED
      BY <2>4, <2>8, <3>1, DeliveryIsGets DEF registry, IInv, Listed
  <2>. QED
    BY <1>1, <2>7, <2>9 DEF IInv
<1>3. CASE SubWait(id) \/ SubWorked(id) \/ SubWake(id)
  <2>1. wanted' \in [Ids -> Wants] /\ Listed' /\ Delivery'
    BY <1>3, BookKept DEF SubWait, SubWorked, SubWake, registry, handler
  <2>2. TypeOK'
    BY <1>3 DEF SubWait, SubWorked, SubWake, IInv, TypeOK, registry, handler
  <2>. QED
    BY <1>1, <2>1, <2>2 DEF IInv
<1>. QED
  BY <1>2, <1>3 DEF SubscriptionStep

----------------------------------------------------------------------------
(***************************************************************************)
(* The thread of the handler                                               *)
(***************************************************************************)
\* What is dispatched is added to the log behind a status CONNECTED, or is a
\* status itself.
LEMMA LogStep ==
  ASSUME IInv, NEW m \in Messages, log' = Append(log, m), m = "DATA" => Connected
  PROVE  /\ StatusBeforeData'
         /\ m = "CONNECTED" => Connected'
         /\ m = "DATA" => Connected'
<1>. USE DEF Status
<1>1. /\ log \in Seq(Messages) /\ Len(log) \in Nat
      /\ DOMAIN log = 1..Len(log) /\ DOMAIN log' = 1..Len(log) + 1
      /\ Len(log') = Len(log) + 1
      /\ \A i \in 1..Len(log) : log'[i] = log[i]
      /\ log'[Len(log) + 1] = m
  BY LenProperties DEF IInv, TypeOK
<1>2. ASSUME NEW n \in DOMAIN log', log'[n] = "DATA"
      PROVE  \E k \in 1..(n - 1) : /\ log'[k] = "CONNECTED"
                                  /\ \A j \in (k + 1)..(n - 1) : log'[j] \notin Status
  <2>1. CASE n \in 1..Len(log)
    <3>1. PICK k \in 1..(n - 1) : /\ log[k] = "CONNECTED"
                                  /\ \A j \in (k + 1)..(n - 1) : log[j] \notin Status
      BY <1>1, <1>2, <2>1 DEF IInv, StatusBeforeData
    <3>2. log'[k] = "CONNECTED" /\ \A j \in (k + 1)..(n - 1) : log'[j] \notin Status
      BY <1>1, <2>1, <3>1
    <3>. QED
      BY <3>2
  <2>2. CASE n = Len(log) + 1
    <3>1. PICK k \in 1..Len(log) : /\ log[k] = "CONNECTED"
                                   /\ \A j \in (k + 1)..Len(log) : log[j] \notin Status
      BY <1>1, <1>2, <2>2 DEF Connected
    <3>2. k \in 1..(n - 1) /\ log'[k] = "CONNECTED" /\ \A j \in (k + 1)..(n - 1) : log'[j] \notin Status
      BY <1>1, <2>2, <3>1
    <3>. QED
      BY <3>2
  <2>. QED
    BY <1>1, <2>1, <2>2
<1>3. StatusBeforeData'
  BY <1>2 DEF StatusBeforeData
<1>4. ASSUME m = "CONNECTED" PROVE Connected'
  <2>1. /\ Len(log) + 1 \in 1..Len(log') /\ log'[Len(log) + 1] = "CONNECTED"
        /\ \A j \in (Len(log) + 1 + 1)..Len(log') : log'[j] \notin Status
    BY <1>1, <1>4
  <2>. QED
    BY <2>1 DEF Connected
<1>5. ASSUME m = "DATA" PROVE Connected'
  <2>1. PICK k \in 1..Len(log) : /\ log[k] = "CONNECTED"
                                 /\ \A j \in (k + 1)..Len(log) : log[j] \notin Status
    BY <1>5 DEF Connected
  <2>2. /\ k \in 1..Len(log') /\ log'[k] = "CONNECTED"
        /\ \A j \in (k + 1)..Len(log') : log'[j] \notin Status
    BY <1>1, <1>5, <2>1
  <2>. QED
    BY <2>2 DEF Connected
<1>. QED
  BY <1>3, <1>4, <1>5

\* A dispatch gives every registered id the message of an event that it wants.
LEMMA DispatchStep ==
  ASSUME IInv, NEW m \in Messages, DispatchEvent(m)
  PROVE  /\ m_subscriptionsByEvent' \in [Events -> [Ids -> 0..1]]
         /\ m_msgQueue' \in [Ids -> Seq(DOMAIN log')] /\ delivered' \in [Ids -> Seq(DOMAIN log')]
         /\ m_queueContent' \in [Ids -> BOOLEAN]
         /\ log' \in Seq(Messages)
         /\ wanted' \in [Ids -> Wants] /\ Listed' /\ Delivery'
<1>. USE DEF DispatchEvent
<1>. DEFINE ev == EventOf(m)
            listed == m_subscriptionsByEvent[ev]
<1>1. ev \in Events
  BY DEF EventOf, Events
<1>2. listed \in [Ids -> 0..1]
  BY <1>1 DEF IInv, TypeOK
<1>3. /\ log \in Seq(Messages) /\ Len(log) \in Nat /\ log' = Append(log, m)
      /\ DOMAIN log = 1..Len(log) /\ DOMAIN log' = 1..Len(log) + 1
      /\ log' \in Seq(Messages)
  BY LenProperties DEF IInv, TypeOK
<1>4. DOMAIN log \subseteq DOMAIN log' /\ Len(log) + 1 \in DOMAIN log'
  BY <1>3
<1>. HIDE DEF ev, listed
<1>5. m_subscriptionsByEvent' =
        [m_subscriptionsByEvent EXCEPT ![ev] = [id \in Ids |-> IF id \in m_subscriptions THEN listed[id] ELSE 0]]
  BY DEF EraseRevoked, ev, listed
<1>6. m_subscriptionsByEvent' \in [Events -> [Ids -> 0..1]]
  BY <1>1, <1>2, <1>5 DEF IInv, TypeOK
<1>7. ASSUME NEW id \in Ids
      PROVE  m_msgQueue[id] \in Seq(DOMAIN log) /\ delivered[id] \in Seq(DOMAIN log)
  BY DEF IInv, TypeOK
<1>8. ASSUME NEW id \in Ids, id \in m_subscriptions, listed[id] = 1
      PROVE  /\ m_msgQueue'[id] \in Seq(DOMAIN log')
             /\ delivered[id] \o m_msgQueue'[id] = Append(Posted(id), Len(log) + 1)
  <2>1. m_msgQueue'[id] = m_msgQueue[id] \o [k \in 1..1 |-> Len(log) + 1]
    BY <1>8 DEF Post, ev, listed
  <2>2. PICK x, S, T, q, d : /\ x = Len(log) + 1 /\ S = DOMAIN log /\ T = DOMAIN log'
                             /\ q = m_msgQueue[id] /\ d = delivered[id]
    OBVIOUS
  <2>3. q \in Seq(S) /\ d \in Seq(S) /\ S \subseteq T /\ x \in T /\ m_msgQueue'[id] = q \o <<x>>
    <3>1. [k \in 1..1 |-> x] = <<x>>
      OBVIOUS
    <3>. QED
      BY <1>4, <1>7, <2>1, <2>2, <3>1
  <2>4. q \o <<x>> \in Seq(T) /\ d \o (q \o <<x>>) = Append(d \o q, x)
    BY <2>3, PostsOnce
  <2>. QED
    BY <2>2, <2>3, <2>4 DEF Posted
<1>9. ASSUME NEW id \in Ids, id \notin m_subscriptions \/ listed[id] # 1
      PROVE  m_msgQueue'[id] = m_msgQueue[id]
  <2>1. ~(id \in m_subscriptions /\ listed[id] > 0)
    BY <1>2, <1>9
  <2>. QED
    BY <2>1 DEF Post, ev, listed
<1>10. m_msgQueue' \in [Ids -> Seq(DOMAIN log')]
  <2>1. m_msgQueue' = [id \in Ids |-> m_msgQueue'[id]]
    BY DEF Post
  <2>2. ASSUME NEW id \in Ids PROVE m_msgQueue'[id] \in Seq(DOMAIN log')
    <3>1. m_msgQueue[id] \in Seq(DOMAIN log')
      BY <1>4, <1>7
    <3>. QED
      BY <1>8, <1>9, <3>1
  <2>. QED
    BY <2>1, <2>2
<1>11. delivered' \in [Ids -> Seq(DOMAIN log')]
  <2>1. \A id \in Ids : delivered[id] \in Seq(DOMAIN log')
    BY <1>4, <1>7
  <2>. QED
    BY <2>1 DEF IInv, TypeOK
<1>12. m_queueContent' \in [Ids -> BOOLEAN]
  BY DEF Post, IInv, TypeOK
<1>13. wanted' = wanted /\ wanted' \in [Ids -> Wants] /\ m_subscriptions' = m_subscriptions
       /\ m_subscriptions \subseteq Ids
  BY DEF IInv, TypeOK
<1>14. Listed'
  <2>. SUFFICES ASSUME NEW i \in m_subscriptions', NEW f \in DOMAIN wanted'[i]
                PROVE  m_subscriptionsByEvent'[f][i] = 1
    BY DEF Listed
  <2>1. i \in Ids /\ i \in m_subscriptions /\ f \in Events
    BY <1>13 DEF Wants
  <2>2. m_subscriptionsByEvent[f][i] = 1
    BY <1>13, <2>1 DEF IInv, Listed
  <2>. QED
    BY <1>1, <1>5, <2>1, <2>2 DEF IInv, TypeOK, listed
<1>15. ASSUME NEW i \in m_subscriptions'
       PROVE  Gets(Posted(i)', wanted'[i], log')
  <2>1. i \in Ids /\ i \in m_subscriptions /\ wanted[i] \in Wants /\ Gets(Posted(i), wanted[i], log)
    BY <1>13, DeliveryIsGets DEF IInv
  <2>2. Posted(i) \in Seq(DOMAIN log)
    BY <1>7, <2>1, ConcatProperties DEF Posted
  <2>3. CASE listed[i] = 1
    <3>1. Posted(i)' = Append(Posted(i), Len(log) + 1)
      BY <1>8, <2>1, <2>3 DEF Posted
    <3>2. PICK p, w : p = Posted(i) /\ w = wanted[i]
      OBVIOUS
    <3>3. Gets(Append(p, Len(log) + 1), w, Append(log, m))
      BY <1>3, <2>1, <2>2, <3>2, GetsPosted
    <3>. QED
      BY <1>3, <1>13, <3>1, <3>2, <3>3
  <2>4. CASE listed[i] # 1
    <3>1. Posted(i)' = Posted(i)
      BY <1>9, <2>1, <2>4 DEF Posted
    <3>2. ev \notin DOMAIN wanted[i]
      BY <2>1, <2>4 DEF IInv, Listed, listed
    <3>3. PICK p, w : p = Posted(i) /\ w = wanted[i]
      OBVIOUS
    <3>4. Gets(p, w, Append(log, m))
      BY <1>3, <2>1, <3>2, <3>3, GetsOther DEF ev
    <3>. QED
      BY <1>3, <1>13, <3>1, <3>3, <3>4
  <2>. QED
    BY <2>3, <2>4
<1>16. Delivery'
  BY <1>15, DeliveryIsGets
<1>. QED
  BY <1>3, <1>6, <1>10, <1>11, <1>12, <1>13, <1>14, <1>16

LEMMA AnnounceStep ==
  ASSUME IInv, Announce
  PROVE  IInv'
<1>. USE DEF Announce
<1>1. PICK m \in Messages : m = out
  BY DEF IInv, TypeOK
<1>2. DispatchEvent(m)
  BY <1>1
<1>3. /\ m_subscriptionsByEvent' \in [Events -> [Ids -> 0..1]]
      /\ m_msgQueue' \in [Ids -> Seq(DOMAIN log')] /\ delivered' \in [Ids -> Seq(DOMAIN log')]
      /\ m_queueContent' \in [Ids -> BOOLEAN]
      /\ log' \in Seq(Messages)
      /\ wanted' \in [Ids -> Wants] /\ Listed' /\ Delivery'
  BY <1>2, DispatchStep
<1>4. log' = Append(log, m) /\ UNCHANGED <<m_mutex, m_subscriptions, m_handle, th, notifiedStop>>
  BY <1>2 DEF DispatchEvent
<1>5. TypeOK'
  <2>1. epc' \in {"off", "open", "loop", "retry", "connected", "closing"}
    BY DEF IInv, TypeOK
  <2>2. m_open' \in BOOLEAN /\ m_reset' \in BOOLEAN
    BY DEF IInv, TypeOK
  <2>. QED
    BY <1>3, <1>4, <2>1, <2>2 DEF IInv, TypeOK
<1>6. m = "DATA" => Connected
  BY <1>1 DEF IInv, Course, TypeOK
<1>7. /\ StatusBeforeData'
      /\ m = "CONNECTED" => Connected'
      /\ m = "DATA" => Connected'
  BY <1>4, <1>6, LogStep
<1>8. out' = None /\ None \notin Messages
  BY DEF None, Messages, Status
<1>9. Course'
  <2>1. CASE epc = "connected"
    BY <1>1, <1>7, <1>8, <2>1 DEF IInv, Course, None
  <2>2. CASE epc = "closing"
    BY <1>8, <2>2 DEF IInv, Course, None
  <2>3. CASE epc = "loop"
    BY <1>1, <1>7, <1>8, <2>3 DEF IInv, Course, None
  <2>4. CASE epc = "retry"
    BY <1>8, <2>4 DEF IInv, Course, None
  <2>5. CASE epc \in {"off", "open"}
    BY <1>8, <2>5 DEF IInv, Course, None
  <2>. QED
    BY <2>1, <2>2, <2>3, <2>4, <2>5 DEF IInv, TypeOK
<1>. QED
  BY <1>3, <1>5, <1>7, <1>9 DEF IInv

LEMMA ProcessGoesOn ==
  ASSUME IInv, ProcessStep
  PROVE  IInv'
<1>1. CASE Announce
  BY <1>1, AnnounceStep
<1>2. CASE \/ ProcessOpen \/ Receive \/ Disconnected \/ Timer \/ LoopStopped
           \/ RetryOpened \/ RetryFailed \/ RetryStopped
  <2>. USE DEF ProcessOpen, Receive, Disconnected, Timer, LoopStopped, RetryOpened,
               RetryFailed, RetryStopped
  <2>1. UNCHANGED <<m_mutex, registry, threads, apc, todo, log>>
    BY <1>2
  <2>2. wanted' \in [Ids -> Wants] /\ Listed' /\ Delivery'
    BY <2>1, BookKept DEF registry, threads
  <2>3. /\ epc' \in {"off", "open", "loop", "retry", "connected", "closing"}
        /\ out' \in Messages \cup {None}
        /\ stopping' \in BOOLEAN /\ m_open' \in BOOLEAN /\ m_reset' \in BOOLEAN
    BY <1>2 DEF IInv, TypeOK, Messages, Status
  <2>4. TypeOK'
    BY <2>1, <2>3 DEF IInv, TypeOK, registry, threads
  <2>5. StatusBeforeData'
    BY <2>1 DEF IInv, StatusBeforeData
  <2>6. Connected' <=> Connected
    BY <2>1 DEF Connected
  <2>7. Course'
    <3>1. CASE ProcessOpen
      BY <2>6, <3>1 DEF IInv, Course, TypeOK, None
    <3>2. CASE Receive
      BY <2>6, <3>2 DEF IInv, Course, AtLoop, None
    <3>3. CASE Disconnected
      BY <3>3 DEF IInv, Course, AtLoop, None
    <3>4. CASE Timer
      BY <2>6, <3>4 DEF IInv, Course, AtLoop, None
    <3>5. CASE LoopStopped
      BY <3>5 DEF IInv, Course, AtLoop, None
    <3>6. CASE RetryOpened
      BY <3>6 DEF IInv, Course, None
    <3>7. CASE RetryFailed
      BY <3>7 DEF IInv, Course, None
    <3>8. CASE RetryStopped
      BY <2>6, <3>8 DEF IInv, Course, None
    <3>. QED
      BY <1>2, <3>1, <3>2, <3>3, <3>4, <3>5, <3>6, <3>7, <3>8
  <2>. QED
    BY <2>2, <2>4, <2>5, <2>7 DEF IInv
<1>. QED
  BY <1>1, <1>2 DEF ProcessStep

\* The application starts and stops the thread, or asks for a reset.
LEMMA ControlStep ==
  ASSUME ActorsAssumption, IInv, Start \/ Stop \/ StopJoin \/ \E a \in Apps : Reset(a)
  PROVE  IInv'
<1>. USE DEF Start, Stop, StopJoin, Reset
<1>1. UNCHANGED <<m_mutex, registry, threads, todo, out, log>>
  OBVIOUS
<1>2. wanted' \in [Ids -> Wants] /\ Listed' /\ Delivery'
  BY <1>1, BookKept DEF registry, threads
<1>3. /\ epc' \in {"off", "open", "loop", "retry", "connected", "closing"}
      /\ apc' \in [Apps -> {"idle", "signal", "notify", "join", "stopwait"}]
      /\ stopping' \in BOOLEAN /\ m_open' \in BOOLEAN /\ m_reset' \in BOOLEAN
  BY DEF IInv, TypeOK
<1>4. TypeOK'
  BY <1>1, <1>3 DEF IInv, TypeOK, registry, threads
<1>5. StatusBeforeData'
  BY <1>1 DEF IInv, StatusBeforeData
<1>6. Connected' <=> Connected
  BY <1>1 DEF Connected
<1>7. Course'
  BY <1>6 DEF IInv, Course, None
<1>. QED
  BY <1>2, <1>4, <1>5, <1>7 DEF IInv

----------------------------------------------------------------------------
(***************************************************************************)
(* The theorems                                                            *)
(***************************************************************************)
LEMMA InitEstablishes ==
  ASSUME ActorsAssumption, Init
  PROVE  IInv
<1>. USE DEF Init
<1>1. \A S : <<>> \in Seq(S)
  OBVIOUS
<1>2. m_msgQueue \in [Ids -> Seq(DOMAIN log)] /\ delivered \in [Ids -> Seq(DOMAIN log)]
      /\ log \in Seq(Messages)
  BY <1>1
<1>3. TypeOK
  <2>1. m_subscriptionsByEvent \in [Events -> [Ids -> 0..1]]
    OBVIOUS
  <2>2. m_handle \in [Ids -> Apps] /\ todo \in [Apps -> SUBSET Ids]
    BY DEF ActorsAssumption
  <2>3. /\ th \in [Ids -> {"none", "queue", "work", "wait", "done"}]
        /\ apc \in [Apps -> {"idle", "signal", "notify", "join", "stopwait"}]
    OBVIOUS
  <2>4. m_queueContent \in [Ids -> BOOLEAN] /\ notifiedStop \in [Ids -> BOOLEAN]
    OBVIOUS
  <2>. QED
    BY <1>2, <2>1, <2>2, <2>3, <2>4 DEF TypeOK
<1>4. wanted \in [Ids -> Wants]
  <2>1. [e \in {} |-> 0] \in [{} -> Nat]
    OBVIOUS
  <2>2. [e \in {} |-> 0] \in Wants
    BY <2>1 DEF Wants
  <2>. QED
    BY <2>2
<1>5. Listed /\ Delivery
  BY DEF Listed, Delivery
<1>6. Course
  BY DEF Course, None
<1>7. StatusBeforeData
  BY DEF StatusBeforeData
<1>. QED
  BY <1>3, <1>4, <1>5, <1>6, <1>7 DEF IInv

LEMMA StepPreserves ==
  ASSUME ActorsAssumption, IInv, [Next]_vars
  PROVE  IInv'
<1>1. CASE \E a \in Apps : CreateSubscription(a)
  BY <1>1, CreateStep
<1>2. CASE \E a \in Apps : \E id \in Ids, e \in Asked : SubscribeForEvent(a, id, e)
  BY <1>2, SubscribeStep
<1>3. CASE \E a \in Apps : RevokeSubscription(a) \/ RevokeAllSubscriptions(a)
  <2>1. PICK a \in Apps : RevokeSubscription(a) \/ RevokeAllSubscriptions(a)
    BY <1>3
  <2>2. \E S : S \subseteq m_subscriptions /\ Revoke(a, S)
    BY <2>1 DEF RevokeSubscription, RevokeAllSubscriptions, SubscriptionsOf
  <2>. QED
    BY <2>2, RevokeBegins
<1>4. CASE \E a \in Apps : RevokeStep(a)
  BY <1>4, RevokeGoesOn
<1>5. CASE Start \/ Stop \/ StopJoin \/ \E a \in Apps : Reset(a)
  BY <1>5, ControlStep
<1>6. CASE ProcessStep
  BY <1>6, ProcessGoesOn
<1>7. CASE \E id \in Ids : SubscriptionStep(id)
  BY <1>7, SubscriptionGoesOn
<1>8. CASE UNCHANGED vars
  <2>1. UNCHANGED registry /\ UNCHANGED threads /\ UNCHANGED handler /\ UNCHANGED <<m_mutex, apc, todo>>
    BY <1>8 DEF vars
  <2>2. Course' /\ StatusBeforeData'
    BY <2>1, CourseKept DEF handler
  <2>3. wanted' \in [Ids -> Wants] /\ Listed' /\ Delivery'
    BY <2>1, BookKept DEF registry, threads, handler
  <2>4. TypeOK'
    BY <2>1 DEF IInv, TypeOK, registry, threads, handler
  <2>. QED
    BY <2>2, <2>3, <2>4 DEF IInv
<1>. QED
  BY <1>1, <1>2, <1>3, <1>4, <1>5, <1>6, <1>7, <1>8 DEF Next

\* The invariant holds in every state, whatever the threads of the application
\* create, subscribe and revoke while messages are dispatched
\* (mytheventhandler.cpp:245 to 330).
THEOREM InductiveInvariant == Spec => []IInv
<1>1. Init => IInv
  BY ActorsAssumption, InitEstablishes
<1>2. IInv /\ [Next]_vars => IInv'
  BY ActorsAssumption, StepPreserves
<1>. QED
  BY <1>1, <1>2, PTL DEF Spec

\* Every variable keeps its type; SubscribeForEvent puts an id into the list of an
\* event at most once, also an id that was revoked and is in use again
\* (mytheventhandler.cpp:263).
THEOREM TypeCorrect == Spec => []TypeOK
<1>1. IInv => TypeOK
  BY DEF IInv
<1>. QED
  BY <1>1, InductiveInvariant, PTL

\* A subscription gets every message of its events that is dispatched after it
\* subscribed, once and in order: DispatchEvent, which takes the revoked ids out
\* of the list as it goes, passes nobody over (mytheventhandler.cpp:308).
THEOREM AlwaysDelivered == Spec => []Delivery
<1>1. IInv => Delivery
  BY DEF IInv
<1>. QED
  BY <1>1, InductiveInvariant, PTL

\* Behind the last status before a message of the backend the connection is
\* known to be CONNECTED, through losses, resets, failed retries and restarts of
\* the handler (mytheventhandler.cpp:330).
THEOREM StatusAlwaysFirst == Spec => []StatusBeforeData
<1>1. IInv => StatusBeforeData
  BY DEF IInv
<1>. QED
  BY <1>1, InductiveInvariant, PTL

=============================================================================
