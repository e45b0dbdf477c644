---------------------------- MODULE EventHandler ----------------------------
(***************************************************************************)
(* BasicEventHandler and its SubscriptionHandlerThreads                    *)
(* (cppmyth/src/mytheventhandler.cpp): one thread receives the messages of *)
(* the backend and dispatches them to the queues of the subscriptions; one *)
(* thread per subscription empties its queue into the callback; the        *)
(* application creates, subscribes and revokes at the same time, and       *)
(* starts, stops and resets the handler.                                   *)
(*                                                                         *)
(* m_mutex is kept because revoking waits for the subscription thread      *)
(* while it holds it.  A message is the index of its dispatch in log.  The *)
(* list of the ids of an event is how often it has an id: a dispatch fills *)
(* all queues in one critical section, whatever their order.  A callback   *)
(* makes no call of the handler.  Timer messages go through the same       *)
(* dispatch; no subscriber of the model asks for them.                     *)
(***************************************************************************)
EXTENDS Integers, Sequences, FiniteSetsExt

CONSTANTS
  Apps,       \* threads of the application; each is a subscriber, too
  Controller, \* the one of them that starts and stops the handler
  Nobody,     \* no holder of m_mutex
  Asked,      \* the events that subscribers ask for
  MaxId,      \* bound: subscriptions alive at once
  MaxCreate,  \* bound: calls of CreateSubscription
  MaxData,    \* bound: messages the backend sends
  MaxLoss,    \* bound: lost connections, failed attempts to open and resets
  MaxStart    \* bound: calls of Start

ASSUME ActorsAssumption ==
  /\ Controller \in Apps /\ Nobody \notin Apps
  /\ Asked \subseteq {"STATUS", "DATA"}

VARIABLES
  m_mutex,                \* its holder
  m_subscriptions,        \* the ids in the map
  m_handle,               \* the subscriber of an id
  m_subscriptionsByEvent, \* how often an id is in the list of each event
  th,                     \* where the thread of a subscription is
  m_msgQueue, m_queueContent, notifiedStop, \* queue, event and stop flag of it
  apc, todo,              \* what an application thread does, on which ids
  epc, out,               \* what the event thread does, and what it announces
  stopping,               \* the event thread is asked to stop
  m_open, m_reset,        \* the connection is open; a reset is held
  log,                    \* history: the messages dispatched
  delivered, wanted,      \* history per id: the messages its callback got, and
                          \* since which message it is subscribed to an event
  budget                  \* what is left of the bounds

registry == <<m_subscriptions, m_handle, m_subscriptionsByEvent, wanted>>
threads == <<th, m_msgQueue, m_queueContent, notifiedStop, delivered>>
handler == <<epc, out, stopping, m_open, m_reset, log>>
vars == <<m_mutex, registry, threads, apc, todo, handler, budget>>

Ids == 1..MaxId
Status == {"CONNECTED", "DISCONNECTED", "NOTCONNECTED", "STOPPED"}
Messages == Status \cup {"DATA"}
\* EVENT_HANDLER_STATUS, and one event of the backend for all the others.
Events == {"STATUS", "DATA"}
EventOf(m) == IF m \in Status THEN "STATUS" ELSE "DATA"
None == "none"

Init ==
  /\ m_mutex = Nobody
  /\ m_subscriptions = {}
  /\ m_handle = [i \in Ids |-> Controller]
  /\ m_subscriptionsByEvent = [e \in Events |-> [i \in Ids |-> 0]]
  /\ th = [i \in Ids |-> "none"]
  /\ m_msgQueue = [i \in Ids |-> <<>>]
  /\ m_queueContent = [i \in Ids |-> FALSE]
  /\ notifiedStop = [i \in Ids |-> FALSE]
  /\ apc = [a \in Apps |-> "idle"]
  /\ todo = [a \in Apps |-> {}]
  /\ epc = "off"
  /\ out = None
  /\ stopping = FALSE
  /\ m_open = FALSE
  /\ m_reset = FALSE
  /\ log = <<>>
  /\ delivered = [i \in Ids |-> <<>>]
  /\ wanted = [i \in Ids |-> [e \in {} |-> 0]]
  /\ budget = [create |-> MaxCreate, data |-> MaxData, loss |-> MaxLoss,
               start |-> MaxStart]

Spend(b) == budget[b] > 0 /\ budget' = [budget EXCEPT ![b] = @ - 1]

----------------------------------------------------------------------------
(***************************************************************************)
(* The registry.  Each call holds m_mutex from its first to its last line. *)
(***************************************************************************)
Idle(a) == apc[a] = "idle"

\* id = the highest id in use, plus one.
NextId == IF m_subscriptions = {} THEN 1 ELSE Max(m_subscriptions) + 1

\* A fresh handler of an id, with its thread at th: nothing queued, nothing
\* notified, no history.
Fresh(id, a, at) ==
  /\ m_handle' = [m_handle EXCEPT ![id] = a]
  /\ wanted' = [wanted EXCEPT ![id] = [e \in {} |-> 0]]
  /\ th' = [th EXCEPT ![id] = at]
  /\ m_msgQueue' = [m_msgQueue EXCEPT ![id] = <<>>]
  /\ m_queueContent' = [m_queueContent EXCEPT ![id] = FALSE]
  /\ notifiedStop' = [notifiedStop EXCEPT ![id] = FALSE]
  /\ delivered' = [delivered EXCEPT ![id] = <<>>]

\* The constructor starts the thread and waits until it is running; when it
\* cannot be started nothing remains of the call.
CreateSubscription(a) ==
  /\ Idle(a) /\ m_mutex = Nobody
  /\ NextId \in Ids
  /\ Spend("create")
  /\ \/ /\ m_subscriptions' = m_subscriptions \cup {NextId}
        /\ Fresh(NextId, a, "queue")
     \/ UNCHANGED <<m_subscriptions, m_handle, wanted, threads>>
  /\ UNCHANGED <<m_mutex, m_subscriptionsByEvent, apc, todo, handler>>

\* Mutant: the id is listed again.
SubscribeTwice(a, id, e) ==
  /\ Idle(a) /\ m_mutex = Nobody
  /\ id \in m_subscriptions
  /\ m_handle[id] = a
  /\ e \notin DOMAIN wanted[id]
  /\ m_subscriptionsByEvent' = [m_subscriptionsByEvent EXCEPT ![e][id] = @ + 1]
  /\ wanted' = [wanted EXCEPT ![id] =
                  [f \in DOMAIN @ \cup {e} |-> IF f = e THEN Len(log) ELSE @[f]]]
  /\ UNCHANGED <<m_mutex, m_subscriptions, m_handle, threads, apc, todo,
                 handler, budget>>

\* Only for a registered id; an id that is in the list stays there once.
SubscribeForEvent(a, id, e) ==
  /\ Idle(a) /\ m_mutex = Nobody
  /\ id \in m_subscriptions
  /\ m_handle[id] = a
  /\ e \notin DOMAIN wanted[id]
  /\ m_subscriptionsByEvent' =
       IF m_subscriptionsByEvent[e][id] > 0
       THEN m_subscriptionsByEvent
       ELSE [m_subscriptionsByEvent EXCEPT ![e][id] = 1]
  /\ wanted' = [wanted EXCEPT ![id] =
                  [f \in DOMAIN @ \cup {e} |-> IF f = e THEN Len(log) ELSE @[f]]]
  /\ UNCHANGED <<m_mutex, m_subscriptions, m_handle, threads, apc, todo,
                 handler, budget>>

\* RevokeSubscription(id) and RevokeAllSubscriptions(sub): the handlers of S
\* are deleted one after the other, in the order of the map.
Revoke(a, S) ==
  /\ Idle(a) /\ m_mutex = Nobody
  /\ S # {}
  /\ m_mutex' = a
  /\ todo' = [todo EXCEPT ![a] = S]
  /\ apc' = [apc EXCEPT ![a] = "signal"]
  /\ UNCHANGED <<registry, threads, handler, budget>>

SubscriptionsOf(a) == {id \in m_subscriptions : m_handle[id] = a}

RevokeSubscription(a) == \E id \in SubscriptionsOf(a) : Revoke(a, {id})

RevokeAllSubscriptions(a) == Revoke(a, SubscriptionsOf(a))

Current(a) == Min(todo[a])

\* SubscriptionHandlerThread::Stop: set stopping, then signal the thread, then
\* wait for it.
SignalStop(a) ==
  /\ apc[a] = "signal"
  /\ notifiedStop' = [notifiedStop EXCEPT ![Current(a)] = TRUE]
  /\ apc' = [apc EXCEPT ![a] = "notify"]
  /\ UNCHANGED <<m_mutex, registry, th, m_msgQueue, m_queueContent, delivered,
                 todo, handler, budget>>

\* Mutant: the thread is not signalled.
NotifyStopSilent(a) ==
  /\ apc[a] = "notify"
  /\ apc' = [apc EXCEPT ![a] = "join"]
  /\ UNCHANGED <<m_mutex, registry, threads, todo, handler, budget>>

NotifyStop(a) ==
  /\ apc[a] = "notify"
  /\ m_queueContent' = [m_queueContent EXCEPT ![Current(a)] = TRUE]
  /\ apc' = [apc EXCEPT ![a] = "join"]
  /\ UNCHANGED <<m_mutex, registry, th, m_msgQueue, notifiedStop, delivered,
                 todo, handler, budget>>

\* The thread has stopped: the handler is deleted and its id leaves the map.
\* The ids in m_subscriptionsByEvent stay until the next dispatch.
JoinErase(a) ==
  /\ apc[a] = "join"
  /\ th[Current(a)] = "done"
  /\ Fresh(Current(a), Controller, "none")
  /\ m_subscriptions' = m_subscriptions \ {Current(a)}
  /\ todo' = [todo EXCEPT ![a] = @ \ {Current(a)}]
  /\ apc' = [apc EXCEPT ![a] = IF todo'[a] = {} THEN "idle" ELSE "signal"]
  /\ m_mutex' = IF todo'[a] = {} THEN Nobody ELSE a
  /\ UNCHANGED <<m_subscriptionsByEvent, handler, budget>>

(***************************************************************************)
(* SubscriptionHandlerThread::process                                      *)
(***************************************************************************)
\* The head of the inner loop: the callback starts on the front message.
SubPop(id) ==
  /\ th[id] = "queue"
  /\ m_msgQueue[id] # <<>> /\ ~notifiedStop[id]
  /\ delivered' = [delivered EXCEPT ![id] = Append(@, Head(m_msgQueue[id]))]
  /\ m_msgQueue' = [m_msgQueue EXCEPT ![id] = Tail(@)]
  /\ th' = [th EXCEPT ![id] = "work"]
  /\ UNCHANGED <<m_mutex, registry, m_queueContent, notifiedStop, apc, todo,
                 handler, budget>>

\* The queue is seen empty.  empty() is called without the mutex, so it may
\* miss a message that was posted since the last notification taken.
SubWait(id) ==
  /\ th[id] = "queue"
  /\ m_msgQueue[id] = <<>> \/ notifiedStop[id] \/ m_queueContent[id]
  /\ th' = [th EXCEPT ![id] = "wait"]
  /\ UNCHANGED <<m_mutex, registry, m_msgQueue, m_queueContent, notifiedStop,
                 delivered, apc, todo, handler, budget>>

\* The callback returns.
SubWorked(id) ==
  /\ th[id] = "work"
  /\ th' = [th EXCEPT ![id] = "queue"]
  /\ UNCHANGED <<m_mutex, registry, m_msgQueue, m_queueContent, notifiedStop,
                 delivered, apc, todo, handler, budget>>

\* m_queueContent.wait(): returns once notified and resets the event; then
\* the head of the outer loop.
SubWake(id) ==
  /\ th[id] = "wait"
  /\ m_queueContent[id]
  /\ m_queueContent' = [m_queueContent EXCEPT ![id] = FALSE]
  /\ th' = [th EXCEPT ![id] = IF notifiedStop[id] THEN "done" ELSE "queue"]
  /\ UNCHANGED <<m_mutex, registry, m_msgQueue, notifiedStop, delivered, apc,
                 todo, handler, budget>>

(***************************************************************************)
(* BasicEventHandler::process, the thread of the handler.  out is the      *)
(* message that it dispatches next, before it goes on at epc.              *)
(***************************************************************************)
\* PostMessage, as often as the id is listed; then the notification.
Post(listed, live, notified) ==
  /\ m_msgQueue' = [id \in Ids |-> IF id \in live
                                  THEN m_msgQueue[id] \o [k \in 1..listed[id] |-> Len(log) + 1]
                                  ELSE m_msgQueue[id]]
  /\ m_queueContent' = [id \in Ids |-> id \in notified \/ m_queueContent[id]]

\* The ids that are not registered leave the list.
EraseRevoked(event) ==
  m_subscriptionsByEvent' =
    [m_subscriptionsByEvent EXCEPT ![event] =
       [id \in Ids |-> IF id \in m_subscriptions THEN @[id] ELSE 0]]

\* Mutant: the ids behind the first revoked one get nothing.
DispatchUntilRevoked(m) ==
  LET listed == m_subscriptionsByEvent[EventOf(m)]
      live == {id \in m_subscriptions : listed[id] > 0
                 /\ \A k \in 1..id : listed[k] > 0 => k \in m_subscriptions}
  IN /\ m_mutex = Nobody
     /\ log' = Append(log, m)
     /\ Post(listed, live, live)
     /\ EraseRevoked(EventOf(m))
     /\ UNCHANGED <<m_mutex, m_subscriptions, m_handle, wanted, th,
                    notifiedStop, delivered>>

\* Mutant: a message is queued and the thread is not notified.
DispatchSilent(m) ==
  LET listed == m_subscriptionsByEvent[EventOf(m)]
      live == {id \in m_subscriptions : listed[id] > 0}
  IN /\ m_mutex = Nobody
     /\ log' = Append(log, m)
     /\ Post(listed, live, {})
     /\ EraseRevoked(EventOf(m))
     /\ UNCHANGED <<m_mutex, m_subscriptions, m_handle, wanted, th,
                    notifiedStop, delivered>>

\* DispatchEvent: every listed id that is registered gets the message, the
\* others leave the list.
DispatchEvent(m) ==
  LET listed == m_subscriptionsByEvent[EventOf(m)]
      live == {id \in m_subscriptions : listed[id] > 0}
  IN /\ m_mutex = Nobody
     /\ log' = Append(log, m)
     /\ Post(listed, live, live)
     /\ EraseRevoked(EventOf(m))
     /\ UNCHANGED <<m_mutex, m_subscriptions, m_handle, wanted, th,
                    notifiedStop, delivered>>

\* Start waits until the thread is running.
Start ==
  /\ Idle(Controller)
  /\ epc = "off"
  /\ Spend("start")
  /\ epc' = "open"
  /\ stopping' = FALSE
  /\ UNCHANGED <<m_mutex, registry, threads, apc, todo, out, m_open, m_reset,
                 log>>

ProcessOpen ==
  /\ epc = "open"
  /\ epc' = "loop"
  /\ \/ m_open' = TRUE /\ out' = "CONNECTED" /\ UNCHANGED budget
     \/ Spend("loss") /\ UNCHANGED <<m_open, out>>
  /\ UNCHANGED <<m_mutex, registry, threads, apc, todo, stopping, m_reset, log>>

\* Mutant: any message that is dispatched releases a held reset.
AnnounceReleases ==
  /\ out # None
  /\ DispatchEvent(out)
  /\ out' = None
  /\ epc' = CASE epc = "connected" -> "loop"
              [] epc = "closing" -> "off"
              [] OTHER -> epc
  /\ m_reset' = FALSE
  /\ m_open' = (m_open /\ epc # "closing")
  /\ UNCHANGED <<apc, todo, stopping, budget>>

\* Dispatch out and go on.  Behind CONNECTED in RetryConnect a held reset is
\* released ("to break any loop"), also one asked for since Open returned; behind
\* STOPPED the connection is closed and the thread ends.
Announce ==
  /\ out # None
  /\ DispatchEvent(out)
  /\ out' = None
  /\ epc' = CASE epc = "connected" -> "loop"
              [] epc = "closing" -> "off"
              [] OTHER -> epc
  /\ m_reset' = (m_reset /\ epc # "connected")
  /\ m_open' = (m_open /\ epc # "closing")
  /\ UNCHANGED <<apc, todo, stopping, budget>>

AtLoop == epc = "loop" /\ out = None

\* RcvBackendMessage > 0: a message of the backend.
Receive ==
  /\ AtLoop /\ ~stopping
  /\ m_open
  /\ Spend("data")
  /\ out' = "DATA"
  /\ UNCHANGED <<m_mutex, registry, threads, apc, todo, epc, stopping, m_open,
                 m_reset, log>>

\* RcvBackendMessage < 0: the connection is lost, or was never opened.
Disconnected ==
  /\ AtLoop /\ ~stopping
  /\ \/ m_open /\ Spend("loss")
     \/ ~m_open /\ UNCHANGED budget
  /\ m_open' = FALSE
  /\ out' = "DISCONNECTED"
  /\ epc' = "retry"
  /\ UNCHANGED <<m_mutex, registry, threads, apc, todo, stopping, m_reset, log>>

\* RcvBackendMessage = 0: nothing within EVENTHANDLER_TIMEOUT.  After the timer
\* message is dispatched a held reset closes the connection.
Timer ==
  /\ AtLoop /\ ~stopping
  /\ m_open
  /\ m_mutex = Nobody
  /\ m_reset' = FALSE
  /\ m_open' = ~m_reset
  /\ epc' = IF m_reset THEN "retry" ELSE "loop"
  /\ UNCHANGED <<m_mutex, registry, threads, apc, todo, out, stopping, log,
                 budget>>

\* The loop ends: announce STOPPED, close.
LoopStopped ==
  /\ AtLoop /\ stopping
  /\ out' = "STOPPED"
  /\ epc' = "closing"
  /\ UNCHANGED <<m_mutex, registry, threads, apc, todo, stopping, m_open,
                 m_reset, log, budget>>

\* Mutant: the connection is opened again in silence.
RetryOpenedSilent ==
  /\ epc = "retry" /\ out = None /\ ~stopping
  /\ m_open' = TRUE
  /\ m_reset' = FALSE
  /\ epc' = "loop"
  /\ UNCHANGED <<m_mutex, registry, threads, apc, todo, out, stopping, log,
                 budget>>

\* RetryConnect, one turn: open, give up when asked to stop, or try again.
RetryOpened ==
  /\ epc = "retry" /\ out = None /\ ~stopping
  /\ m_open' = TRUE
  /\ out' = "CONNECTED"
  /\ epc' = "connected"
  /\ UNCHANGED <<m_mutex, registry, threads, apc, todo, stopping, m_reset, log,
                 budget>>

RetryFailed ==
  /\ epc = "retry" /\ out = None /\ ~stopping
  /\ Spend("loss")
  /\ out' = "NOTCONNECTED"
  /\ UNCHANGED <<m_mutex, registry, threads, apc, todo, epc, stopping, m_open,
                 m_reset, log>>

\* Mutant: retrying does not look at the request to stop.
RetryNeverStopped ==
  /\ epc = "retry" /\ out = None /\ stopping
  /\ UNCHANGED vars

RetryStopped ==
  /\ epc = "retry" /\ out = None /\ stopping
  /\ epc' = "loop"
  /\ UNCHANGED <<m_mutex, registry, threads, apc, todo, out, stopping, m_open,
                 m_reset, log, budget>>

\* Stop: signal the thread and wait for its end, then close the connection.
Stop ==
  /\ Idle(Controller)
  /\ epc # "off"
  /\ stopping' = TRUE
  /\ apc' = [apc EXCEPT ![Controller] = "stopwait"]
  /\ UNCHANGED <<m_mutex, registry, threads, todo, epc, out, m_open, m_reset,
                 log, budget>>

StopJoin ==
  /\ apc[Controller] = "stopwait"
  /\ epc = "off"
  /\ m_open' = FALSE
  /\ apc' = [apc EXCEPT ![Controller] = "idle"]
  /\ UNCHANGED <<m_mutex, registry, threads, todo, epc, out, stopping, m_reset,
                 log, budget>>

Reset(a) ==
  /\ Idle(a)
  /\ Spend("loss")
  /\ m_reset' = TRUE
  /\ UNCHANGED <<m_mutex, registry, threads, apc, todo, epc, out, stopping,
                 m_open, log>>

----------------------------------------------------------------------------
SubscriptionStep(id) ==
  SubPop(id) \/ SubWait(id) \/ SubWorked(id) \/ SubWake(id)

RevokeStep(a) == SignalStop(a) \/ NotifyStop(a) \/ JoinErase(a)

ProcessStep ==
  \/ ProcessOpen \/ Announce \/ Receive \/ Disconnected \/ Timer \/ LoopStopped
  \/ RetryOpened \/ RetryFailed \/ RetryStopped

Next ==
  \/ \E a \in Apps :
       \/ CreateSubscription(a)
       \/ \E id \in Ids, e \in Asked : SubscribeForEvent(a, id, e)
       \/ RevokeSubscription(a) \/ RevokeAllSubscriptions(a)
       \/ RevokeStep(a)
       \/ Reset(a)
  \/ Start \/ Stop \/ StopJoin
  \/ ProcessStep
  \/ \E id \in Ids : SubscriptionStep(id)

Spec == Init /\ [][Next]_vars

\* Threads that can run do run, callbacks return, and the wait for a message
\* times out, once the backend is silent for that long.  That an attempt to open
\* the connection succeeds is nowhere assumed.  The application owes nothing but
\* the end of a call it made.
FairSpec ==
  /\ Spec
  /\ \A a \in Apps : WF_vars(RevokeStep(a))
  /\ WF_vars(StopJoin)
  /\ WF_vars(ProcessOpen) /\ WF_vars(Announce) /\ WF_vars(Timer)
  /\ WF_vars(Disconnected) /\ WF_vars(LoopStopped)
  /\ WF_vars(RetryStopped)
  /\ \A id \in Ids : WF_vars(SubscriptionStep(id))

----------------------------------------------------------------------------
\* The types of the variables; an id is in a list at most once.
TypeOK ==
  /\ m_mutex \in Apps \cup {Nobody}
  /\ m_subscriptions \subseteq Ids
  /\ m_handle \in [Ids -> Apps]
  /\ m_subscriptionsByEvent \in [Events -> [Ids -> 0..1]]
  /\ th \in [Ids -> {"none", "queue", "work", "wait", "done"}]
  /\ m_msgQueue \in [Ids -> Seq(DOMAIN log)] /\ delivered \in [Ids -> Seq(DOMAIN log)]
  /\ m_queueContent \in [Ids -> BOOLEAN]
  /\ notifiedStop \in [Ids -> BOOLEAN]
  /\ apc \in [Apps -> {"idle", "signal", "notify", "join", "stopwait"}]
  /\ todo \in [Apps -> SUBSET Ids]
  /\ epc \in {"off", "open", "loop", "retry", "connected", "closing"}
  /\ out \in Messages \cup {None}
  /\ stopping \in BOOLEAN /\ m_open \in BOOLEAN /\ m_reset \in BOOLEAN
  /\ log \in Seq(Messages)

\* What a subscription was given, in the order of its queue.
Posted(id) == delivered[id] \o m_msgQueue[id]

\* A subscription gets every message of its events that is dispatched after
\* it subscribed, once, in the order of dispatch, whatever is revoked,
\* created or subscribed in between.
Delivery ==
  \A id \in m_subscriptions :
    /\ \A i, j \in DOMAIN Posted(id) : i < j => Posted(id)[i] < Posted(id)[j]
    /\ \A e \in DOMAIN wanted[id] : \A n \in (wanted[id][e] + 1)..Len(log) :
         EventOf(log[n]) = e => n \in Range(Posted(id))

\* A subscription gets no message of an event it did not subscribe to.
OnlySubscribed ==
  \A id \in m_subscriptions : \A n \in Range(Posted(id)) :
    EventOf(log[n]) \in DOMAIN wanted[id]

\* A subscriber that follows the status always knows the state of the
\* connection behind a message: the last status before it is CONNECTED.
StatusBeforeData ==
  \A n \in DOMAIN log : log[n] = "DATA" =>
    \E k \in 1..(n - 1) :
      /\ log[k] = "CONNECTED"
      /\ \A j \in (k + 1)..(n - 1) : log[j] \notin Status

\* A posted message is handled, unless the subscription is being revoked: no
\* notification of a queue is lost.
PostedHandled ==
  \A id \in Ids :
    (m_msgQueue[id] # <<>>) ~> (m_msgQueue[id] = <<>> \/ notifiedStop[id])

\* Revoking comes to its end and gives m_mutex back.
RevokeReturns == \A a \in Apps : (m_mutex = a) ~> (m_mutex # a)

\* Stop comes to its end, also while the connection is being retried.
StopReturns == (apc[Controller] = "stopwait") ~> (apc[Controller] = "idle")

\* A reset that is held while the handler waits for messages leads to the
\* connection being closed, to be opened again ("Reconnect if any held reset",
\* mytheventhandler.cpp:349): no message that is dispatched meanwhile, no other
\* thread that holds m_mutex and no lost connection makes it forgotten.
ResetServed == (epc = "loop" /\ m_open /\ m_reset) ~> ~m_open

=============================================================================
