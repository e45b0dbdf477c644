------------------------------- MODULE Event -------------------------------
(***************************************************************************)
(* An event that resets itself (cppmyth/src/private/os/threads/event.h).   *)
(* Its mutex makes each operation one step.  The condition tests m_notified*)
(* whenever a waiter wakes, so which of them is signalled is any: who wakes*)
(* first takes a notification meant for one.                               *)
(***************************************************************************)
EXTENDS Integers

NewEvent == [notified |-> FALSE, notifyOne |-> FALSE, waitingCount |-> 0]

notify_all(e) == [e EXCEPT !.notifyOne = FALSE, !.notified = TRUE]
notify_one(e) == [e EXCEPT !.notifyOne = TRUE, !.notified = TRUE]

Waiting(e) == [e EXCEPT !.waitingCount = @ + 1]
TimedOut(e) == [e EXCEPT !.waitingCount = @ - 1]

\* A notification for all lasts until the last waiter has left.
Notified(e) ==
  [TimedOut(e) EXCEPT !.notified = ~(e.notifyOne \/ e.waitingCount = 1)]

=============================================================================
