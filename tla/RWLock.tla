------------------------------- MODULE RWLock -------------------------------
(***************************************************************************)
(* What a recursive shared/exclusive lock promises its callers, with no    *)
(* word on how threads wait: the abstract specification that OS::Latch     *)
(* implements.  A thread that holds X may also take S, and S survives the  *)
(* release of X.                                                           *)
(***************************************************************************)
EXTENDS Integers

CONSTANTS Threads, NoThread

VARIABLES
  holder,  \* the thread that holds X, or NoThread
  xdepth,  \* how often it holds X
  sdepth   \* how often each thread holds S

vars == <<holder, xdepth, sdepth>>

Init ==
  /\ holder = NoThread
  /\ xdepth = 0
  /\ sdepth = [t \in Threads |-> 0]

\* X is granted when nobody else holds anything.
AcquireX(t) ==
  /\ holder \in {NoThread, t}
  /\ \A u \in Threads \ {t} : sdepth[u] = 0
  /\ holder' = t
  /\ xdepth' = xdepth + 1
  /\ UNCHANGED sdepth

ReleaseX(t) ==
  /\ holder = t
  /\ holder' = IF xdepth = 1 THEN NoThread ELSE t
  /\ xdepth' = xdepth - 1
  /\ UNCHANGED sdepth

\* S is granted when nobody else holds X.
AcquireS(t) ==
  /\ holder \in {NoThread, t}
  /\ sdepth' = [sdepth EXCEPT ![t] = @ + 1]
  /\ UNCHANGED <<holder, xdepth>>

ReleaseS(t) ==
  /\ sdepth[t] > 0
  /\ sdepth' = [sdepth EXCEPT ![t] = @ - 1]
  /\ UNCHANGED <<holder, xdepth>>

Next == \E t \in Threads :
          AcquireX(t) \/ ReleaseX(t) \/ AcquireS(t) \/ ReleaseS(t)

Spec == Init /\ [][Next]_vars

=============================================================================
