------------------------------ MODULE MCWSAPI ------------------------------
EXTENDS WSAPI

\* A backend of release 0.27, one of release 35 that wants a login, and one with
\* services newer than the library knows.
MCProtocol == [r27 |-> 77, r35 |-> 91, r99 |-> 99]
MCVersion ==
  [r27 |-> [Myth |-> Ranking(2, 0), Capture |-> Ranking(1, 4), Channel |-> Ranking(1, 2),
            Guide |-> Ranking(1, 0), Content |-> Ranking(1, 32), Dvr |-> Ranking(1, 7)],
   r35 |-> [Myth |-> Ranking(5, 0), Capture |-> Ranking(1, 4), Channel |-> Ranking(1, 5),
            Guide |-> Ranking(2, 2), Content |-> Ranking(1, 32), Dvr |-> Ranking(6, 2)],
   r99 |-> [id \in Services |-> Ranking(6, 0)]]
MCSecure == [r27 |-> FALSE, r35 |-> TRUE, r99 |-> FALSE]
MCLists == {<<>>, <<1, 2, 3>>}
=============================================================================
