---------------------------- MODULE ProtoPlayback ----------------------------
(***************************************************************************)
(* Reading a file of the backend: ProtoPlayback and ProtoTransfer          *)
(* (cppmyth/src/proto/mythprotoplayback.cpp, mythprototransfer.cpp).  The  *)
(* data comes over the transfer connection, the requests for it and their  *)
(* answers go over the control connection, which another thread uses, too. *)
(* TransferRequestBlock holds the latch from the request to its answer and *)
(* polls both sockets: data may come before or after the answer.           *)
(*                                                                         *)
(* A byte of the file is its offset, so tx shows which bytes of the file   *)
(* the client will read.  The backend (external) sends the block it is     *)
(* asked for from its own position; both streams hold what is on its way,  *)
(* and a poll may see any part of it.  A reply is one unit of rx (module   *)
(* ProtoMonitor has its fields).                                           *)
(***************************************************************************)
EXTENDS Integers, Sequences, FiniteSetsExt

CONSTANTS
  Reader, Other, Nobody, \* the two threads; no holder of the latch
  FileSize,              \* bound: the bytes of the file
  MaxBlock,              \* bound: the bytes asked for at once
  MaxCalls,              \* bound: calls of the reader
  MaxLoss                \* bound: time-outs and failures

ASSUME PlaybackAssumption ==
  /\ Reader # Other /\ Nobody \notin {Reader, Other}
  /\ FileSize \in Nat /\ MaxBlock \in Nat \ {0}
  /\ MaxCalls \in Nat /\ MaxLoss \in Nat

VARIABLES
  latch,          \* the holder of the latch of the control connection
  control,        \* the control connection: open, hang (m_hang), or closed
  rx,             \* replies on the control connection: [to, val]
  tx,             \* bytes on the transfer connection
  bpos,           \* external: the position of the backend in the file
  eof,            \* external: the backend has closed the transfer connection
  m_filePosition, \* where the client believes to read
  m_fileRequest,  \* up to where it believes to have asked
  m_fileSize,     \* how long it believes the file to be
  recorded,       \* external: how long the file is by now
  task,           \* the call of the reader
  other,          \* where the other thread is
  budget          \* what is left of the bounds

positions == <<m_filePosition, m_fileRequest>>
sizes == <<m_fileSize, recorded>>
vars == <<latch, control, rx, tx, bpos, eof, positions, sizes, task, other, budget>>

\* The locals of TransferRequestBlock; the target of a seek, and whether the
\* connection is to die with it.
Idle == [pc |-> "idle", n |-> 0, s |-> 0, request |-> FALSE, data |-> FALSE,
         filePosition |-> 0, fileRequest |-> 0, to |-> 0, die |-> FALSE]

\* The transfer is open and announced.
Init ==
  /\ latch = Nobody
  /\ control = "open"
  /\ rx = <<>> /\ tx = <<>>
  /\ bpos = 0
  /\ eof = FALSE
  /\ m_filePosition = 0 /\ m_fileRequest = 0
  /\ recorded \in 0..FileSize /\ m_fileSize = recorded
  /\ task = Idle
  /\ other = "idle"
  /\ budget = [call |-> MaxCalls, loss |-> MaxLoss]

Spend(b) == budget[b] > 0 /\ budget' = [budget EXCEPT ![b] = @ - 1]

\* The control connection is closed: what it held is gone.
HangException == control' = "hang" /\ rx' = <<>>

\* Mutant: the message is not read.
FlushNothing == rx # <<>> /\ UNCHANGED rx

\* Read an answer and forget it.
FlushMessage == rx # <<>> /\ rx' = Tail(rx)

\* External: the next k bytes of the file.
Block(k) == [i \in 1..k |-> bpos + i - 1]
Drop(seq, k) == SubSeq(seq, k + 1, Len(seq))
Smaller(a, b) == Min({a, b})

----------------------------------------------------------------------------
(***************************************************************************)
(* TransferRequestBlock                                                    *)
(***************************************************************************)
\* Is a request needed for n more bytes?
Lacks(n) == m_filePosition + n > m_fileRequest

Request(n) ==
  /\ control = "open"
  /\ task' = [Idle EXCEPT !.pc = IF Lacks(n) THEN "request" ELSE "poll",
                          !.n = n, !.filePosition = m_filePosition,
                          !.fileRequest = m_fileRequest]
  /\ UNCHANGED <<latch, control, rx, tx, bpos, eof, positions, sizes, other>>

RequestBegin ==
  /\ task = Idle
  /\ Spend("call")
  /\ \E n \in 1..MaxBlock : Request(n)

\* The latch is taken and REQUEST_BLOCK sent with no wait for the answer.
\* External: the backend sends what the file has and answers how much.
RequestSend ==
  /\ task.pc = "request"
  /\ latch = Nobody
  /\ latch' = Reader
  /\ \/ LET rlen == IF eof \/ bpos >= recorded THEN 0
                    ELSE Smaller(task.n, recorded - bpos)
        IN /\ control = "open"
           /\ rx' = Append(rx, [to |-> Reader, val |-> rlen])
           /\ tx' = tx \o Block(rlen)
           /\ bpos' = bpos + rlen
           /\ task' = [task EXCEPT !.pc = "poll", !.request = TRUE]
           /\ UNCHANGED <<control, budget>>
     \/ /\ IF control = "open" THEN Spend("loss") ELSE UNCHANGED budget
        /\ HangException
        /\ task' = [task EXCEPT !.pc = "recover", !.request = TRUE]
        /\ UNCHANGED <<tx, bpos>>
  /\ UNCHANGED <<eof, sizes, positions, other>>

\* The loop ends when the request is answered, nothing came by the last read
\* and something has been read.
PollAgain(call) ==
  task' = IF call.request \/ call.data \/ call.s = 0 THEN call ELSE Idle

\* Mutant: the whole size is asked for, over what was read already.
RoomWhole == task.n

\* What the buffer has room for.
Room == task.n - task.s

\* One turn of the loop: rr bytes are read, the answer is read, or both.
Poll ==
  /\ task.pc = "poll"
  /\ \E rr \in 0..Smaller(Room, Len(tx)), answered \in BOOLEAN :
       LET call == [task EXCEPT !.s = @ + rr, !.filePosition = @ + rr,
                                !.data = rr > 0 /\ task.s + rr < task.n]
           rlen == IF answered THEN Head(rx).val ELSE 0
       IN /\ rr > 0 \/ answered
          /\ answered => task.request /\ rx # <<>>
          /\ tx' = Drop(tx, rr)
          /\ m_filePosition' = IF rr > 0 THEN call.filePosition ELSE m_filePosition
          /\ IF answered
             THEN /\ rx' = Tail(rx)
                  /\ latch' = Nobody
                  /\ IF rlen = 0 /\ ~call.data
                     THEN task' = Idle /\ UNCHANGED m_fileRequest
                     ELSE /\ m_fileRequest' = task.fileRequest + rlen
                          /\ PollAgain([call EXCEPT !.request = FALSE,
                                                    !.fileRequest = @ + rlen])
             ELSE PollAgain(call) /\ UNCHANGED <<rx, latch, m_fileRequest>>
  /\ UNCHANGED <<control, bpos, eof, sizes, other, budget>>

\* Mutant: the flag is not cleared.
PollNothingKept ==
  /\ task.pc = "poll"
  /\ task.data
  /\ UNCHANGED vars

\* Nothing more to read at once.
PollNothing ==
  /\ task.pc = "poll"
  /\ task.data
  /\ PollAgain([task EXCEPT !.data = FALSE])
  /\ UNCHANGED <<latch, control, rx, tx, bpos, eof, sizes, positions, other, budget>>

\* Nothing will come that the loop waits for: the poll must time out, unless
\* the transfer connection is closed by the backend; then poll returns and recv
\* reads 0 bytes, turn after turn.
Silent ==
  /\ ~task.data
  /\ ~eof
  /\ tx = <<>> \/ task.s = task.n
  /\ ~task.request \/ rx = <<>>

\* The poll times out or fails, or a socket has an error.
\* The answer may be read in the same turn.
PollFailed ==
  /\ task.pc = "poll"
  /\ IF Silent THEN UNCHANGED budget ELSE Spend("loss")
  /\ \/ /\ task' = [task EXCEPT !.pc = "recover"]
        /\ UNCHANGED <<latch, rx, m_fileRequest>>
     \/ /\ task.request /\ rx # <<>>
        /\ rx' = Tail(rx)
        /\ m_fileRequest' = m_fileRequest + Head(rx).val
        /\ latch' = Nobody
        /\ task' = [task EXCEPT !.pc = "recover", !.request = FALSE]
  /\ UNCHANGED <<control, tx, bpos, eof, sizes, m_filePosition, other>>

\* Mutant: the latch is kept after an invalid answer.
FeedbackFailedLocked ==
  /\ task.pc = "poll"
  /\ task.request /\ rx # <<>>
  /\ Spend("loss")
  /\ FlushMessage
  /\ task' = [task EXCEPT !.pc = "recover", !.request = FALSE]
  /\ UNCHANGED <<latch, control, tx, bpos, eof, sizes, positions, other>>

\* The answer is invalid and flushed, or the connection hangs within it.
FeedbackFailed ==
  /\ task.pc = "poll"
  /\ task.request /\ rx # <<>>
  /\ Spend("loss")
  /\ \/ FlushMessage /\ UNCHANGED control
     \/ HangException
  /\ latch' = Nobody
  /\ task' = [task EXCEPT !.pc = "recover", !.request = FALSE]
  /\ UNCHANGED <<tx, bpos, eof, sizes, positions, other>>

\* TransferSeek(filePosition, WHENCE_SET) after a failure: it returns at once if
\* that is the position already.
SeekBack ==
  IF task.filePosition = m_filePosition THEN Idle
  ELSE [Idle EXCEPT !.pc = "seek", !.to = task.filePosition, !.die = TRUE]

\* A request that is not answered: its answer is awaited and dropped, or the
\* connection hangs.  Then "recover the file position or die".
Recover ==
  /\ task.pc = "recover"
  /\ \/ ~task.request /\ UNCHANGED <<latch, control, rx, budget>>
     \/ /\ task.request
        /\ FlushMessage
        /\ latch' = Nobody
        /\ UNCHANGED <<control, budget>>
     \/ /\ task.request
        /\ IF control = "open" THEN Spend("loss") ELSE UNCHANGED budget
        /\ HangException
        /\ latch' = Nobody
  /\ task' = SeekBack
  /\ UNCHANGED <<tx, bpos, eof, sizes, positions, other>>

(***************************************************************************)
(* TransferSeek                                                            *)
(***************************************************************************)
\* The targets that pass the check of the offset: WHENCE_CUR and WHENCE_SET
\* return at once when the position would not change, WHENCE_END never does.
SeekTargets == 0..m_fileSize

Seeks(to) ==
  /\ task' = [Idle EXCEPT !.pc = "seek", !.to = to]
  /\ UNCHANGED <<latch, control, rx, tx, bpos, eof, positions, sizes, other>>

SeekBegin ==
  /\ task = Idle
  /\ Spend("call")
  /\ \E to \in SeekTargets : Seeks(to)

SeekSend ==
  /\ task.pc = "seek"
  /\ latch = Nobody
  /\ control = "open"
  /\ latch' = Reader
  /\ bpos' = task.to
  /\ rx' = Append(rx, [to |-> Reader, val |-> task.to])
  /\ task' = [task EXCEPT !.pc = "sought"]
  /\ UNCHANGED <<control, tx, eof, sizes, positions, other, budget>>

\* Sending fails: the backend did not move.
SeekNotSent ==
  /\ task.pc = "seek"
  /\ latch = Nobody
  /\ IF control = "open" THEN Spend("loss") ELSE UNCHANGED budget
  /\ HangException
  /\ task' = Idle
  /\ UNCHANGED <<latch, tx, bpos, eof, sizes, positions, other>>

\* What was requested and not read.
Unread ==
  IF m_fileRequest > m_filePosition THEN m_fileRequest - m_filePosition ELSE 0

\* ProtoTransfer::Flush: it is dropped, or what of it comes in time.
Flush ==
  \/ tx' = Drop(tx, Smaller(Unread, Len(tx))) /\ UNCHANGED budget
  \/ Unread > 0 /\ tx # <<>> /\ Spend("loss") /\ UNCHANGED tx

\* The answer is read, the transfer flushed, both positions set.  The backend,
\* external, answers with the position it was asked for: the code takes whatever
\* number it is told (mythprotoplayback.cpp:394).
SeekDone ==
  /\ task.pc = "sought"
  /\ rx # <<>>
  /\ rx' = Tail(rx)
  /\ Flush
  /\ m_fileRequest' = Head(rx).val
  /\ m_filePosition' = Head(rx).val
  /\ latch' = Nobody
  /\ task' = Idle
  /\ UNCHANGED <<control, bpos, eof, sizes, other>>

\* The answer does not come or is refused: the positions stay.
SeekFailed ==
  /\ task.pc = "sought"
  /\ Spend("loss")
  /\ \/ HangException
     \/ ~task.die /\ FlushMessage /\ UNCHANGED control
  /\ latch' = Nobody
  /\ task' = Idle
  /\ UNCHANGED <<tx, bpos, eof, sizes, positions, other>>

(***************************************************************************)
(* The other thread: TransferIsOpen.  IsOpen opens a connection that hangs *)
(* again.                                                                  *)
(***************************************************************************)
OtherSend ==
  /\ other = "idle"
  /\ latch = Nobody
  /\ control # "closed"
  /\ latch' = Other
  /\ control' = "open"
  /\ rx' = Append(rx, [to |-> Other, val |-> 0])
  /\ other' = "sent"
  /\ UNCHANGED <<tx, bpos, eof, sizes, positions, task, budget>>

\* It cannot be opened: it hangs on, or the announce failed and closed it.
OtherRefused ==
  /\ other = "idle"
  /\ latch = Nobody
  /\ control = "hang"
  /\ Spend("loss")
  /\ control' = "closed"
  /\ UNCHANGED <<latch, rx, tx, bpos, eof, sizes, positions, task, other>>

OtherDone ==
  /\ other = "sent"
  /\ \/ rx # <<>> /\ rx' = Tail(rx) /\ UNCHANGED <<control, budget>>
     \/ Spend("loss") /\ HangException
  /\ latch' = Nobody
  /\ other' = "idle"
  /\ UNCHANGED <<tx, bpos, eof, sizes, positions, task>>

\* External: the backend closes the transfer connection.
BackendCloses ==
  /\ ~eof
  /\ Spend("loss")
  /\ eof' = TRUE
  /\ UNCHANGED <<latch, control, rx, tx, bpos, positions, sizes, task, other>>

\* External: the file is still being recorded.
Grow ==
  /\ recorded < FileSize
  /\ recorded' = recorded + 1
  /\ UNCHANGED <<latch, control, rx, tx, bpos, eof, positions, m_fileSize, task, other, budget>>

\* A size that was right once is told.
SetSize(size) ==
  /\ m_fileSize' = size
  /\ UNCHANGED <<latch, control, rx, tx, bpos, eof, positions, recorded, task, other, budget>>

----------------------------------------------------------------------------
TakesLatch == RequestSend \/ SeekSend \/ SeekNotSent

ReaderStep ==
  \/ Poll \/ PollNothing \/ PollFailed \/ FeedbackFailed
  \/ Recover \/ SeekDone \/ SeekFailed

Next ==
  \/ RequestBegin \/ SeekBegin \/ TakesLatch \/ ReaderStep
  \/ OtherSend \/ OtherRefused \/ OtherDone
  \/ BackendCloses \/ Grow \/ \E size \in 0..recorded : SetSize(size)

Spec == Init /\ [][Next]_vars

\* The reader runs, polls see in the end what is on its way, the latch is given
\* to a thread that asks for it again and again.
FairSpec == Spec /\ SF_vars(TakesLatch) /\ WF_vars(ReaderStep) /\ WF_vars(OtherDone)

----------------------------------------------------------------------------
Places == {"idle", "request", "poll", "recover", "seek", "sought"}
Replies == [to : {Reader, Other}, val : 0..FileSize]
Tasks ==
  [pc : Places, n : 0..MaxBlock, s : 0..MaxBlock, request : BOOLEAN, data : BOOLEAN,
   filePosition : Nat, fileRequest : Nat, to : Nat, die : BOOLEAN]

\* The types of the variables.
TypeOK ==
  /\ latch \in {Reader, Other, Nobody}
  /\ control \in {"open", "hang", "closed"}
  /\ eof \in BOOLEAN
  /\ rx \in Seq(Replies)
  /\ tx \in Seq(0..FileSize)
  /\ bpos \in 0..FileSize
  /\ m_filePosition \in Nat /\ m_fileRequest \in Nat
  /\ recorded \in 0..FileSize /\ m_fileSize \in 0..FileSize
  /\ task \in Tasks
  /\ other \in {"idle", "sent"}

\* A block request that fails leaves the client and the backend at one position
\* ("Recover the file position or die"): either the control connection hangs,
\* or the next block will start where the client believes it does.
RecoveredOrDead ==
  [][task.pc = "recover" /\ task'.pc = "idle" =>
       control' # "open" \/ bpos' = m_fileRequest']_vars

\* Every answer is read by the call that asked, once, on every path, and none
\* is left on the connection when the latch is free.
AnswersMatched ==
  /\ latch = Nobody => rx = <<>>
  /\ latch = Reader => Len(rx) <= 1 /\ \A i \in DOMAIN rx : rx[i].to = Reader
  /\ latch = Other => Len(rx) <= 1 /\ \A i \in DOMAIN rx : rx[i].to = Other

\* The latch is held by the reader exactly while an answer is due, however the
\* loop ends.
LatchWhileRequested ==
  latch = Reader <=> task.request \/ task.pc = "sought"

\* A call returns, unless the backend closes the transfer connection.
CallReturns == (task # Idle) ~> (task = Idle \/ eof)

=============================================================================
