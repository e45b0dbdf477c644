------------------------- MODULE RecordingPlayback -------------------------
(***************************************************************************)
(* Playing a recording (cppmyth/src/mythrecordingplayback.cpp): reads are  *)
(* served from a ring of blocks over a transfer of module ProtoPlayback,   *)
(* and seeks count from what the application has read.  The event thread   *)
(* hears of the growth of a file that is still recorded.                   *)
(*                                                                         *)
(* The application reads, seeks, opens and closes in one thread.  A byte in*)
(* the buffer is its recording and its offset.  Between two calls of Read  *)
(* the ring is empty: a block is taken as soon as it is written.           *)
(***************************************************************************)
EXTENDS ProtoPlayback, RingBuffer

CONSTANTS
  Recordings, \* the recordings of the backend: numbers
  Offsets,    \* bound: the offsets of Seek
  MaxOpen,    \* bound: calls of OpenTransfer and CloseTransfer
  MaxEvents   \* bound: size events on their way

ASSUME RecordingAssumption ==
  /\ Recordings \subseteq Nat \ {0} /\ Recordings # {} /\ IsFiniteSet(Recordings)
  /\ Offsets \subseteq Int
  /\ MaxOpen \in Nat /\ MaxEvents \in Nat

VARIABLES
  m_transfer,  \* the recording that is open, or 0
  m_readAhead,
  m_buffer,
  got,         \* what the block request under way has received
  events,      \* size events on their way: [rec, size]
  ev,          \* the event thread: the event and the transfer it was staged with
  told,        \* history: where the application believes to read
  opens        \* what is left of MaxOpen; it tells one transfer from another

layer == <<m_transfer, m_readAhead, m_buffer, got, events, ev, told, opens>>
playback == <<vars, layer>>

Unknown == -100
NoEvent == [rec |-> 0, size |-> 0, transfer |-> -1]
BUFFER_CAPACITY == 2

Initial ==
  /\ Init
  /\ m_transfer = Min(Recordings)
  /\ m_readAhead = FALSE
  /\ m_buffer = NewBuffer(BUFFER_CAPACITY)
  /\ got = <<>> /\ events = <<>> /\ ev = NoEvent
  /\ told = 0
  /\ opens = MaxOpen

\* No call of the application is in progress.
AtRest == task = Idle /\ m_buffer.rbuf.unread = 0

GetPosition == IF m_transfer = 0 THEN 0 ELSE m_filePosition - bytesUnread(m_buffer)

----------------------------------------------------------------------------
(***************************************************************************)
(* Read                                                                    *)
(***************************************************************************)
\* _read: a block, up to the end of the file, or ahead of it if it grows.
ReadBlock ==
  /\ task = Idle /\ bytesUnread(m_buffer) = 0
  /\ m_transfer # 0
  /\ Spend("call")
  /\ LET s == m_fileSize - m_filePosition
         n == IF m_readAhead THEN MaxBlock ELSE Smaller(s, MaxBlock)
     IN n > 0 /\ Request(n)
  /\ UNCHANGED layer

\* The bytes of a turn of the poll go to the packet; it is written to the ring
\* when the request returns.
Receive ==
  /\ Poll \/ PollNothing
  /\ LET received == SubSeq(tx, 1, Len(tx) - Len(tx'))
         packet == got \o [i \in DOMAIN received |-> <<m_transfer, received[i]>>]
     IN IF task' # Idle THEN got' = packet /\ UNCHANGED m_buffer
        ELSE /\ got' = <<>>
             /\ m_buffer' = IF packet = <<>> THEN m_buffer
                            ELSE [m_buffer EXCEPT !.rbuf = writePacket(@, packet)]
  /\ UNCHANGED <<m_transfer, m_readAhead, events, ev, told, opens>>

\* The request failed: what it had received is freed.
Failed ==
  /\ Recover
  /\ got' = <<>>
  /\ UNCHANGED <<m_transfer, m_readAhead, m_buffer, events, ev, told, opens>>

\* As many bytes of the packet as are wanted.
ReadPacket ==
  /\ task = Idle
  /\ LET b == Staged(m_buffer)
     IN \E r \in 1..Len(b.packet) :
          /\ m_buffer' = [b EXCEPT !.packet = SubSeq(@, r + 1, Len(@))]
          /\ told' = IF told = Unknown THEN told ELSE told + r
  /\ UNCHANGED <<vars, m_transfer, m_readAhead, got, events, ev, opens>>

(***************************************************************************)
(* Seek                                                                    *)
(***************************************************************************)
\* Mutant: an offset counts from the end of the buffer.
RebasedNot(offset, whence) == offset

\* An offset from the current position counts from the first byte in the buffer.
Rebased(offset, whence) ==
  IF whence = "cur" THEN offset - bytesUnread(m_buffer) ELSE offset

\* Where TransferSeek goes.
Target(offset, whence) ==
  CASE whence = "set" -> offset
    [] whence = "end" -> m_fileSize - offset
    [] whence = "cur" -> m_filePosition + offset

\* Where the application wants to go.
Wanted(offset, whence) ==
  CASE whence = "set" -> offset
    [] whence = "end" -> m_fileSize - offset
    [] whence = "cur" -> told + offset

\* The buffer is dropped even if the seek fails.  TransferSeek returns at once if
\* the position would not change, unless it is given from the end.
Seek ==
  /\ AtRest
  /\ m_buffer' = Cleared(m_buffer)
  /\ Spend("call")
  /\ \E offset \in Offsets, whence \in {"set", "end", "cur"} :
       LET to == Target(Rebased(offset, whence), whence)
           there == to = m_filePosition /\ whence # "end"
           valid == m_transfer # 0 /\ (there \/ to \in SeekTargets)
       IN /\ offset # 0 \/ whence # "cur"
          /\ told' = IF ~valid THEN IF m_transfer = 0 THEN 0 ELSE m_filePosition
                     ELSE IF told = Unknown /\ whence = "cur" THEN to
                     ELSE Wanted(offset, whence)
          /\ IF valid /\ ~there THEN Seeks(to)
             ELSE UNCHANGED <<latch, control, rx, tx, bpos, eof, positions, sizes, task, other>>
  /\ UNCHANGED <<m_transfer, m_readAhead, got, events, ev, opens>>

(***************************************************************************)
(* OpenTransfer and CloseTransfer                                          *)
(***************************************************************************)
\* TransferDone is answered or the control connection hangs with it; the
\* transfer is closed anyway.
TransferDone ==
  /\ AtRest /\ latch = Nobody
  /\ opens > 0 /\ opens' = opens - 1
  /\ \/ UNCHANGED <<control, budget>>
     \/ m_transfer # 0 /\ control = "open" /\ control' = "hang" /\ Spend("loss")
  /\ tx' = <<>> /\ bpos' = 0 /\ eof' = FALSE
  /\ m_filePosition' = 0 /\ m_fileRequest' = 0
  /\ UNCHANGED <<rx, latch, task, other, m_readAhead, m_buffer, got, events, ev>>

CloseTransfer ==
  /\ TransferDone
  /\ m_transfer # 0
  /\ m_transfer' = 0
  /\ told' = Unknown
  /\ UNCHANGED sizes

\* Another transfer, of the same recording or another, or none if it cannot be
\* opened.  What is in the buffer stays: the position counts once it is read or
\* dropped.
OpenTransfer ==
  /\ control = "open"
  /\ TransferDone
  /\ \/ \E rec \in Recordings :
          /\ m_transfer' = rec
          /\ recorded' \in IF rec = m_transfer THEN {recorded} ELSE 0..FileSize
          /\ m_fileSize' = recorded'
          /\ told' = IF bytesUnread(m_buffer) = 0 THEN 0 ELSE Unknown
     \/ m_transfer' = 0 /\ told' = Unknown /\ UNCHANGED sizes

(***************************************************************************)
(* Size events.  External: the backend tells that the file has grown, or   *)
(* does not.                                                               *)
(***************************************************************************)
FileGrows ==
  /\ m_transfer # 0
  /\ Grow
  /\ \/ UNCHANGED events
     \/ /\ Len(events) < MaxEvents
        /\ events' = Append(events, [rec |-> m_transfer, size |-> recorded'])
  /\ UNCHANGED <<m_transfer, m_readAhead, m_buffer, got, ev, told, opens>>

\* The recording and the transfer are staged.
HandleBackendMessage ==
  /\ ev = NoEvent /\ latch = Nobody
  /\ events # <<>>
  /\ events' = Tail(events)
  /\ ev' = IF Head(events).rec # m_transfer THEN NoEvent
           ELSE [rec |-> m_transfer, size |-> Head(events).size, transfer |-> opens]
  /\ UNCHANGED <<vars, m_transfer, m_readAhead, m_buffer, got, told, opens>>

\* The transfer may be replaced by now, m_readAhead is raised all the same.
SizeTold ==
  /\ ev # NoEvent
  /\ m_readAhead' = TRUE
  /\ IF ev.transfer = opens THEN SetSize(ev.size) ELSE UNCHANGED vars
  /\ ev' = NoEvent
  /\ UNCHANGED <<m_transfer, m_buffer, got, events, told, opens>>

----------------------------------------------------------------------------
\* Steps of the protocol that leave this class alone.
Below(step) == step /\ UNCHANGED layer

Reads ==
  \/ Receive \/ Failed
  \/ Below(PollFailed \/ FeedbackFailed \/ SeekDone \/ SeekFailed)

Step ==
  \/ ReadBlock \/ Reads \/ ReadPacket \/ Seek \/ CloseTransfer \/ OpenTransfer
  \/ FileGrows \/ HandleBackendMessage \/ SizeTold
  \/ Below(TakesLatch) \/ Below(OtherSend \/ OtherRefused \/ OtherDone \/ BackendCloses)

\* As in ProtoPlayback.
Playing ==
  /\ Initial /\ [][Step]_playback
  /\ SF_playback(Below(TakesLatch))
  /\ WF_playback(Reads)
  /\ WF_playback(Below(OtherDone))

----------------------------------------------------------------------------
\* As long as nothing fails, the application is where it believes to be: the
\* position it sought or opened, plus the bytes it got since, is GetPosition; the
\* buffer has the bytes of the recording from there on, and the stream those
\* that follow, whatever blocks were read in part or abandoned by a seek, while
\* the file grows and size events come late.
ReadInOrder ==
  budget.loss = MaxLoss /\ task = Idle /\ told # Unknown =>
    /\ GetPosition = told
    /\ LET unread == Staged(m_buffer).packet
       IN \A i \in DOMAIN unread : unread[i] = <<m_transfer, told + i - 1>>
    /\ tx # <<>> => Head(tx) = m_filePosition

=============================================================================
