---------------------- MODULE RecordingPlaybackProofs ----------------------
(***************************************************************************)
(* Proofs about reading a file of the backend (ProtoPlayback) and playing  *)
(* it from a ring of blocks (RecordingPlayback), for a file, blocks,       *)
(* recordings, offsets and bounds of any size.                             *)
(***************************************************************************)
EXTENDS RecordingPlayback, SequenceTheorems, WellFoundedInduction, TLAPS

----------------------------------------------------------------------------
(***************************************************************************)
(* The inductive invariant                                                 *)
(***************************************************************************)
Blocking == task.pc \in {"request", "poll", "recover"}

\* The protocol: what TypeOK leaves open; who holds the latch; what the locals
\* of the call say about the members: the position that is to be recovered is
\* m_filePosition in every state.
Types ==
  /\ TypeOK
  /\ budget \in [call : Nat, loss : 0..MaxLoss]
  /\ task.s <= task.n
  /\ task.pc \in {"seek", "sought"} => task.to \in 0..FileSize

Calls ==
  /\ latch = Other <=> other = "sent"
  /\ task.request => task.pc \in {"poll", "recover"}
  /\ task.pc = "idle" => task = Idle
  /\ Blocking => task.filePosition = m_filePosition
  /\ task.pc \in {"request", "poll"} => task.fileRequest = m_fileRequest
  /\ task.pc \in {"idle", "request", "seek", "sought"} => task.s = 0
  /\ task.pc = "poll" /\ ~task.request /\ ~task.data => task.s = 0

\* As long as nothing failed: the stream has the bytes from m_filePosition on,
\* up to the position of the backend, and those are asked for.
Stream ==
  budget.loss = MaxLoss =>
    /\ control = "open" /\ ~eof
    /\ task.request \/ task.pc = "sought" \/ other = "sent" => rx # <<>>
    /\ task.pc = "recover" => ~task.request /\ task.s = 0
    /\ m_fileRequest + (IF task.request THEN rx[1].val ELSE 0) = m_filePosition + Len(tx)
    /\ IF task.pc = "sought" THEN bpos = task.to /\ rx[1].val = task.to
       ELSE /\ bpos = m_filePosition + Len(tx)
            /\ \A i \in 1..Len(tx) : tx[i] = m_filePosition + i - 1

Protocol == Types /\ AnswersMatched /\ LatchWhileRequested /\ Calls /\ Stream

\* The types of the layer.
Bytes == Int \X Int

LayerTypes ==
  /\ m_transfer \in Recordings \cup {0}
  /\ got \in Seq(Bytes)
  /\ events \in Seq([rec : Recordings, size : 0..FileSize])
  /\ ev \in [rec : Recordings \cup {0}, size : 0..FileSize, transfer : Int]
  /\ told \in Int
  /\ opens \in Nat

\* The buffer holds the bytes p, in the ring or in the packet in use.
Rings == [chunk : [1..2 -> Seq(Bytes)], read : 1..2, write : 1..2, unread : Nat]

EmptyRing(ring) == ring.unread = 0 /\ \A i \in 1..2 : ring.chunk[i] = NoPacket

OneIn(ring, p) ==
  /\ ring.unread = Len(p)
  /\ \E i \in 1..2 : /\ ring.chunk[i] = p
                     /\ \A j \in 1..2 \ {i} : ring.chunk[j] = NoPacket

Holds(buffer, p) ==
  /\ p \in Seq(Bytes)
  /\ buffer \in [rbuf : Rings, packet : Seq(Bytes)]
  /\ \/ EmptyRing(buffer.rbuf) /\ buffer.packet = p
     \/ OneIn(buffer.rbuf, p) /\ buffer.packet = NoPacket /\ p # <<>>

held == Staged(m_buffer).packet

Buffer ==
  /\ Holds(m_buffer, held)
  /\ task.pc # "idle" => held = <<>> /\ m_transfer # 0
  /\ Len(got) = task.s

\* As long as nothing failed the application is where it believes to be.
Place ==
  budget.loss = MaxLoss /\ told # Unknown =>
    /\ m_transfer = 0 => told = 0 /\ held = <<>>
    /\ m_transfer # 0 /\ task.pc = "idle" =>
         /\ told = m_filePosition - Len(held)
         /\ \A i \in 1..Len(held) : held[i] = <<m_transfer, told + i - 1>>
    /\ Blocking =>
         /\ told = m_filePosition - Len(got)
         /\ \A i \in 1..Len(got) : got[i] = <<m_transfer, told + i - 1>>
    /\ task.pc \in {"seek", "sought"} => told = task.to

IInv == Protocol /\ LayerTypes /\ Buffer /\ Place

----------------------------------------------------------------------------
USE PlaybackAssumption, RecordingAssumption

LEMMA SmallerOf ==
  ASSUME NEW a \in Int, NEW b \in Int
  PROVE  /\ Smaller(a, b) \in {a, b}
         /\ Smaller(a, b) <= a /\ Smaller(a, b) <= b
<1>1. CASE a <= b
  <2>1. a \in {a, b} /\ \A y \in {a, b} : a <= y
    BY <1>1
  <2> QED BY <2>1 DEF Smaller, Min
<1>2. CASE b <= a
  <2>1. b \in {a, b} /\ \A y \in {a, b} : b <= y
    BY <1>2
  <2> QED BY <2>1 DEF Smaller, Min
<1> QED BY <1>1, <1>2


LEMMA IdleTask ==
  /\ Idle \in Tasks
  /\ Idle.pc = "idle" /\ Idle.s = 0 /\ Idle.n = 0 /\ Idle.to = 0
  /\ ~Idle.request /\ ~Idle.data
BY DEF Idle, Tasks, Places

LEMMA SpendKeeps ==
  ASSUME budget \in [call : Nat, loss : 0..MaxLoss], NEW b \in {"call", "loss"}, Spend(b)
  PROVE  /\ budget' \in [call : Nat, loss : 0..MaxLoss]
         /\ b = "call" => budget'.loss = budget.loss
         /\ b = "loss" => budget'.loss # MaxLoss
<1>1. CASE b = "call"
  BY <1>1 DEF Spend
<1>2. CASE b = "loss"
  BY <1>2 DEF Spend
<1> QED BY <1>1, <1>2

\* One lemma for each action of ProtoPlayback.
LEMMA RequestKeeps ==
  ASSUME Protocol, task = Idle, NEW n \in 1..MaxBlock, Request(n), Spend("call")
  PROVE  /\ Protocol' /\ task'.pc \in {"request", "poll"} /\ task'.s = 0
         /\ budget'.loss = budget.loss
<1> USE DEF positions, sizes
<1>1. /\ task' \in Tasks
      /\ task'.pc \in {"request", "poll"} /\ ~task'.request /\ ~task'.data
      /\ task'.s = 0 /\ task'.n = n
      /\ task'.filePosition = m_filePosition /\ task'.fileRequest = m_fileRequest
  <2>0. m_filePosition \in Nat /\ m_fileRequest \in Nat /\ n \in 0..MaxBlock
    BY DEF Protocol, Types, TypeOK
  <2>1. PICK pc \in {"request", "poll"} :
          task' = [Idle EXCEPT !.pc = pc, !.n = n, !.filePosition = m_filePosition,
                               !.fileRequest = m_fileRequest]
    BY DEF Request
  <2>2. task' = [pc |-> pc, n |-> n, s |-> 0, request |-> FALSE, data |-> FALSE,
                 filePosition |-> m_filePosition, fileRequest |-> m_fileRequest,
                 to |-> 0, die |-> FALSE]
    BY <2>1 DEF Idle
  <2>3. task' \in Tasks
    BY <2>0, <2>2 DEF Tasks, Places
  <2> QED BY <2>2, <2>3
<1>2. UNCHANGED <<latch, control, rx, tx, bpos, eof, positions, sizes, other>>
  BY DEF Request
<1>3. /\ budget' \in [call : Nat, loss : 0..MaxLoss]
      /\ budget'.loss = budget.loss
  BY SpendKeeps DEF Protocol, Types
<1>4. Types'
  BY <1>1, <1>2, <1>3 DEF Protocol, Types, TypeOK
<1>5. AnswersMatched' /\ LatchWhileRequested'
  BY <1>1, <1>2, IdleTask DEF Protocol, AnswersMatched, LatchWhileRequested
<1>6. Calls'
  BY <1>1, <1>2, IdleTask DEF Protocol, Calls, Blocking
<1>7. Stream'
  BY <1>1, <1>2, <1>3, IdleTask DEF Protocol, Stream
<1> QED BY <1>1, <1>3, <1>4, <1>5, <1>6, <1>7 DEF Protocol

LEMMA RequestSendKeeps ==
  ASSUME Protocol, RequestSend
  PROVE  /\ Protocol' /\ task'.pc \in {"poll", "recover"} /\ task'.s = task.s
         /\ budget'.loss = MaxLoss => UNCHANGED budget
<1> USE DEF positions, sizes
<1> DEFINE rlen == IF eof \/ bpos >= recorded THEN 0 ELSE Smaller(task.n, recorded - bpos)
<1>1. /\ task \in Tasks /\ task.pc = "request" /\ ~task.request /\ latch = Nobody
      /\ rx = <<>> /\ other = "idle"
  BY DEF Protocol, Types, TypeOK, AnswersMatched, LatchWhileRequested, Calls, RequestSend
<1>2. latch' = Reader /\ UNCHANGED <<eof, sizes, positions, other>>
  BY DEF RequestSend
<1>3. ASSUME /\ rx' = Append(rx, [to |-> Reader, val |-> rlen])
             /\ tx' = tx \o Block(rlen)
             /\ bpos' = bpos + rlen
             /\ task' = [task EXCEPT !.pc = "poll", !.request = TRUE]
             /\ UNCHANGED <<control, budget>>
      PROVE  /\ Protocol' /\ task'.pc \in {"poll", "recover"} /\ task'.s = task.s
             /\ budget'.loss = MaxLoss => UNCHANGED budget
  <2>1. rlen \in 0..FileSize /\ bpos + rlen \in 0..FileSize
    <3>1. /\ task.n \in Int /\ task.n >= 0 /\ recorded - bpos \in Int
          /\ bpos \in 0..FileSize /\ recorded \in 0..FileSize
      BY <1>1 DEF Protocol, Types, TypeOK, Tasks
    <3> QED BY <3>1, SmallerOf
  <2> HIDE DEF rlen
  <2>2. /\ Block(rlen) \in Seq(0..FileSize) /\ Len(Block(rlen)) = rlen
        /\ \A i \in 1..rlen : Block(rlen)[i] = bpos + i - 1
    <3>1. \A i \in 1..rlen : bpos + i - 1 \in 0..FileSize
      BY <2>1 DEF Protocol, Types, TypeOK
    <3> QED BY <3>1, <2>1 DEF Block
  <2>3. rx' = <<[to |-> Reader, val |-> rlen]>> /\ rx' \in Seq(Replies)
    <3>1. [to |-> Reader, val |-> rlen] \in Replies
      BY <2>1 DEF Replies
    <3> QED BY <1>1, <1>3, <3>1
  <2>4. /\ task' \in Tasks /\ task'.pc = "poll" /\ task'.request
        /\ task'.n = task.n /\ task'.s = task.s /\ task'.data = task.data
        /\ task'.filePosition = task.filePosition /\ task'.fileRequest = task.fileRequest
    BY <1>1, <1>3 DEF Tasks, Places
  <2>5. /\ tx' \in Seq(0..FileSize) /\ Len(tx') = Len(tx) + rlen
        /\ \A i \in 1..Len(tx) : tx'[i] = tx[i]
        /\ \A i \in 1..rlen : tx'[Len(tx) + i] = bpos + i - 1
    <3>1. tx \in Seq(0..FileSize) /\ tx' = tx \o Block(rlen)
      BY <1>3 DEF Protocol, Types, TypeOK
    <3> QED BY <2>1, <2>2, <3>1
  <2>6. Types'
    BY <1>1, <1>2, <1>3, <2>1, <2>3, <2>4, <2>5 DEF Protocol, Types, TypeOK
  <2>7. AnswersMatched' /\ LatchWhileRequested'
    BY <1>2, <2>3, <2>4 DEF AnswersMatched, LatchWhileRequested
  <2>8. Calls'
    BY <1>1, <1>2, <2>4 DEF Protocol, Calls, Blocking
  <2>9. Stream'
    <3> SUFFICES ASSUME budget.loss = MaxLoss PROVE Stream'
      BY <1>3 DEF Stream
    <3>1. rx'[1].val = rlen
      BY <2>3
    <3>2. /\ control = "open" /\ ~eof /\ Len(tx) \in Nat /\ m_filePosition \in Nat
          /\ m_fileRequest = m_filePosition + Len(tx) /\ bpos = m_filePosition + Len(tx)
          /\ \A i \in 1..Len(tx) : tx[i] = m_filePosition + i - 1
      BY <1>1 DEF Protocol, Types, TypeOK, Stream
    <3>3. ASSUME NEW i \in 1..Len(tx')
          PROVE  tx'[i] = m_filePosition + i - 1
      <4>1. CASE i <= Len(tx)
        BY <4>1, <2>5, <3>2
      <4>2. CASE i > Len(tx)
        <5>1. i - Len(tx) \in 1..rlen /\ Len(tx) + (i - Len(tx)) = i
          BY <2>1, <2>5, <3>2, <4>2
        <5> QED BY <2>5, <3>2, <5>1
      <4> QED BY <3>2, <4>1, <4>2
    <3>4. m_fileRequest + rlen = m_filePosition + Len(tx') /\ bpos' = m_filePosition + Len(tx')
      BY <1>3, <2>1, <2>5, <3>2
    <3>5. rx' # <<>>
      BY <2>3
    <3> QED BY <1>2, <1>3, <2>4, <3>1, <3>2, <3>3, <3>4, <3>5 DEF Stream
  <2> QED BY <1>3, <2>4, <2>6, <2>7, <2>8, <2>9 DEF Protocol
<1>4. ASSUME /\ IF control = "open" THEN Spend("loss") ELSE UNCHANGED budget
             /\ HangException
             /\ task' = [task EXCEPT !.pc = "recover", !.request = TRUE]
             /\ UNCHANGED <<tx, bpos>>
      PROVE  /\ Protocol' /\ task'.pc \in {"poll", "recover"} /\ task'.s = task.s
             /\ budget'.loss = MaxLoss => UNCHANGED budget
  <2>1. /\ task' \in Tasks /\ task'.pc = "recover" /\ task'.request
        /\ task'.n = task.n /\ task'.s = task.s
        /\ task'.filePosition = task.filePosition
    BY <1>1, <1>4 DEF Tasks, Places
  <2>2. control' = "hang" /\ rx' = <<>>
    BY <1>4 DEF HangException
  <2>3. budget' \in [call : Nat, loss : 0..MaxLoss] /\ budget'.loss # MaxLoss
    BY <1>4, SpendKeeps DEF Protocol, Types, Stream
  <2>4. Types'
    BY <1>1, <1>2, <1>4, <2>1, <2>2, <2>3 DEF Protocol, Types, TypeOK
  <2>5. AnswersMatched' /\ LatchWhileRequested'
    BY <1>2, <2>1, <2>2 DEF AnswersMatched, LatchWhileRequested
  <2>6. Calls'
    BY <1>1, <1>2, <2>1 DEF Protocol, Calls, Blocking
  <2> QED BY <2>1, <2>3, <2>4, <2>5, <2>6 DEF Protocol, Stream
<1> QED BY <1>3, <1>4 DEF RequestSend

\* A sequence of one element.
LEMMA Single ==
  ASSUME NEW S, NEW q \in Seq(S), q # <<>>, Len(q) <= 1
  PROVE  Len(q) = 1 /\ Head(q) = q[1] /\ q[1] \in S /\ Tail(q) = <<>>
<1>1. Len(q) = 1
  <2>1. Len(q) \in Nat \ {0}
    BY EmptySeq
  <2>2. \A k \in Nat \ {0} : k <= 1 => k = 1
    OBVIOUS
  <2> QED BY <2>1, <2>2, Zenon
<1>3. Head(q) = q[1]
  BY <1>1
<1>2. Tail(q) \in Seq(S) /\ Len(Tail(q)) = 0
  BY <1>1, HeadTailProperties
<1> QED BY <1>1, <1>2, <1>3, EmptySeq, ElementOfSeq

LEMMA NoReply == <<>> \in Seq(Replies)
BY EmptySeq

LEMMA DropOf ==
  ASSUME NEW S, NEW q \in Seq(S), NEW k \in 0..Len(q)
  PROVE  /\ Drop(q, k) \in Seq(S) /\ Len(Drop(q, k)) = Len(q) - k
         /\ \A i \in 1..Len(q) - k : Drop(q, k)[i] = q[i + k]
         /\ k = Len(q) => Drop(q, k) = <<>>
BY SubSeqEmpty DEF Drop

LEMMA OneAnswer ==
  ASSUME Protocol, rx # <<>>
  PROVE  Head(rx) = rx[1] /\ rx[1].val \in 0..FileSize /\ Tail(rx) = <<>>
<1>1. rx \in Seq(Replies)
  BY DEF Protocol, Types, TypeOK
<1>2. Len(rx) <= 1
  BY DEF Protocol, Types, TypeOK, AnswersMatched
<1>3. rx[1] \in Replies /\ Head(rx) = rx[1] /\ Tail(rx) = <<>>
  BY <1>1, <1>2, Single
<1> QED BY <1>3 DEF Replies

\* A turn of the loop takes rr bytes off the stream, the answer, or both.
LEMMA PollTurn ==
  ASSUME Protocol, Poll
  PROVE  \E rr \in 0..Len(tx), answered \in BOOLEAN :
           /\ tx' \in Seq(0..FileSize) /\ Len(tx') = Len(tx) - rr
           /\ \A i \in 1..Len(tx') : tx'[i] = tx[i + rr]
           /\ m_filePosition' = m_filePosition + rr
           /\ \/ /\ answered /\ task.request /\ rx # <<>> /\ rx' = <<>> /\ latch' = Nobody
                 /\ m_fileRequest' = m_fileRequest + rx[1].val
              \/ ~answered /\ UNCHANGED <<rx, latch, m_fileRequest>>
           /\ \/ task' = Idle /\ (answered \/ ~task.request)
              \/ /\ task' \in Tasks /\ task'.pc = "poll"
                 /\ task'.s = task.s + rr /\ task'.s <= task'.n
                 /\ task'.request <=> task.request /\ ~answered
                 /\ task'.filePosition = m_filePosition' /\ task'.fileRequest = m_fileRequest'
                 /\ task'.request \/ task'.data \/ task'.s = 0
<1>1. PICK rr \in 0..Smaller(Room, Len(tx)), answered \in BOOLEAN :
        LET call == [task EXCEPT !.s = @ + rr, !.filePosition = @ + rr,
                                 !.data = rr > 0 /\ task.s + rr < task.n]
            rlen == IF answered THEN Head(rx).val ELSE 0
        IN /\ rr > 0 \/ answered
           /\ answered => task.request /\ rx # <<>>
           /\ tx' = Drop(tx, rr)
           /\ m_filePosition' = IF rr > 0 THEN call.filePosition ELSE m_filePosition
           /\ IF answered
              THEN /\ rx' = Tail(rx)
                   /\ latch' = Nobody
                   /\ IF rlen = 0 /\ ~call.data
                      THEN task' = Idle /\ UNCHANGED m_fileRequest
                      ELSE /\ m_fileRequest' = task.fileRequest + rlen
                           /\ PollAgain([call EXCEPT !.request = FALSE,
                                                     !.fileRequest = @ + rlen])
              ELSE PollAgain(call) /\ UNCHANGED <<rx, latch, m_fileRequest>>
  BY DEF Poll
<1> DEFINE call == [task EXCEPT !.s = @ + rr, !.filePosition = @ + rr,
                                !.data = rr > 0 /\ task.s + rr < task.n]
           rlen == IF answered THEN Head(rx).val ELSE 0
           done == [call EXCEPT !.request = FALSE, !.fileRequest = @ + rlen]
<1>2. /\ task \in Tasks /\ task.pc = "poll" /\ tx \in Seq(0..FileSize)
      /\ task.filePosition = m_filePosition /\ task.fileRequest = m_fileRequest
      /\ task.s <= task.n
      /\ m_filePosition \in Nat /\ m_fileRequest \in Nat
  BY DEF Protocol, Types, TypeOK, Calls, Blocking, Poll
<1>3. rr \in 0..Len(tx) /\ task.s + rr <= task.n
  <2>1. Room \in Int /\ Len(tx) \in Int /\ Room = task.n - task.s
    BY <1>2 DEF Room, Tasks
  <2> QED BY <1>2, <2>1, SmallerOf DEF Tasks
<1>4. /\ tx' \in Seq(0..FileSize) /\ Len(tx') = Len(tx) - rr
      /\ \A i \in 1..Len(tx') : tx'[i] = tx[i + rr]
  <2>1. tx' = SubSeq(tx, rr + 1, Len(tx))
    BY <1>1 DEF Drop
  <2> QED BY <1>2, <1>3, <2>1
<1>5. /\ call \in Tasks /\ call.pc = "poll" /\ call.s = task.s + rr /\ call.n = task.n
      /\ call.filePosition = m_filePosition + rr /\ call.fileRequest = m_fileRequest
      /\ call.request = task.request /\ call.s <= call.n
  <2>1. /\ task.s + rr \in 0..MaxBlock /\ task.filePosition + rr \in Nat
        /\ (rr > 0 /\ task.s + rr < task.n) \in BOOLEAN
    BY <1>2, <1>3 DEF Tasks
  <2>2. call \in Tasks
    BY <1>2, <2>1 DEF Tasks
  <2> QED BY <1>2, <1>3, <2>2 DEF Tasks
<1>6. answered => Head(rx) = rx[1] /\ rlen = rx[1].val /\ rlen \in 0..FileSize /\ Tail(rx) = <<>>
  <2>1. answered => task.request /\ rx # <<>>
    BY <1>1
  <2> QED BY <2>1, OneAnswer
<1>7. answered =>
      /\ done \in Tasks /\ done.pc = "poll" /\ done.s = task.s + rr /\ done.s <= done.n
      /\ done.filePosition = m_filePosition + rr /\ done.fileRequest = m_fileRequest + rlen
      /\ ~done.request
  <2> HIDE DEF call, rlen
  <2>1. answered => call.fileRequest + rlen \in Nat
    BY <1>2, <1>5, <1>6
  <2>2. answered => done \in Tasks
    BY <1>5, <2>1 DEF Tasks
  <2> QED BY <1>5, <2>2 DEF Tasks
<1>8. m_filePosition' = m_filePosition + rr
  BY <1>1, <1>2, <1>3, <1>5
<1>9. CASE answered
  <2>1. /\ task.request /\ rx # <<>> /\ rx' = <<>> /\ latch' = Nobody
        /\ IF rlen = 0 /\ ~call.data
           THEN task' = Idle /\ UNCHANGED m_fileRequest
           ELSE m_fileRequest' = task.fileRequest + rlen /\ PollAgain(done)
    BY <1>1, <1>6, <1>9
  <2>2. \/ task' = Idle
        \/ task' = done /\ (done.request \/ done.data \/ done.s = 0)
           /\ m_fileRequest' = m_fileRequest + rlen
    BY <2>1, <1>2 DEF PollAgain
  <2>3. m_fileRequest' = m_fileRequest + rlen
    BY <2>1, <1>2
  <2> HIDE DEF call, rlen, done
  <2> QED BY <1>3, <1>4, <1>6, <1>7, <1>8, <1>9, <2>1, <2>2, <2>3
<1>10. CASE ~answered
  <2>1. PollAgain(call) /\ UNCHANGED <<rx, latch, m_fileRequest>>
    BY <1>1, <1>10
  <2> HIDE DEF call, rlen, done
  <2>2. \/ task' = Idle /\ ~task.request
        \/ task' = call /\ (call.request \/ call.data \/ call.s = 0)
    BY <1>5, <2>1 DEF PollAgain
  <2> QED BY <1>3, <1>4, <1>5, <1>8, <1>10, <2>1, <2>2
<1> QED BY <1>9, <1>10

LEMMA PollKeeps == ASSUME Protocol, Poll PROVE Protocol'
<1> USE DEF positions, sizes
<1>1. PICK rr \in 0..Len(tx), answered \in BOOLEAN :
           /\ tx' \in Seq(0..FileSize) /\ Len(tx') = Len(tx) - rr
           /\ \A i \in 1..Len(tx') : tx'[i] = tx[i + rr]
           /\ m_filePosition' = m_filePosition + rr
           /\ \/ /\ answered /\ task.request /\ rx # <<>> /\ rx' = <<>> /\ latch' = Nobody
                 /\ m_fileRequest' = m_fileRequest + rx[1].val
              \/ ~answered /\ UNCHANGED <<rx, latch, m_fileRequest>>
           /\ \/ task' = Idle /\ (answered \/ ~task.request)
              \/ /\ task' \in Tasks /\ task'.pc = "poll"
                 /\ task'.s = task.s + rr /\ task'.s <= task'.n
                 /\ task'.request <=> task.request /\ ~answered
                 /\ task'.filePosition = m_filePosition' /\ task'.fileRequest = m_fileRequest'
                 /\ task'.request \/ task'.data \/ task'.s = 0
  BY PollTurn
<1>2. task.pc = "poll" /\ UNCHANGED <<control, bpos, eof, sizes, other, budget>>
  BY DEF Poll
<1>3. rx # <<>> => rx[1].val \in 0..FileSize
  BY OneAnswer
<1>4. m_filePosition \in Nat /\ m_fileRequest \in Nat /\ Len(tx) \in Nat /\ Len(tx') \in Nat
  BY <1>1 DEF Protocol, Types, TypeOK
<1>5. Types'
  <2>1. /\ rx' \in Seq(Replies)
        /\ latch' \in {Reader, Other, Nobody}
    <3>1. rx' \in {<<>>, rx} /\ latch' \in {Nobody, latch}
      BY <1>1
    <3> QED BY <3>1, NoReply DEF Protocol, Types, TypeOK
  <2>2. m_filePosition' \in Nat /\ m_fileRequest' \in Nat
    BY <1>1, <1>3, <1>4
  <2>3. task' \in Tasks /\ task'.s <= task'.n /\ task'.pc \notin {"seek", "sought"}
    BY <1>1, IdleTask
  <2> QED BY <1>1, <1>2, <2>1, <2>2, <2>3 DEF Protocol, Types, TypeOK
<1>6. AnswersMatched' /\ LatchWhileRequested'
  <2>1. task.request => latch = Reader
    BY DEF Protocol, LatchWhileRequested
  <2>2. task'.pc # "sought" /\ (task'.request <=> task.request /\ ~answered)
    BY <1>1, IdleTask
  <2> QED BY <1>1, <1>2, <2>1, <2>2 DEF Protocol, AnswersMatched, LatchWhileRequested
<1>7. Calls'
  <2>1. (latch = Other <=> other = "sent")'
    BY <1>1, <1>2 DEF Protocol, Calls, LatchWhileRequested
  <2> QED BY <1>1, <2>1, IdleTask DEF Calls, Blocking
<1>8. Stream'
  <2> SUFFICES ASSUME budget.loss = MaxLoss PROVE Stream'
    BY <1>2 DEF Stream
  <2>1. /\ control = "open" /\ ~eof
        /\ task.request \/ other = "sent" => rx # <<>>
        /\ m_fileRequest + (IF task.request THEN rx[1].val ELSE 0) = m_filePosition + Len(tx)
        /\ bpos = m_filePosition + Len(tx)
        /\ \A i \in 1..Len(tx) : tx[i] = m_filePosition + i - 1
    BY <1>2 DEF Protocol, Stream
  <2>2. task'.pc \notin {"sought", "recover"} /\ (task'.request <=> task.request /\ ~answered)
    BY <1>1, IdleTask
  <2>3. \A i \in 1..Len(tx') : tx'[i] = m_filePosition' + i - 1
    <3>1. ASSUME NEW i \in 1..Len(tx')
          PROVE  tx'[i] = m_filePosition' + i - 1
      <4>1. tx'[i] = tx[i + rr] /\ Len(tx') = Len(tx) - rr
        BY <1>1
      <4>2. i + rr \in 1..Len(tx)
        BY <1>4, <4>1
      <4> QED BY <1>1, <1>4, <2>1, <4>1, <4>2
    <3> QED BY <3>1
  <2>4. /\ bpos' = m_filePosition' + Len(tx')
        /\ m_fileRequest' + (IF task'.request THEN rx'[1].val ELSE 0) = m_filePosition' + Len(tx')
    BY <1>1, <1>2, <1>3, <1>4, <2>1, <2>2
  <2>5. task'.request \/ other' = "sent" => rx' # <<>>
    BY <1>1, <1>2, <2>1, <2>2 DEF Protocol, Calls, LatchWhileRequested
  <2> QED BY <1>2, <2>1, <2>2, <2>3, <2>4, <2>5 DEF Stream
<1> QED BY <1>5, <1>6, <1>7, <1>8 DEF Protocol

LEMMA PollNothingTurn ==
  ASSUME Protocol, PollNothing
  PROVE  /\ UNCHANGED <<latch, control, rx, tx, bpos, eof, sizes, positions, other, budget>>
         /\ \/ task' = Idle /\ ~task.request
            \/ /\ task' \in Tasks /\ task'.pc = "poll"
               /\ task'.s = task.s /\ task'.n = task.n
               /\ task'.request = task.request
               /\ task'.filePosition = task.filePosition
               /\ task'.fileRequest = task.fileRequest
               /\ task'.request \/ task'.data \/ task'.s = 0
<1> DEFINE call == [task EXCEPT !.data = FALSE]
<1>1. task \in Tasks /\ task.pc = "poll"
  BY DEF Protocol, Types, TypeOK, PollNothing
<1>2. /\ call \in Tasks /\ call.pc = "poll"
      /\ call.s = task.s /\ call.n = task.n /\ call.request = task.request
      /\ call.filePosition = task.filePosition /\ call.fileRequest = task.fileRequest
  BY <1>1 DEF Tasks
<1>3. PollAgain(call) /\ UNCHANGED <<latch, control, rx, tx, bpos, eof, sizes, positions, other, budget>>
  BY DEF PollNothing
<1> HIDE DEF call
<1> QED BY <1>2, <1>3 DEF PollAgain

LEMMA PollNothingKeeps == ASSUME Protocol, PollNothing PROVE Protocol'
<1> USE DEF positions, sizes
<1>1. /\ UNCHANGED <<latch, control, rx, tx, bpos, eof, sizes, positions, other, budget>>
      /\ \/ task' = Idle /\ ~task.request
         \/ /\ task' \in Tasks /\ task'.pc = "poll"
            /\ task'.s = task.s /\ task'.n = task.n
            /\ task'.request = task.request
            /\ task'.filePosition = task.filePosition
            /\ task'.fileRequest = task.fileRequest
            /\ task'.request \/ task'.data \/ task'.s = 0
  BY PollNothingTurn
<1>2. task.pc = "poll"
  BY DEF PollNothing
<1>3. Types'
  BY <1>1, IdleTask DEF Protocol, Types, TypeOK
<1>4. AnswersMatched' /\ LatchWhileRequested'
  BY <1>1, <1>2, IdleTask DEF Protocol, AnswersMatched, LatchWhileRequested
<1>5. Calls'
  BY <1>1, <1>2, IdleTask DEF Protocol, Calls, Blocking
<1>6. Stream'
  BY <1>1, <1>2, IdleTask DEF Protocol, Stream
<1> QED BY <1>3, <1>4, <1>5, <1>6 DEF Protocol

LEMMA PollFailedKeeps ==
  ASSUME Protocol, PollFailed
  PROVE  /\ Protocol' /\ task'.pc = "recover" /\ task'.s = task.s
         /\ budget'.loss = MaxLoss => UNCHANGED budget
<1> USE DEF positions, sizes
<1>1. /\ task.pc = "poll" /\ task \in Tasks
      /\ UNCHANGED <<control, tx, bpos, eof, sizes, m_filePosition, other>>
  BY DEF Protocol, Types, TypeOK, PollFailed
<1>2. /\ budget' \in [call : Nat, loss : 0..MaxLoss]
      /\ budget'.loss = MaxLoss => Silent /\ UNCHANGED budget
  BY SpendKeeps DEF Protocol, Types, PollFailed
<1>3. PICK answered \in BOOLEAN :
        /\ ~answered => /\ task' = [task EXCEPT !.pc = "recover"]
                        /\ UNCHANGED <<latch, rx, m_fileRequest>>
        /\ answered  => /\ task.request /\ rx # <<>>
                        /\ rx' = Tail(rx)
                        /\ m_fileRequest' = m_fileRequest + Head(rx).val
                        /\ latch' = Nobody
                        /\ task' = [task EXCEPT !.pc = "recover", !.request = FALSE]
  BY DEF PollFailed
<1>4. /\ task' \in Tasks /\ task'.pc = "recover" /\ task'.s = task.s /\ task'.n = task.n
      /\ task'.filePosition = task.filePosition
      /\ task'.request <=> task.request /\ ~answered
  <2>1. CASE answered
    BY <1>1, <1>3, <2>1 DEF Tasks, Places
  <2>2. CASE ~answered
    BY <1>1, <1>3, <2>2 DEF Tasks, Places
  <2> QED BY <2>1, <2>2
<1>5. /\ answered => task.request /\ rx # <<>> /\ rx' = <<>> /\ latch' = Nobody
      /\ ~answered => UNCHANGED <<latch, rx, m_fileRequest>>
      /\ m_fileRequest' \in Nat
  <2>1. m_fileRequest \in Nat
    BY DEF Protocol, Types, TypeOK
  <2>2. CASE answered
    <3>1. /\ task.request /\ rx # <<>> /\ rx' = Tail(rx) /\ latch' = Nobody
          /\ m_fileRequest' = m_fileRequest + Head(rx).val
      BY <1>3, <2>2
    <3>2. Head(rx).val \in Nat /\ Tail(rx) = <<>>
      BY <3>1, OneAnswer
    <3> QED BY <2>1, <2>2, <3>1, <3>2
  <2>3. CASE ~answered
    BY <1>3, <2>1, <2>3
  <2> QED BY <2>2, <2>3
<1>6. Types'
  <2>1. rx' \in Seq(Replies) /\ latch' \in {Reader, Other, Nobody}
    BY <1>5, NoReply DEF Protocol, Types, TypeOK
  <2> QED BY <1>1, <1>2, <1>4, <1>5, <2>1 DEF Protocol, Types, TypeOK
<1>7. AnswersMatched' /\ LatchWhileRequested'
  BY <1>1, <1>4, <1>5 DEF Protocol, AnswersMatched, LatchWhileRequested
<1>8. Calls'
  BY <1>1, <1>4, <1>5 DEF Protocol, Calls, Blocking, LatchWhileRequested
<1>9. Stream'
  <2> SUFFICES ASSUME budget'.loss = MaxLoss PROVE Stream'
    BY DEF Stream
  <2>1. budget.loss = MaxLoss /\ ~task.data /\ (~task.request \/ rx = <<>>)
    BY <1>2 DEF Silent
  <2>2. ~task.request /\ task.s = 0
    BY <1>1, <2>1 DEF Protocol, Stream, Calls
  <2> QED BY <1>1, <1>4, <1>5, <2>1, <2>2 DEF Protocol, Stream
<1> QED BY <1>2, <1>4, <1>6, <1>7, <1>8, <1>9 DEF Protocol

LEMMA FeedbackFailedKeeps ==
  ASSUME Protocol, FeedbackFailed
  PROVE  Protocol' /\ task'.pc = "recover" /\ task'.s = task.s /\ budget'.loss # MaxLoss
<1> USE DEF positions, sizes
<1>1. /\ task.pc = "poll" /\ task \in Tasks /\ rx # <<>> /\ latch = Reader /\ latch' = Nobody
      /\ UNCHANGED <<tx, bpos, eof, sizes, positions, other>>
  BY DEF Protocol, Types, TypeOK, LatchWhileRequested, FeedbackFailed
<1>2. budget' \in [call : Nat, loss : 0..MaxLoss] /\ budget'.loss # MaxLoss
  BY SpendKeeps DEF Protocol, Types, FeedbackFailed
<1>3. /\ task' \in Tasks /\ task'.pc = "recover" /\ task'.s = task.s /\ task'.n = task.n
      /\ task'.filePosition = task.filePosition /\ ~task'.request
  BY <1>1 DEF FeedbackFailed, Tasks, Places
<1>4. rx' = <<>> /\ control' \in {control, "hang"}
  BY <1>1, OneAnswer DEF FeedbackFailed, FlushMessage, HangException
<1>5. Types'
  BY <1>1, <1>2, <1>3, <1>4, NoReply DEF Protocol, Types, TypeOK
<1>6. AnswersMatched' /\ LatchWhileRequested'
  BY <1>1, <1>3, <1>4 DEF AnswersMatched, LatchWhileRequested
<1>7. Calls'
  BY <1>1, <1>3 DEF Protocol, Calls, Blocking
<1> QED BY <1>2, <1>3, <1>5, <1>6, <1>7 DEF Protocol, Stream

\* The client does not go back: filePosition is m_filePosition.
LEMMA RecoverKeeps ==
  ASSUME Protocol, Recover
  PROVE  /\ Protocol' /\ task' = Idle
         /\ UNCHANGED <<tx, bpos, eof, sizes, positions, other>>
         /\ budget'.loss = MaxLoss => UNCHANGED budget
<1> USE DEF positions, sizes
<1>1. /\ task.pc = "recover" /\ task \in Tasks
      /\ UNCHANGED <<tx, bpos, eof, sizes, positions, other>>
  BY DEF Protocol, Types, TypeOK, Recover
<1>2. task' = Idle
  BY <1>1 DEF Protocol, Calls, Blocking, Recover, SeekBack
<1>3. PICK waits \in BOOLEAN :
      /\ waits  => task.request /\ latch' = Nobody /\ rx' = <<>> /\ control' \in {control, "hang"}
      /\ ~waits => ~task.request /\ UNCHANGED <<latch, control, rx, budget>>
      /\ budget' \in [call : Nat, loss : 0..MaxLoss]
      /\ budget'.loss = MaxLoss => UNCHANGED <<control, budget>>
  <2>1. CASE ~task.request
    BY <2>1 DEF Recover, Protocol, Types
  <2>2. CASE task.request /\ FlushMessage /\ latch' = Nobody /\ UNCHANGED <<control, budget>>
    BY <2>2, OneAnswer DEF FlushMessage, Protocol, Types
  <2>3. CASE /\ task.request
             /\ IF control = "open" THEN Spend("loss") ELSE UNCHANGED budget
             /\ HangException
             /\ latch' = Nobody
    BY <2>3, SpendKeeps DEF HangException, Protocol, Types, Stream
  <2> QED BY <2>1, <2>2, <2>3 DEF Recover
<1>4. Types'
  <2>1. /\ rx' \in {<<>>, rx} /\ latch' \in {Nobody, latch} /\ control' \in {control, "hang"}
        /\ budget' \in [call : Nat, loss : 0..MaxLoss]
    BY <1>3
  <2>2. rx' \in Seq(Replies) /\ latch' \in {Reader, Other, Nobody}
        /\ control' \in {"open", "hang", "closed"}
    BY <2>1, NoReply DEF Protocol, Types, TypeOK
  <2> QED BY <1>1, <1>2, <2>1, <2>2, IdleTask DEF Protocol, Types, TypeOK
<1>5. AnswersMatched' /\ LatchWhileRequested'
  BY <1>1, <1>2, <1>3, IdleTask DEF Protocol, AnswersMatched, LatchWhileRequested
<1>6. Calls'
  BY <1>1, <1>2, <1>3, IdleTask DEF Protocol, Calls, Blocking, LatchWhileRequested
<1>7. Stream'
  <2> SUFFICES ASSUME budget'.loss = MaxLoss PROVE Stream'
    BY DEF Stream
  <2>1. budget.loss = MaxLoss /\ ~task.request /\ UNCHANGED <<control, rx>>
    BY <1>1, <1>3 DEF Protocol, Stream
  <2> QED BY <1>1, <1>2, <2>1, IdleTask DEF Protocol, Stream
<1> QED BY <1>1, <1>2, <1>3, <1>4, <1>5, <1>6, <1>7 DEF Protocol

LEMMA SeeksKeeps ==
  ASSUME Protocol, task = Idle, NEW to \in SeekTargets, Seeks(to), Spend("call")
  PROVE  Protocol' /\ task'.pc = "seek" /\ task'.to = to /\ task'.s = 0 /\ budget'.loss = budget.loss
<1> USE DEF positions, sizes
<1>1. to \in 0..FileSize
  BY DEF SeekTargets, Protocol, Types, TypeOK
<1>2. /\ task' \in Tasks /\ task'.pc = "seek" /\ task'.to = to /\ task'.s = 0 /\ task'.n = 0
      /\ ~task'.request
  <2>1. task' = [pc |-> "seek", n |-> 0, s |-> 0, request |-> FALSE, data |-> FALSE,
                 filePosition |-> 0, fileRequest |-> 0, to |-> to, die |-> FALSE]
    BY DEF Seeks, Idle
  <2>2. task' \in Tasks
    BY <1>1, <2>1 DEF Tasks, Places
  <2> QED BY <2>1, <2>2
<1>3. UNCHANGED <<latch, control, rx, tx, bpos, eof, positions, sizes, other>>
  BY DEF Seeks
<1>4. /\ budget' \in [call : Nat, loss : 0..MaxLoss]
      /\ budget'.loss = budget.loss
  BY SpendKeeps DEF Protocol, Types
<1>5. Types'
  BY <1>1, <1>2, <1>3, <1>4 DEF Protocol, Types, TypeOK
<1>6. AnswersMatched' /\ LatchWhileRequested'
  BY <1>2, <1>3, IdleTask DEF Protocol, AnswersMatched, LatchWhileRequested
<1>7. Calls'
  BY <1>2, <1>3, IdleTask DEF Protocol, Calls, Blocking
<1>8. Stream'
  BY <1>2, <1>3, <1>4, IdleTask DEF Protocol, Stream
<1> QED BY <1>2, <1>4, <1>5, <1>6, <1>7, <1>8 DEF Protocol

LEMMA SeekSendKeeps ==
  ASSUME Protocol, SeekSend
  PROVE  Protocol' /\ task'.pc = "sought" /\ task'.to = task.to /\ task'.s = task.s
<1> USE DEF positions, sizes
<1>1. /\ task.pc = "seek" /\ task \in Tasks /\ task.to \in 0..FileSize /\ ~task.request
      /\ rx = <<>> /\ latch = Nobody /\ latch' = Reader /\ bpos' = task.to /\ other = "idle"
      /\ UNCHANGED <<control, tx, eof, sizes, positions, other, budget>>
  BY DEF Protocol, Types, TypeOK, AnswersMatched, LatchWhileRequested, Calls, SeekSend
<1>2. /\ task' \in Tasks /\ task'.pc = "sought" /\ task'.to = task.to
      /\ task'.s = task.s /\ task'.n = task.n /\ ~task'.request
  BY <1>1 DEF SeekSend, Tasks, Places
<1>3. rx' = <<[to |-> Reader, val |-> task.to]>> /\ rx' \in Seq(Replies)
  <2>1. [to |-> Reader, val |-> task.to] \in Replies
    BY <1>1 DEF Replies
  <2> QED BY <1>1, <2>1 DEF SeekSend
<1>4. Types'
  BY <1>1, <1>2, <1>3 DEF Protocol, Types, TypeOK
<1>5. AnswersMatched' /\ LatchWhileRequested'
  BY <1>1, <1>2, <1>3 DEF AnswersMatched, LatchWhileRequested
<1>6. Calls'
  BY <1>1, <1>2 DEF Protocol, Calls, Blocking
<1>7. Stream'
  <2>1. rx' # <<>> /\ rx'[1].val = task.to
    BY <1>3
  <2> QED BY <1>1, <1>2, <2>1 DEF Protocol, Stream
<1> QED BY <1>2, <1>4, <1>5, <1>6, <1>7 DEF Protocol

LEMMA SeekNotSentKeeps ==
  ASSUME Protocol, SeekNotSent
  PROVE  Protocol' /\ task' = Idle /\ budget'.loss # MaxLoss
<1> USE DEF positions, sizes
<1>1. /\ task.pc = "seek" /\ latch = Nobody /\ task' = Idle
      /\ control' = "hang" /\ rx' = <<>>
      /\ UNCHANGED <<latch, tx, bpos, eof, sizes, positions, other>>
  BY DEF SeekNotSent, HangException
<1>2. budget' \in [call : Nat, loss : 0..MaxLoss] /\ budget'.loss # MaxLoss
  BY SpendKeeps DEF Protocol, Types, Stream, SeekNotSent
<1>3. Types'
  BY <1>1, <1>2, NoReply, IdleTask DEF Protocol, Types, TypeOK
<1>4. AnswersMatched' /\ LatchWhileRequested' /\ Calls'
  BY <1>1, IdleTask DEF Protocol, AnswersMatched, LatchWhileRequested, Calls, Blocking
<1> QED BY <1>1, <1>2, <1>3, <1>4 DEF Protocol, Stream

LEMMA SeekDoneKeeps ==
  ASSUME Protocol, SeekDone
  PROVE  /\ Protocol' /\ task' = Idle
         /\ budget'.loss = MaxLoss => budget.loss = MaxLoss /\ m_filePosition' = task.to
<1> USE DEF positions, sizes
<1>1. /\ task.pc = "sought" /\ rx # <<>> /\ rx' = <<>> /\ latch = Reader /\ latch' = Nobody
      /\ rx[1].val \in 0..FileSize /\ m_filePosition' = rx[1].val /\ m_fileRequest' = rx[1].val
      /\ task' = Idle /\ other = "idle" /\ ~task.request
      /\ UNCHANGED <<control, bpos, eof, sizes, other>>
  BY OneAnswer DEF SeekDone, Protocol, Types, TypeOK, LatchWhileRequested, Calls
<1>2. /\ tx \in Seq(0..FileSize) /\ Len(tx) \in Nat /\ m_filePosition \in Nat /\ m_fileRequest \in Nat
      /\ Unread \in Nat
  BY DEF Protocol, Types, TypeOK, Unread
<1>3. Smaller(Unread, Len(tx)) \in 0..Len(tx)
  BY <1>2, SmallerOf
<1>4. /\ tx' \in Seq(0..FileSize)
      /\ budget' \in [call : Nat, loss : 0..MaxLoss]
      /\ budget'.loss = MaxLoss =>
           UNCHANGED budget /\ tx' = Drop(tx, Smaller(Unread, Len(tx)))
  BY <1>2, <1>3, DropOf, SpendKeeps DEF SeekDone, Flush, Protocol, Types
<1>5. Types'
  BY <1>1, <1>4, NoReply, IdleTask DEF Protocol, Types, TypeOK
<1>6. AnswersMatched' /\ LatchWhileRequested' /\ Calls'
  BY <1>1, IdleTask DEF Protocol, AnswersMatched, LatchWhileRequested, Calls, Blocking
<1>7. ASSUME budget'.loss = MaxLoss
      PROVE  tx' = <<>> /\ budget.loss = MaxLoss /\ bpos = rx[1].val /\ rx[1].val = task.to
  <2>1. /\ budget.loss = MaxLoss /\ bpos = task.to /\ rx[1].val = task.to
        /\ m_fileRequest = m_filePosition + Len(tx)
    BY <1>1, <1>2, <1>4, <1>7 DEF Protocol, Stream
  <2>2. Unread = Len(tx)
    BY <1>2, <2>1 DEF Unread
  <2>3. Smaller(Unread, Len(tx)) = Len(tx)
    BY <1>2, <2>2, SmallerOf
  <2> QED BY <1>2, <1>3, <1>4, <1>7, <2>1, <2>3, DropOf
<1>8. Stream'
  <2> SUFFICES ASSUME budget'.loss = MaxLoss PROVE Stream'
    BY DEF Stream
  <2>1. tx' = <<>> /\ Len(tx') = 0 /\ budget.loss = MaxLoss /\ bpos = rx[1].val
    BY <1>7
  <2> QED BY <1>1, <1>2, <2>1, IdleTask DEF Protocol, Stream
<1> QED BY <1>1, <1>5, <1>6, <1>7, <1>8 DEF Protocol

LEMMA SeekFailedKeeps ==
  ASSUME Protocol, SeekFailed
  PROVE  Protocol' /\ task' = Idle /\ budget'.loss # MaxLoss
<1> USE DEF positions, sizes
<1>1. /\ task.pc = "sought" /\ latch = Reader /\ latch' = Nobody /\ task' = Idle
      /\ control' \in {control, "hang"} /\ rx' = <<>>
      /\ UNCHANGED <<tx, bpos, eof, sizes, positions, other>>
  BY OneAnswer DEF SeekFailed, HangException, FlushMessage, Protocol, LatchWhileRequested
<1>2. budget' \in [call : Nat, loss : 0..MaxLoss] /\ budget'.loss # MaxLoss
  BY SpendKeeps DEF Protocol, Types, SeekFailed
<1>3. Types'
  BY <1>1, <1>2, NoReply, IdleTask DEF Protocol, Types, TypeOK
<1>4. AnswersMatched' /\ LatchWhileRequested' /\ Calls'
  BY <1>1, IdleTask DEF Protocol, AnswersMatched, LatchWhileRequested, Calls, Blocking
<1> QED BY <1>1, <1>2, <1>3, <1>4 DEF Protocol, Stream

LEMMA OtherSendKeeps == ASSUME Protocol, OtherSend PROVE Protocol'
<1> USE DEF positions, sizes
<1>1. /\ other = "idle" /\ latch = Nobody /\ rx = <<>> /\ latch' = Other /\ other' = "sent"
      /\ control' = "open"
      /\ UNCHANGED <<tx, bpos, eof, sizes, positions, task, budget>>
  BY DEF OtherSend, Protocol, AnswersMatched
<1>2. rx' = <<[to |-> Other, val |-> 0]>> /\ rx' \in Seq(Replies)
  <2>1. [to |-> Other, val |-> 0] \in Replies
    BY DEF Replies
  <2> QED BY <1>1, <2>1 DEF OtherSend
<1>3. Types'
  BY <1>1, <1>2 DEF Protocol, Types, TypeOK
<1>4. AnswersMatched' /\ LatchWhileRequested'
  BY <1>1, <1>2 DEF Protocol, AnswersMatched, LatchWhileRequested
<1>5. Calls'
  BY <1>1 DEF Protocol, Calls, Blocking
<1>6. Stream'
  BY <1>1, <1>2 DEF Protocol, Stream, LatchWhileRequested
<1> QED BY <1>3, <1>4, <1>5, <1>6 DEF Protocol

LEMMA OtherRefusedKeeps == ASSUME Protocol, OtherRefused PROVE Protocol' /\ budget'.loss # MaxLoss
<1> USE DEF positions, sizes
<1>1. budget' \in [call : Nat, loss : 0..MaxLoss] /\ budget'.loss # MaxLoss
  BY SpendKeeps DEF Protocol, Types, OtherRefused
<1> QED BY <1>1 DEF OtherRefused, Protocol, Types, TypeOK, AnswersMatched,
            LatchWhileRequested, Calls, Blocking, Stream

LEMMA OtherDoneKeeps ==
  ASSUME Protocol, OtherDone
  PROVE  Protocol' /\ (budget'.loss = MaxLoss => UNCHANGED budget)
<1> USE DEF positions, sizes
<1>1. /\ other = "sent" /\ latch = Other /\ latch' = Nobody /\ other' = "idle" /\ rx' = <<>>
      /\ UNCHANGED <<tx, bpos, eof, sizes, positions, task>>
  BY OneAnswer DEF OtherDone, HangException, Protocol, Calls
<1>2. /\ budget' \in [call : Nat, loss : 0..MaxLoss] /\ control' \in {control, "hang"}
      /\ budget'.loss = MaxLoss => UNCHANGED <<budget, control>>
  BY SpendKeeps DEF Protocol, Types, OtherDone, HangException
<1>3. Types'
  BY <1>1, <1>2, NoReply DEF Protocol, Types, TypeOK
<1>4. AnswersMatched' /\ LatchWhileRequested'
  BY <1>1 DEF Protocol, AnswersMatched, LatchWhileRequested
<1>5. Calls'
  BY <1>1 DEF Protocol, Calls, Blocking
<1>6. Stream'
  BY <1>1, <1>2 DEF Protocol, Stream, LatchWhileRequested
<1> QED BY <1>2, <1>3, <1>4, <1>5, <1>6 DEF Protocol

LEMMA BackendClosesKeeps == ASSUME Protocol, BackendCloses PROVE Protocol' /\ budget'.loss # MaxLoss
<1> USE DEF positions, sizes
<1>1. budget' \in [call : Nat, loss : 0..MaxLoss] /\ budget'.loss # MaxLoss
  BY SpendKeeps DEF Protocol, Types, BackendCloses
<1> QED BY <1>1 DEF BackendCloses, Protocol, Types, TypeOK, AnswersMatched,
            LatchWhileRequested, Calls, Blocking, Stream

LEMMA GrowKeeps == ASSUME Protocol, Grow PROVE Protocol'
BY DEF Grow, positions, Protocol, Types, TypeOK, AnswersMatched,
       LatchWhileRequested, Calls, Blocking, Stream

LEMMA SetSizeKeeps == ASSUME Protocol, NEW size \in 0..FileSize, SetSize(size) PROVE Protocol'
BY DEF SetSize, positions, Protocol, Types, TypeOK, AnswersMatched,
       LatchWhileRequested, Calls, Blocking, Stream

\* A transfer is closed, or another one opened in its place.
LEMMA TransferDoneKeeps ==
  ASSUME Protocol, TransferDone, recorded' \in 0..FileSize, m_fileSize' \in 0..FileSize
  PROVE  /\ Protocol'
         /\ budget'.loss = MaxLoss => UNCHANGED budget
<1> USE DEF positions, sizes
<1>1. /\ task = Idle /\ rx = <<>> /\ latch = Nobody
      /\ tx' = <<>> /\ bpos' = 0 /\ eof' = FALSE
      /\ m_filePosition' = 0 /\ m_fileRequest' = 0
      /\ UNCHANGED <<rx, latch, task, other>>
  BY DEF Protocol, AnswersMatched, TransferDone, AtRest
<1>2. /\ control' \in {control, "hang"}
      /\ budget' \in [call : Nat, loss : 0..MaxLoss]
      /\ budget'.loss = MaxLoss => UNCHANGED <<control, budget>>
  BY SpendKeeps DEF Protocol, Types, TransferDone
<1>3. Types'
  <2>1. tx' \in Seq(0..FileSize)
    BY <1>1, EmptySeq
  <2>2. control' \in {"open", "hang", "closed"} /\ eof' \in BOOLEAN
    BY <1>1, <1>2 DEF Protocol, Types, TypeOK
  <2>3. TypeOK'
    BY <1>1, <2>1, <2>2 DEF Protocol, Types, TypeOK
  <2> QED BY <1>1, <1>2, <2>3, IdleTask DEF Types
<1>4. AnswersMatched' /\ LatchWhileRequested'
  BY <1>1 DEF Protocol, AnswersMatched, LatchWhileRequested
<1>5. Calls'
  BY <1>1, IdleTask DEF Protocol, Calls, Blocking
<1>6. Stream'
  BY <1>1, <1>2, IdleTask DEF Protocol, Stream
<1> QED BY <1>2, <1>3, <1>4, <1>5, <1>6 DEF Protocol

LEMMA InitHolds == ASSUME Init PROVE Protocol
<1>1. Types
  <2>1. budget \in [call : Nat, loss : 0..MaxLoss]
    BY DEF Init
  <2>2. rx \in Seq(Replies) /\ tx \in Seq(0..FileSize)
    BY EmptySeq DEF Init
  <2>3. TypeOK
    <3>1. /\ recorded \in 0..FileSize /\ m_fileSize \in 0..FileSize
          /\ bpos = 0 /\ m_filePosition = 0 /\ m_fileRequest = 0 /\ eof = FALSE
      BY Zenon DEF Init
    <3>2. latch = Nobody /\ control = "open" /\ other = "idle" /\ task \in Tasks
      BY IdleTask DEF Init
    <3>3. /\ bpos \in 0..FileSize /\ m_filePosition \in Nat /\ m_fileRequest \in Nat
      BY <3>1
    <3>4. eof \in BOOLEAN
      BY <3>1
    <3> QED BY <2>2, <3>1, <3>2, <3>3, <3>4, Zenon DEF TypeOK
  <2> QED BY <2>1, <2>3, IdleTask DEF Init, Types
<1>2. AnswersMatched /\ LatchWhileRequested /\ Calls
  BY IdleTask DEF Init, AnswersMatched, LatchWhileRequested, Calls, Blocking
<1>3. Stream
  BY IdleTask DEF Init, Stream
<1> QED BY <1>1, <1>2, <1>3 DEF Protocol

LEMMA ProtocolStutters == ASSUME Protocol, UNCHANGED vars PROVE Protocol'
BY DEF vars, positions, sizes, Protocol, Types, TypeOK, AnswersMatched, LatchWhileRequested,
       Calls, Blocking, Stream

\* The transfer protocol by itself, whatever its caller asks for: every answer
\* goes to the call that asked, and the latch is held exactly while one is due.
THEOREM ProtocolInvariant == Spec => [](TypeOK /\ AnswersMatched /\ LatchWhileRequested)
<1>1. Init => Protocol
  BY InitHolds
<1>2. Protocol /\ [Next]_vars => Protocol'
  <2> SUFFICES ASSUME Protocol, [Next]_vars PROVE Protocol'
    OBVIOUS
  <2>1. CASE RequestBegin
    BY <2>1, RequestKeeps DEF RequestBegin
  <2>2. CASE SeekBegin
    BY <2>2, SeeksKeeps DEF SeekBegin
  <2>3. CASE TakesLatch
    BY <2>3, RequestSendKeeps, SeekSendKeeps, SeekNotSentKeeps DEF TakesLatch
  <2>4. CASE ReaderStep
    BY <2>4, PollKeeps, PollNothingKeeps, PollFailedKeeps, FeedbackFailedKeeps, RecoverKeeps,
       SeekDoneKeeps, SeekFailedKeeps DEF ReaderStep
  <2>5. CASE OtherSend \/ OtherRefused \/ OtherDone
    BY <2>5, OtherSendKeeps, OtherRefusedKeeps, OtherDoneKeeps
  <2>6. CASE BackendCloses \/ Grow
    BY <2>6, BackendClosesKeeps, GrowKeeps
  <2>7. ASSUME NEW size \in 0..recorded, SetSize(size) PROVE Protocol'
    <3>1. size \in 0..FileSize
      BY DEF Protocol, Types, TypeOK
    <3> QED BY <2>7, <3>1, SetSizeKeeps
  <2>8. CASE UNCHANGED vars
    BY <2>8, ProtocolStutters
  <2> QED BY <2>1, <2>2, <2>3, <2>4, <2>5, <2>6, <2>7, <2>8 DEF Next
<1>3. Protocol => TypeOK /\ AnswersMatched /\ LatchWhileRequested
  BY DEF Protocol, Types
<1> QED BY <1>1, <1>2, <1>3, PTL DEF Spec

----------------------------------------------------------------------------
(***************************************************************************)
(* The ring                                                                *)
(***************************************************************************)
LEMMA TwoChunks ==
  ASSUME NEW ring \in Rings
  PROVE  Len(ring.chunk) = 2
<1>1. ring.chunk \in [1..2 -> Seq(Bytes)]
  BY DEF Rings
<1> DEFINE f == ring.chunk
<1> HIDE DEF f
<1>2. f \in [1..2 -> Seq(Bytes)]
  BY <1>1 DEF f
<1>3. f \in Seq(Seq(Bytes))
  <2>1. [1..2 -> Seq(Bytes)] \in {[1..n -> Seq(Bytes)] : n \in Nat}
    OBVIOUS
  <2>2. f \in UNION {[1..n -> Seq(Bytes)] : n \in Nat}
    BY <1>2, <2>1
  <2> QED BY <2>2, SeqDef, Zenon
<1>4. DOMAIN f = 1..Len(f) /\ Len(f) \in Nat
  BY <1>3, LenProperties
<1>5. 2 \in 1..Len(f) /\ Len(f) + 1 \notin 1..Len(f)
  BY <1>2, <1>4
<1>6. 3 \notin 1..Len(f)
  BY <1>2, <1>4
<1>7. Len(f) = 2
  BY <1>4, <1>5, <1>6
<1> QED BY <1>7 DEF f

LEMMA FollowingOf ==
  ASSUME NEW ring \in Rings, NEW i \in 1..2
  PROVE  Following(ring, i) \in 1..2
<1>1. Following(ring, i) = (i % 2) + 1
  BY TwoChunks DEF Following
<1>2. CASE i = 1
  BY <1>1, <1>2
<1>3. CASE i = 2
  BY <1>1, <1>3
<1> QED BY <1>2, <1>3

LEMMA MinSingle == ASSUME NEW k \in Int PROVE Min({k}) = k
BY DEF Min

\* read finds the only packet, wherever the read pointer is.
LEMMA AvailableOf ==
  ASSUME NEW ring \in Rings, NEW i \in 1..2, ring.chunk[i] # NoPacket,
         \A j \in 1..2 \ {i} : ring.chunk[j] = NoPacket
  PROVE  Available(ring) = i
<1> DEFINE At(d) == ((ring.read - 1 + d) % 2) + 1
           S == {d \in 0..1 : ring.chunk[At(d)] # NoPacket}
<1>1. ring.read \in {1, 2} /\ i \in {1, 2}
  BY DEF Rings
<1>2. Available(ring) = At(Min(S))
  <2>1. Len(ring.chunk) = 2 /\ 2 - 1 = 1
    BY TwoChunks
  <2> QED BY <2>1, Zenon DEF Available
<1>3. At(0) = ring.read /\ At(1) = IF ring.read = 1 THEN 2 ELSE 1
  <2>1. CASE ring.read = 1
    BY <2>1
  <2>2. CASE ring.read = 2
    BY <2>2
  <2> QED BY <1>1, <2>1, <2>2
<1>4. PICK k \in {0, 1} : S = {k} /\ At(k) = i
  <2> HIDE DEF At
  <2>1. CASE ring.read = i
    <3>1. S = {0}
      BY <1>1, <1>3, <2>1
    <3> QED BY <1>3, <2>1, <3>1
  <2>2. CASE ring.read # i
    <3>1. At(1) = i
      BY <1>1, <1>3, <2>2
    <3>2. S = {1}
      BY <1>1, <1>3, <2>2, <3>1
    <3> QED BY <3>1, <3>2
  <2> QED BY <2>1, <2>2
<1> QED BY <1>2, <1>4, MinSingle

\* The bytes a buffer holds are those Read stages.
LEMMA StagedOf ==
  ASSUME NEW b, NEW p, Holds(b, p)
  PROVE  /\ Staged(b).packet = p /\ bytesUnread(b) = Len(p)
         /\ Holds(Staged(b), p) /\ EmptyRing(Staged(b).rbuf)
<1> USE DEF NoPacket
<1>1. /\ b.rbuf \in Rings /\ b.packet \in Seq(Bytes) /\ p \in Seq(Bytes)
      /\ b \in [rbuf : Rings, packet : Seq(Bytes)] /\ Len(p) \in Nat
  BY DEF Holds
<1>2. CASE EmptyRing(b.rbuf) /\ b.packet = p
  <2>1. bytesUnread(b) = Len(p)
    BY <1>1, <1>2 DEF bytesUnread, EmptyRing
  <2>2. Staged(b).rbuf = b.rbuf /\ Staged(b).packet = p /\ Staged(b) \in [rbuf : Rings, packet : Seq(Bytes)]
    BY <1>1, <1>2 DEF Staged, read, Packet, EmptyRing
  <2> QED BY <1>1, <1>2, <2>1, <2>2 DEF Holds
<1>3. CASE OneIn(b.rbuf, p) /\ b.packet = NoPacket /\ p # <<>>
  <2> DEFINE ring == b.rbuf
  <2>1. PICK i \in 1..2 : ring.chunk[i] = p /\ \A j \in 1..2 \ {i} : ring.chunk[j] = NoPacket
    BY <1>3 DEF OneIn
  <2>2. Available(ring) = i
    BY <1>1, <1>3, <2>1, AvailableOf
  <2>3. ring.unread = Len(p) /\ Len(p) # 0
    BY <1>1, <1>3, EmptySeq DEF OneIn
  <2>4. Staged(b) = [rbuf |-> read(ring), packet |-> p]
    BY <1>3, <2>1, <2>2, <2>3 DEF Staged, Packet
  <2>5. read(ring) = [ring EXCEPT !.chunk = [ring.chunk EXCEPT ![i] = <<>>],
                                  !.read = Following(ring, i), !.unread = ring.unread - Len(ring.chunk[i])]
    BY <2>2, <2>3 DEF read
  <2>6. Following(ring, i) \in 1..2
    BY <1>1, FollowingOf
  <2>7. read(ring) \in Rings /\ EmptyRing(read(ring))
    <3>1. ring.unread - Len(ring.chunk[i]) = 0
      BY <1>1, <2>1, <2>3
    <3>2. /\ [ring.chunk EXCEPT ![i] = <<>>] \in [1..2 -> Seq(Bytes)]
          /\ \A j \in 1..2 : [ring.chunk EXCEPT ![i] = <<>>][j] = <<>>
      BY <1>1, <2>1, EmptySeq DEF Rings
    <3>3. read(ring) = [ring EXCEPT !.chunk = [ring.chunk EXCEPT ![i] = <<>>],
                                    !.read = Following(ring, i), !.unread = 0]
      BY <2>5, <3>1
    <3> DEFINE chunk == [ring.chunk EXCEPT ![i] = <<>>]
    <3> HIDE DEF chunk, ring
    <3>4. read(ring) = [ring EXCEPT !.chunk = chunk, !.read = Following(ring, i), !.unread = 0]
      BY <3>3 DEF chunk
    <3>5. chunk \in [1..2 -> Seq(Bytes)] /\ (\A j \in 1..2 : chunk[j] = <<>>) /\ ring \in Rings
      BY <1>1, <3>2 DEF chunk, ring
    <3>6. read(ring) \in Rings
      <4>1. PICK zero \in Nat, next \in 1..2 : zero = 0 /\ next = Following(ring, i)
        BY <2>6
      <4>2. read(ring) = [ring EXCEPT !.chunk = chunk, !.read = next, !.unread = zero]
        BY <3>4, <4>1
      <4> QED BY <3>5, <4>2 DEF Rings
    <3>7. read(ring).chunk = chunk /\ read(ring).unread = 0
      BY <3>4, <3>5 DEF Rings
    <3> QED BY <3>5, <3>6, <3>7 DEF EmptyRing
  <2>8. bytesUnread(b) = Len(p)
    BY <1>1, <1>3, <2>3 DEF bytesUnread
  <2> QED BY <1>1, <2>4, <2>7, <2>8 DEF Holds
<1> QED BY <1>2, <1>3 DEF Holds

LEMMA WriteHolds ==
  ASSUME NEW b, NEW p \in Seq(Bytes), Holds(b, <<>>), p # <<>>
  PROVE  Holds([b EXCEPT !.rbuf = writePacket(@, p)], p)
<1> USE DEF NoPacket
<1> DEFINE ring == b.rbuf
           c == [b EXCEPT !.rbuf = writePacket(@, p)]
<1>1. /\ ring \in Rings /\ b \in [rbuf : Rings, packet : Seq(Bytes)] /\ b.packet = <<>>
      /\ EmptyRing(ring) /\ Len(p) \in Nat
  BY DEF Holds
<1>2. ring.write \in 1..2 /\ ring.chunk[ring.write] = <<>> /\ ring.unread = 0
  BY <1>1 DEF EmptyRing, Rings
<1>3. writePacket(ring, p) = [ring EXCEPT !.chunk = [ring.chunk EXCEPT ![ring.write] = p],
                                !.unread = Len(p), !.write = Following(ring, ring.write)]
  BY <1>1, <1>2 DEF writePacket
<1>4. Following(ring, ring.write) \in 1..2
  BY <1>1, <1>2, FollowingOf
<1>5. writePacket(ring, p) \in Rings /\ OneIn(writePacket(ring, p), p)
  <2> DEFINE chunk == [ring.chunk EXCEPT ![ring.write] = p]
  <2>1. /\ chunk \in [1..2 -> Seq(Bytes)] /\ chunk[ring.write] = p
        /\ \A j \in 1..2 \ {ring.write} : chunk[j] = <<>>
    BY <1>1, <1>2 DEF Rings, EmptyRing
  <2> HIDE DEF chunk
  <2>2. writePacket(ring, p) = [ring EXCEPT !.chunk = chunk, !.unread = Len(p),
                                            !.write = Following(ring, ring.write)]
    BY <1>3 DEF chunk
  <2> HIDE DEF ring
  <2>3. writePacket(ring, p) \in Rings
    BY <1>1, <1>4, <2>1, <2>2 DEF Rings
  <2>4. writePacket(ring, p).chunk = chunk /\ writePacket(ring, p).unread = Len(p)
    BY <1>1, <2>2 DEF Rings
  <2> QED BY <1>2, <2>1, <2>3, <2>4 DEF OneIn
<1>7. c \in [rbuf : Rings, packet : Seq(Bytes)] /\ c.rbuf = writePacket(ring, p) /\ c.packet = <<>>
  BY <1>1, <1>5
<1> QED BY <1>5, <1>7 DEF Holds

LEMMA ClearedHolds == ASSUME NEW b, NEW p, Holds(b, p) PROVE Holds(Cleared(b), <<>>)
<1> USE DEF NoPacket
<1>1. b.rbuf \in Rings
  BY DEF Holds
<1>2. clear(b.rbuf) \in Rings /\ EmptyRing(clear(b.rbuf))
  BY <1>1, EmptySeq DEF clear, Rings, EmptyRing
<1> QED BY <1>2, EmptySeq DEF Cleared, Holds

----------------------------------------------------------------------------
(***************************************************************************)
(* The layer: one lemma for each action of RecordingPlayback               *)
(***************************************************************************)
LEMMA HeldIs ==
  ASSUME NEW p, Holds(m_buffer, p)'
  PROVE  (held = p)' /\ Holds(m_buffer, held)'
BY StagedOf DEF held

LEMMA HeldNow ==
  ASSUME IInv
  PROVE  /\ held \in Seq(Bytes) /\ Len(held) \in Nat /\ bytesUnread(m_buffer) = Len(held)
         /\ held = <<>> <=> Len(held) = 0
         /\ got = <<>> <=> Len(got) = 0
<1>1. Holds(m_buffer, held) /\ held \in Seq(Bytes) /\ got \in Seq(Bytes)
  BY DEF IInv, Buffer, Holds, LayerTypes
<1>2. bytesUnread(m_buffer) = Len(held)
  BY <1>1, StagedOf
<1> QED BY <1>1, <1>2, EmptySeq

\* A step of the protocol within a call, or the end of the call.
LEMMA LayerStays ==
  ASSUME IInv, UNCHANGED layer, task'.s = task.s, task.pc # "idle" \/ task'.pc = "idle"
  PROVE  LayerTypes' /\ Buffer' /\ held' = held
<1>1. held' = held
  BY DEF layer, held
<1> QED BY <1>1 DEF layer, IInv, LayerTypes, Buffer

LEMMA ReadBlockStep == ASSUME IInv, ReadBlock PROVE IInv'
<1> USE DEF positions, sizes
<1>1. PICK n \in 1..MaxBlock : Request(n)
  <2>1. m_fileSize - m_filePosition \in Int
    BY DEF IInv, Protocol, Types, TypeOK
  <2> QED BY <2>1, SmallerOf DEF ReadBlock
<1>2. task = Idle /\ Spend("call") /\ m_transfer # 0 /\ UNCHANGED layer /\ held = <<>>
  BY HeldNow DEF ReadBlock
<1>3. /\ Protocol' /\ task'.pc \in {"request", "poll"} /\ task'.s = 0
      /\ budget'.loss = budget.loss /\ m_filePosition' = m_filePosition
  BY <1>1, <1>2, RequestKeeps DEF IInv, Request
<1>4. held' = held /\ Len(got) = 0
  BY <1>2, IdleTask DEF layer, held, IInv, Buffer
<1>5. LayerTypes' /\ Buffer'
  BY <1>2, <1>3, <1>4 DEF layer, IInv, LayerTypes, Buffer
<1>6. Place'
  <2>1. m_filePosition \in Nat /\ told \in Int /\ Len(held) = 0
    BY <1>2, HeldNow DEF IInv, Protocol, Types, TypeOK, LayerTypes
  <2> QED BY <1>2, <1>3, <1>4, <2>1, IdleTask DEF layer, IInv, Place, Blocking
<1> QED BY <1>3, <1>5, <1>6 DEF IInv

LEMMA WithinStep ==
  ASSUME IInv, Below(PollFailed \/ FeedbackFailed \/ SeekDone \/ SeekFailed)
  PROVE  IInv'
<1> USE DEF positions, sizes
<1>1. UNCHANGED layer /\ (PollFailed \/ FeedbackFailed \/ SeekDone \/ SeekFailed)
  BY DEF Below
<1>2. CASE PollFailed
  <2>1. /\ Protocol' /\ task.pc = "poll" /\ task'.pc = "recover" /\ task'.s = task.s
        /\ budget'.loss = MaxLoss => UNCHANGED budget
    BY <1>2, PollFailedKeeps DEF IInv, PollFailed
  <2>2. LayerTypes' /\ Buffer' /\ held' = held
    BY <1>1, <2>1, LayerStays
  <2>3. m_filePosition' = m_filePosition
    BY <1>2 DEF PollFailed
  <2>4. Place'
    BY <1>1, <2>1, <2>2, <2>3 DEF IInv, Place, Blocking, layer
  <2> QED BY <2>1, <2>2, <2>4 DEF IInv
<1>3. CASE FeedbackFailed
  <2>1. /\ Protocol' /\ task.pc = "poll" /\ task'.pc = "recover" /\ task'.s = task.s
        /\ budget'.loss # MaxLoss
    BY <1>3, FeedbackFailedKeeps DEF IInv, FeedbackFailed
  <2>2. LayerTypes' /\ Buffer'
    BY <1>1, <2>1, LayerStays
  <2> QED BY <2>1, <2>2 DEF IInv, Place
<1>4. CASE SeekDone
  <2>1. /\ Protocol' /\ task.pc = "sought" /\ task' = Idle /\ task.s = 0
        /\ budget'.loss = MaxLoss => budget.loss = MaxLoss /\ m_filePosition' = task.to
    BY <1>4, SeekDoneKeeps DEF IInv, SeekDone, Protocol, Calls
  <2>2. LayerTypes' /\ Buffer' /\ held' = held
    BY <1>1, <2>1, LayerStays, IdleTask
  <2>3. held = <<>> /\ Len(held) = 0 /\ m_transfer # 0 /\ told \in Int
    BY <2>1, HeldNow DEF IInv, Buffer, LayerTypes
  <2>4. Place'
    BY <1>1, <2>1, <2>2, <2>3, IdleTask DEF IInv, Place, Blocking, layer
  <2> QED BY <2>1, <2>2, <2>4 DEF IInv
<1>5. CASE SeekFailed
  <2>1. /\ Protocol' /\ task.pc = "sought" /\ task' = Idle /\ task.s = 0
        /\ budget'.loss # MaxLoss
    BY <1>5, SeekFailedKeeps DEF IInv, SeekFailed, Protocol, Calls
  <2>2. LayerTypes' /\ Buffer'
    BY <1>1, <2>1, LayerStays, IdleTask
  <2> QED BY <2>1, <2>2 DEF IInv, Place
<1> QED BY <1>1, <1>2, <1>3, <1>4, <1>5

LEMMA TakesLatchStep == ASSUME IInv, Below(TakesLatch) PROVE IInv'
<1> USE DEF positions, sizes
<1>1. UNCHANGED layer /\ (RequestSend \/ SeekSend \/ SeekNotSent)
  BY DEF Below, TakesLatch
<1>2. CASE RequestSend
  <2>1. /\ Protocol' /\ task.pc = "request" /\ task'.pc \in {"poll", "recover"} /\ task'.s = task.s
        /\ budget'.loss = MaxLoss => UNCHANGED budget
    BY <1>2, RequestSendKeeps DEF IInv, RequestSend
  <2>2. LayerTypes' /\ Buffer' /\ held' = held
    BY <1>1, <2>1, LayerStays
  <2>3. m_filePosition' = m_filePosition
    BY <1>2 DEF RequestSend
  <2>4. Place'
    BY <1>1, <2>1, <2>2, <2>3 DEF IInv, Place, Blocking, layer
  <2> QED BY <2>1, <2>2, <2>4 DEF IInv
<1>3. CASE SeekSend
  <2>1. /\ Protocol' /\ task.pc = "seek" /\ task'.pc = "sought" /\ task'.s = task.s
        /\ task'.to = task.to
    BY <1>3, SeekSendKeeps DEF IInv, SeekSend
  <2>2. LayerTypes' /\ Buffer' /\ held' = held
    BY <1>1, <2>1, LayerStays
  <2>3. UNCHANGED <<m_filePosition, budget>>
    BY <1>3 DEF SeekSend
  <2>4. Place'
    BY <1>1, <2>1, <2>2, <2>3 DEF IInv, Place, Blocking, layer
  <2> QED BY <2>1, <2>2, <2>4 DEF IInv
<1>4. CASE SeekNotSent
  <2>1. /\ Protocol' /\ task.pc = "seek" /\ task' = Idle /\ task.s = 0
        /\ budget'.loss # MaxLoss
    BY <1>4, SeekNotSentKeeps DEF IInv, SeekNotSent, Protocol, Calls
  <2>2. LayerTypes' /\ Buffer'
    BY <1>1, <2>1, LayerStays, IdleTask
  <2> QED BY <2>1, <2>2 DEF IInv, Place
<1> QED BY <1>1, <1>2, <1>3, <1>4

LEMMA OthersStep ==
  ASSUME IInv, Below(OtherSend \/ OtherRefused \/ OtherDone \/ BackendCloses)
  PROVE  IInv'
<1> USE DEF positions, sizes
<1>1. UNCHANGED layer /\ (OtherSend \/ OtherRefused \/ OtherDone \/ BackendCloses)
  BY DEF Below
<1>2. Protocol' /\ (budget'.loss = MaxLoss => UNCHANGED budget)
  <2>1. CASE OtherSend
    BY <2>1, OtherSendKeeps DEF IInv, OtherSend
  <2> QED BY <1>1, <2>1, OtherRefusedKeeps, OtherDoneKeeps, BackendClosesKeeps DEF IInv
<1>3. UNCHANGED <<task, m_filePosition>>
  BY <1>1 DEF OtherSend, OtherRefused, OtherDone, BackendCloses
<1>4. LayerTypes' /\ Buffer' /\ held' = held
  BY <1>1, <1>3, LayerStays
<1>5. Place'
  BY <1>1, <1>2, <1>3, <1>4 DEF IInv, Place, Blocking, layer
<1> QED BY <1>2, <1>4, <1>5 DEF IInv

\* Poll or PollNothing, as the layer sees it.
LEMMA Turn ==
  ASSUME Protocol, Poll \/ PollNothing
  PROVE  /\ Protocol' /\ task.pc = "poll" /\ UNCHANGED budget
         /\ \E rr \in 0..Len(tx) :
              /\ Len(tx') = Len(tx) - rr
              /\ m_filePosition' = m_filePosition + rr
              /\ task' = Idle \/ (task'.pc = "poll" /\ task'.s = task.s + rr)
<1>1. CASE Poll
  BY <1>1, PollKeeps, PollTurn DEF Poll
<1>2. CASE PollNothing
  <2>1. /\ UNCHANGED <<tx, m_filePosition, budget>>
        /\ task' = Idle \/ (task'.pc = "poll" /\ task'.s = task.s)
    BY <1>2, PollNothingTurn DEF positions
  <2>2. /\ Len(tx) \in Nat /\ task.s \in Nat /\ m_filePosition \in Nat
    BY DEF Protocol, Types, TypeOK, Tasks
  <2>3. 0 \in 0..Len(tx) /\ Len(tx') = Len(tx) - 0 /\ m_filePosition' = m_filePosition + 0
        /\ (task' = Idle \/ (task'.pc = "poll" /\ task'.s = task.s + 0))
    BY <2>1, <2>2
  <2> QED BY <1>2, <2>1, <2>3, PollNothingKeeps DEF PollNothing
<1> QED BY <1>1, <1>2

LEMMA ReceiveStep == ASSUME IInv, Receive PROVE IInv'
<1> DEFINE received == SubSeq(tx, 1, Len(tx) - Len(tx'))
           packet == got \o [i \in DOMAIN received |-> <<m_transfer, received[i]>>]
<1>1. /\ Protocol' /\ task.pc = "poll" /\ UNCHANGED budget
      /\ UNCHANGED <<m_transfer, m_readAhead, events, ev, told, opens>>
  BY Turn DEF Receive, IInv
<1>2. PICK rr \in 0..Len(tx) :
        /\ Len(tx') = Len(tx) - rr
        /\ m_filePosition' = m_filePosition + rr
        /\ task' = Idle \/ (task'.pc = "poll" /\ task'.s = task.s + rr)
  BY Turn DEF Receive, IInv
<1>3. /\ tx \in Seq(0..FileSize) /\ Len(tx) \in Nat /\ m_filePosition \in Nat
      /\ got \in Seq(Bytes) /\ Len(got) \in Nat /\ m_transfer \in Nat /\ m_transfer # 0
      /\ Len(got) = task.s /\ told \in Int
      /\ held = <<>> /\ Holds(m_buffer, <<>>)
  <2>1. tx \in Seq(0..FileSize) /\ m_filePosition \in Nat
    BY DEF IInv, Protocol, Types, TypeOK
  <2>2. got \in Seq(Bytes) /\ m_transfer \in Recordings \cup {0} /\ told \in Int
    BY DEF IInv, LayerTypes
  <2>3. Len(got) = task.s /\ held = <<>> /\ m_transfer # 0 /\ Holds(m_buffer, <<>>)
    BY <1>1 DEF IInv, Buffer
  <2> QED BY <2>1, <2>2, <2>3, LenProperties
<1>4. Len(tx) - Len(tx') = rr
  BY <1>2, <1>3
<1>5. /\ DOMAIN received = 1..rr /\ \A i \in 1..rr : received[i] = tx[i] /\ received[i] \in Int
  <2>1. \A i \in 1..rr : tx[i] \in 0..FileSize
    BY <1>3
  <2> QED BY <1>3, <1>4, <2>1
<1> HIDE DEF received
<1>6. /\ packet \in Seq(Bytes) /\ Len(packet) = Len(got) + rr
      /\ \A i \in 1..Len(got) : packet[i] = got[i]
      /\ \A i \in 1..rr : packet[Len(got) + i] = <<m_transfer, tx[i]>>
  <2> DEFINE bytes == [i \in 1..rr |-> <<m_transfer, received[i]>>]
  <2>1. bytes \in Seq(Bytes) /\ Len(bytes) = rr /\ \A i \in 1..rr : bytes[i] = <<m_transfer, tx[i]>>
    <3>1. \A i \in 1..rr : <<m_transfer, received[i]>> \in Bytes
      BY <1>3, <1>5 DEF Bytes
    <3> QED BY <1>5, <3>1
  <2>2. packet = got \o bytes
    BY <1>5
  <2> HIDE DEF bytes, packet
  <2>3. /\ packet \in Seq(Bytes) /\ Len(packet) = Len(got) + rr
        /\ \A i \in 1..Len(got) + rr : packet[i] = IF i <= Len(got) THEN got[i] ELSE bytes[i - Len(got)]
    BY <1>3, <2>1, <2>2, ConcatProperties
  <2>4. ASSUME NEW i \in 1..rr
        PROVE  packet[Len(got) + i] = <<m_transfer, tx[i]>>
    <3>1. /\ Len(got) + i \in 1..Len(got) + rr /\ ~(Len(got) + i <= Len(got))
          /\ Len(got) + i - Len(got) = i
      BY <1>3
    <3> QED BY <2>1, <2>3, <3>1
  <2>5. ASSUME NEW i \in 1..Len(got)
        PROVE  packet[i] = got[i]
    <3>1. i \in 1..Len(got) + rr /\ i <= Len(got)
      BY <1>3
    <3> QED BY <2>3, <3>1
  <2> QED BY <2>3, <2>4, <2>5
<1>7. /\ task' # Idle => got' = packet /\ UNCHANGED m_buffer
      /\ task' = Idle => /\ got' = <<>>
                         /\ m_buffer' = IF packet = <<>> THEN m_buffer
                                        ELSE [m_buffer EXCEPT !.rbuf = writePacket(@, packet)]
  BY DEF Receive, received
<1> HIDE DEF packet
<1>8. ASSUME budget.loss = MaxLoss, told # Unknown
      PROVE  /\ told = m_filePosition' - Len(packet)
             /\ \A i \in 1..Len(packet) : packet[i] = <<m_transfer, told + i - 1>>
  <2>1. /\ told = m_filePosition - Len(got)
        /\ \A i \in 1..Len(got) : got[i] = <<m_transfer, told + i - 1>>
    BY <1>1, <1>8 DEF IInv, Place, Blocking
  <2>2. \A i \in 1..Len(tx) : tx[i] = m_filePosition + i - 1
    BY <1>1, <1>8 DEF IInv, Protocol, Stream
  <2>3. ASSUME NEW i \in 1..Len(packet)
        PROVE  packet[i] = <<m_transfer, told + i - 1>>
    <3>1. CASE i <= Len(got)
      <4>1. i \in 1..Len(got)
        BY <1>3, <3>1
      <4> QED BY <1>6, <2>1, <4>1
    <3>2. CASE i > Len(got)
      <4>1. i - Len(got) \in 1..rr /\ Len(got) + (i - Len(got)) = i
        BY <1>3, <1>6, <3>2
      <4>2. packet[i] = <<m_transfer, tx[i - Len(got)]>>
        BY <1>6, <4>1
      <4>3. i - Len(got) \in 1..Len(tx)
        BY <1>3, <4>1
      <4>4. tx[i - Len(got)] = m_filePosition + (i - Len(got)) - 1
        BY <2>2, <4>3
      <4>5. m_filePosition + (i - Len(got)) - 1 = told + i - 1
        BY <1>3, <2>1
      <4> QED BY <4>2, <4>4, <4>5
    <3> QED BY <1>3, <3>1, <3>2
  <2>4. told = m_filePosition' - Len(packet)
    <3>1. Len(packet) = Len(got) + rr /\ m_filePosition' = m_filePosition + rr
      BY <1>2, <1>6
    <3> QED BY <1>3, <2>1, <3>1
  <2> QED BY <2>3, <2>4
<1>9. CASE task' = Idle
  <2>1. held' = packet /\ Holds(m_buffer', held')
    <3>1. CASE packet = <<>>
      BY <1>3, <1>7, <1>9, <3>1, HeldIs
    <3>2. CASE packet # <<>>
      BY <1>3, <1>6, <1>7, <1>9, <3>2, WriteHolds, HeldIs
    <3> QED BY <3>1, <3>2
  <2>2. got' = <<>> /\ Len(got') = 0 /\ got' \in Seq(Bytes)
    BY <1>7, <1>9, EmptySeq
  <2>3. LayerTypes' /\ Buffer'
    BY <1>1, <1>9, <2>1, <2>2, IdleTask DEF IInv, LayerTypes, Buffer
  <2>4. Place'
    BY <1>1, <1>3, <1>8, <1>9, <2>1, IdleTask DEF Place, Blocking
  <2> QED BY <1>1, <2>3, <2>4 DEF IInv
<1>10. CASE task' # Idle
  <2>1. held' = <<>> /\ Holds(m_buffer', held') /\ got' = packet /\ task'.pc = "poll"
        /\ task'.s = task.s + rr
    BY <1>2, <1>3, <1>7, <1>10, HeldIs
  <2>2. LayerTypes' /\ Buffer'
    BY <1>1, <1>3, <1>6, <2>1 DEF IInv, LayerTypes, Buffer
  <2>3. Place'
    BY <1>1, <1>3, <1>8, <2>1 DEF Place, Blocking
  <2> QED BY <1>1, <2>2, <2>3 DEF IInv
<1> QED BY <1>9, <1>10

LEMMA FailedStep == ASSUME IInv, Failed PROVE IInv'
<1>1. /\ Protocol' /\ task.pc = "recover" /\ task' = Idle /\ m_filePosition' = m_filePosition
      /\ budget'.loss = MaxLoss => UNCHANGED budget
      /\ got' = <<>> /\ UNCHANGED <<m_transfer, m_readAhead, m_buffer, events, ev, told, opens>>
  BY RecoverKeeps DEF Failed, IInv, Recover, positions
<1>2. held' = held /\ held = <<>> /\ Len(held) = 0 /\ m_transfer # 0
  BY <1>1, HeldNow DEF held, IInv, Buffer
<1>3. LayerTypes' /\ Buffer'
  BY <1>1, <1>2, EmptySeq, IdleTask DEF IInv, LayerTypes, Buffer
<1>4. Place'
  <2>1. budget.loss = MaxLoss => Len(got) = 0
    BY <1>1 DEF IInv, Buffer, Protocol, Stream
  <2>2. m_filePosition \in Nat /\ told \in Int
    BY DEF IInv, Protocol, Types, TypeOK, LayerTypes
  <2> QED BY <1>1, <1>2, <2>1, <2>2, IdleTask DEF IInv, Place, Blocking
<1> QED BY <1>1, <1>3, <1>4 DEF IInv

LEMMA ReadPacketStep == ASSUME IInv, ReadPacket PROVE IInv'
<1> DEFINE b == Staged(m_buffer)
<1>1. /\ held \in Seq(Bytes) /\ Len(held) \in Nat /\ Holds(b, held) /\ EmptyRing(b.rbuf)
      /\ b.packet = held /\ b \in [rbuf : Rings, packet : Seq(Bytes)]
  BY HeldNow, StagedOf DEF IInv, Buffer, held, Holds
<1>2. PICK r \in 1..Len(held) :
        /\ m_buffer' = [b EXCEPT !.packet = Drop(held, r)]
        /\ told' = IF told = Unknown THEN told ELSE told + r
  BY DEF ReadPacket, held, Drop
<1>3. /\ task = Idle
      /\ UNCHANGED <<vars, m_transfer, m_readAhead, got, events, ev, opens>>
  BY DEF ReadPacket
<1> HIDE DEF b
<1>4. /\ Drop(held, r) \in Seq(Bytes) /\ Len(Drop(held, r)) = Len(held) - r
      /\ \A i \in 1..Len(held) - r : Drop(held, r)[i] = held[i + r]
  BY <1>1, <1>2, DropOf
<1>5. Holds(m_buffer', Drop(held, r))
  BY <1>1, <1>2, <1>4 DEF Holds
<1>6. held' = Drop(held, r) /\ Holds(m_buffer', held')
  BY <1>5, HeldIs
<1>7. Protocol'
  BY <1>3, ProtocolStutters DEF IInv
<1>8. LayerTypes' /\ Buffer'
  BY <1>2, <1>3, <1>6, IdleTask DEF vars, IInv, LayerTypes, Buffer
<1>9. Place'
  <2> SUFFICES ASSUME budget'.loss = MaxLoss, told' # Unknown PROVE Place'
    BY DEF Place
  <2>1. /\ budget.loss = MaxLoss /\ told # Unknown /\ told' = told + r /\ task' = Idle
        /\ m_filePosition' = m_filePosition /\ m_transfer' = m_transfer
    BY <1>2, <1>3 DEF vars, positions
  <2>2. held # <<>>
    BY <1>1, <1>2, HeldNow
  <2>3. /\ m_transfer # 0 /\ told = m_filePosition - Len(held)
        /\ \A i \in 1..Len(held) : held[i] = <<m_transfer, told + i - 1>>
    BY <1>3, <2>1, <2>2, IdleTask DEF IInv, Place
  <2>4. ASSUME NEW i \in 1..Len(held')
        PROVE  held'[i] = <<m_transfer, told' + i - 1>>
    <3>1. i + r \in 1..Len(held) /\ held'[i] = held[i + r]
      BY <1>1, <1>4, <1>6
    <3>2. told + (i + r) - 1 = told' + i - 1
      BY <2>1 DEF IInv, LayerTypes
    <3> QED BY <2>3, <3>1, <3>2
  <2>5. told' = m_filePosition' - Len(held')
    <3>1. m_filePosition \in Nat
      BY DEF IInv, Protocol, Types, TypeOK
    <3>2. Len(held') = Len(held) - r
      BY <1>4, <1>6
    <3> QED BY <1>1, <2>1, <2>3, <3>1, <3>2
  <2> QED BY <2>1, <2>3, <2>4, <2>5, IdleTask DEF Place, Blocking
<1> QED BY <1>7, <1>8, <1>9 DEF IInv

LEMMA CallSpent ==
  ASSUME Protocol, Spend("call"),
         UNCHANGED <<latch, control, rx, tx, bpos, eof, positions, sizes, task, other>>
  PROVE  Protocol' /\ budget'.loss = budget.loss
<1>1. budget' \in [call : Nat, loss : 0..MaxLoss] /\ budget'.loss = budget.loss
  BY SpendKeeps DEF Protocol, Types
<1> QED BY <1>1 DEF positions, sizes, Protocol, Types, TypeOK, AnswersMatched,
            LatchWhileRequested, Calls, Blocking, Stream

LEMMA SeekStep == ASSUME IInv, Seek PROVE IInv'
<1>1. PICK offset \in Offsets, whence \in {"set", "end", "cur"} :
       LET to == Target(Rebased(offset, whence), whence)
           there == to = m_filePosition /\ whence # "end"
           valid == m_transfer # 0 /\ (there \/ to \in SeekTargets)
       IN /\ offset # 0 \/ whence # "cur"
          /\ told' = IF ~valid THEN IF m_transfer = 0 THEN 0 ELSE m_filePosition
                     ELSE IF told = Unknown /\ whence = "cur" THEN to
                     ELSE Wanted(offset, whence)
          /\ IF valid /\ ~there THEN Seeks(to)
             ELSE UNCHANGED <<latch, control, rx, tx, bpos, eof, positions, sizes, task, other>>
  BY DEF Seek
<1> DEFINE to == Target(Rebased(offset, whence), whence)
           there == to = m_filePosition /\ whence # "end"
           valid == m_transfer # 0 /\ (there \/ to \in SeekTargets)
<1>2. /\ task = Idle /\ m_buffer' = Cleared(m_buffer) /\ Spend("call")
      /\ UNCHANGED <<m_transfer, m_readAhead, got, events, ev, opens>>
  BY DEF Seek, AtRest
<1>3. held' = <<>> /\ Holds(m_buffer', held') /\ Len(held') = 0
  <2>1. Holds(m_buffer', <<>>)
    BY <1>2, ClearedHolds DEF IInv, Buffer
  <2> QED BY <2>1, HeldIs
<1>4. /\ m_filePosition \in Nat /\ m_fileSize \in Nat /\ told \in Int /\ offset \in Int
      /\ Len(held) \in Nat /\ bytesUnread(m_buffer) = Len(held) /\ got = <<>>
  BY <1>2, HeldNow, IdleTask DEF IInv, Protocol, Types, TypeOK, LayerTypes, Buffer
<1>5. /\ whence = "set" => to = offset /\ Wanted(offset, whence) = offset
      /\ whence = "end" => to = m_fileSize - offset /\ Wanted(offset, whence) = m_fileSize - offset
      /\ whence = "cur" => to = m_filePosition + (offset - Len(held)) /\ Wanted(offset, whence) = told + offset
  BY <1>4 DEF Target, Rebased, Wanted
<1>6. to \in Int /\ told' \in Int
  <2>1. to \in Int /\ Wanted(offset, whence) \in Int
    BY <1>4, <1>5
  <2> HIDE DEF to
  <2> QED BY <1>1, <1>4, <2>1 DEF to
<1> HIDE DEF to
<1>7. CASE valid /\ ~there
  <2>1. to \in SeekTargets /\ Seeks(to) /\ m_transfer # 0
    BY <1>1, <1>7 DEF to
  <2>2. Protocol' /\ task'.pc = "seek" /\ task'.to = to /\ task'.s = 0 /\ budget'.loss = budget.loss
    BY <1>2, <2>1, SeeksKeeps DEF IInv
  <2>3. LayerTypes' /\ Buffer'
    BY <1>2, <1>3, <1>4, <1>6, <2>1, <2>2 DEF IInv, LayerTypes, Buffer
  <2>4. ASSUME budget.loss = MaxLoss
        PROVE  told' = to
    <3>1. told # Unknown => told = m_filePosition - Len(held)
      BY <1>2, <2>1, <2>4, IdleTask DEF IInv, Place
    <3>2. told' = IF told = Unknown /\ whence = "cur" THEN to ELSE Wanted(offset, whence)
      BY <1>1, <1>7 DEF to
    <3> QED BY <1>4, <1>5, <3>1, <3>2
  <2>5. Place'
    BY <1>2, <2>1, <2>2, <2>4 DEF Place, Blocking
  <2> QED BY <2>2, <2>3, <2>5 DEF IInv
<1>8. CASE ~(valid /\ ~there)
  <2>1. UNCHANGED <<latch, control, rx, tx, bpos, eof, positions, sizes, task, other>>
    BY <1>1, <1>8 DEF to
  <2>2. Protocol' /\ budget'.loss = budget.loss /\ task' = Idle /\ m_filePosition' = m_filePosition
    BY <1>2, <2>1, CallSpent DEF IInv, positions
  <2>3. LayerTypes' /\ Buffer'
    BY <1>2, <1>3, <1>4, <1>6, <2>2, IdleTask DEF IInv, LayerTypes, Buffer
  <2>4. ASSUME budget.loss = MaxLoss
        PROVE  told' = IF m_transfer = 0 THEN 0 ELSE m_filePosition
    <3>1. CASE ~valid
      BY <1>1, <3>1 DEF to
    <3>2. CASE valid
      <4>1. m_transfer # 0 /\ to = m_filePosition
        BY <1>8, <3>2
      <4>2. told # Unknown => told = m_filePosition - Len(held)
        BY <1>2, <2>4, <4>1, IdleTask DEF IInv, Place
      <4>3. told' = IF told = Unknown /\ whence = "cur" THEN to ELSE Wanted(offset, whence)
        BY <1>1, <3>2 DEF to
      <4> QED BY <1>4, <1>5, <4>1, <4>2, <4>3
    <3> QED BY <3>1, <3>2
  <2>5. Place'
    BY <1>2, <1>3, <1>4, <2>2, <2>4, IdleTask DEF Place, Blocking
  <2> QED BY <2>2, <2>3, <2>5 DEF IInv
<1> QED BY <1>7, <1>8

LEMMA CloseTransferStep == ASSUME IInv, CloseTransfer PROVE IInv'
<1>1. /\ task = Idle /\ UNCHANGED <<task, m_readAhead, m_buffer, got, events, ev>>
      /\ opens > 0 /\ opens' = opens - 1 /\ m_transfer' = 0 /\ told' = Unknown
  BY DEF CloseTransfer, TransferDone, AtRest
<1>2. Protocol'
  <2>1. recorded' \in 0..FileSize /\ m_fileSize' \in 0..FileSize
    BY DEF CloseTransfer, sizes, IInv, Protocol, Types, TypeOK
  <2> QED BY <2>1, TransferDoneKeeps DEF CloseTransfer, IInv
<1>3. held' = held
  BY <1>1 DEF held
<1>4. LayerTypes' /\ Buffer'
  BY <1>1, <1>3, IdleTask DEF Unknown, IInv, LayerTypes, Buffer
<1> QED BY <1>1, <1>2, <1>4 DEF IInv, Place

LEMMA OpenTransferStep == ASSUME IInv, OpenTransfer PROVE IInv'
<1>1. /\ task = Idle /\ UNCHANGED <<task, m_readAhead, m_buffer, got, events, ev>>
      /\ opens > 0 /\ opens' = opens - 1 /\ m_filePosition' = 0
  BY DEF OpenTransfer, TransferDone, AtRest
<1>2. /\ m_transfer' \in Recordings \cup {0}
      /\ told' = Unknown \/ (told' = 0 /\ m_transfer' # 0 /\ bytesUnread(m_buffer) = 0)
      /\ recorded' \in 0..FileSize /\ m_fileSize' \in 0..FileSize
  BY DEF OpenTransfer, sizes, IInv, Protocol, Types, TypeOK
<1>3. Protocol'
  BY <1>2, TransferDoneKeeps DEF OpenTransfer, IInv
<1>4. held' = held
  BY <1>1 DEF held
<1>5. LayerTypes' /\ Buffer'
  BY <1>1, <1>2, <1>4, IdleTask DEF Unknown, IInv, LayerTypes, Buffer
<1>6. Place'
  BY <1>1, <1>2, <1>4, HeldNow, IdleTask DEF Place, Blocking
<1> QED BY <1>3, <1>5, <1>6 DEF IInv

LEMMA FileGrowsStep == ASSUME IInv, FileGrows PROVE IInv'
<1>1. /\ Grow /\ m_transfer # 0 /\ recorded' \in 0..FileSize
      /\ events' \in {events, Append(events, [rec |-> m_transfer, size |-> recorded'])}
      /\ UNCHANGED <<m_transfer, m_readAhead, m_buffer, got, ev, told, opens>>
      /\ UNCHANGED <<task, m_filePosition, budget>>
  BY DEF FileGrows, Grow, positions, IInv, Protocol, Types, TypeOK
<1>2. Protocol'
  BY <1>1, GrowKeeps DEF IInv
<1>3. held' = held
  BY <1>1 DEF held
<1>4. events' \in Seq([rec : Recordings, size : 0..FileSize])
  <2> DEFINE E == [rec : Recordings, size : 0..FileSize]
             e == [rec |-> m_transfer, size |-> recorded']
  <2>1. e \in E /\ events \in Seq(E)
    BY <1>1 DEF IInv, LayerTypes
  <2>2. events' \in {events, Append(events, e)}
    BY <1>1
  <2> HIDE DEF E, e
  <2>3. events' \in Seq(E)
    BY <2>1, <2>2, AppendProperties
  <2> QED BY <2>3 DEF E
<1>5. LayerTypes' /\ Buffer'
  BY <1>1, <1>3, <1>4 DEF IInv, LayerTypes, Buffer
<1>6. Place'
  BY <1>1, <1>3 DEF IInv, Place, Blocking
<1> QED BY <1>2, <1>5, <1>6 DEF IInv

LEMMA EventStep == ASSUME IInv, HandleBackendMessage \/ SizeTold PROVE IInv'
<1>1. /\ UNCHANGED <<m_transfer, m_buffer, got, told, opens>>
      /\ UNCHANGED <<task, m_filePosition, budget>>
  BY DEF HandleBackendMessage, SizeTold, SetSize, vars, positions
<1>2. held' = held
  BY <1>1 DEF held
<1>3. Buffer' /\ Place'
  BY <1>1, <1>2 DEF IInv, Buffer, Place, Blocking
<1>4. Protocol'
  <2>1. ev.size \in 0..FileSize
    BY DEF IInv, LayerTypes
  <2> QED BY <2>1, SetSizeKeeps, ProtocolStutters DEF IInv, HandleBackendMessage, SizeTold
<1>5. LayerTypes'
  <2> DEFINE E == [rec : Recordings, size : 0..FileSize]
             T == [rec : Recordings \cup {0}, size : 0..FileSize, transfer : Int]
  <2>1. events \in Seq(E) /\ ev \in T /\ NoEvent \in T /\ m_transfer \in Recordings \cup {0} /\ opens \in Int
    BY DEF IInv, LayerTypes, NoEvent
  <2>2. events' \in Seq(E) /\ ev' \in T
    <3>1. CASE HandleBackendMessage
      <4>1. events # <<>> /\ events' = Tail(events)
            /\ (ev' = NoEvent \/ ev' = [rec |-> m_transfer, size |-> Head(events).size, transfer |-> opens])
        BY <3>1 DEF HandleBackendMessage
      <4>2. Tail(events) \in Seq(E) /\ Head(events) \in E
        BY <2>1, <4>1, HeadTailProperties
      <4>3. Head(events).size \in 0..FileSize
        BY <4>2
      <4>4. [rec |-> m_transfer, size |-> Head(events).size, transfer |-> opens] \in T
        BY <2>1, <4>3
      <4> QED BY <2>1, <4>1, <4>2, <4>4
    <3>2. CASE SizeTold
      BY <2>1, <3>2 DEF SizeTold
    <3> QED BY <3>1, <3>2
  <2> QED BY <1>1, <2>2 DEF IInv, LayerTypes
<1> QED BY <1>3, <1>4, <1>5 DEF IInv

LEMMA InitialHolds == ASSUME Initial PROVE IInv
<1>1. Protocol
  BY InitHolds DEF Initial
<1>2. task = Idle /\ m_filePosition = 0 /\ told = 0 /\ got = <<>> /\ opens = MaxOpen
      /\ events = <<>> /\ ev = NoEvent /\ m_buffer = NewBuffer(2) /\ m_transfer = Min(Recordings)
  BY DEF Initial, Init, BUFFER_CAPACITY
<1>3. m_transfer \in Recordings
  <2>1. \E x \in Recordings : \A y \in Recordings : x <= y
    <3>1. PICK x \in Recordings : \A y \in Recordings : <<y, x>> \notin OpToRel(<, Nat)
      BY NatLessThanWellFounded, WFMin
    <3>2. \A y \in Recordings : ~(y < x)
      BY <3>1 DEF OpToRel
    <3> QED BY <3>2
  <2> QED BY <1>2, <2>1 DEF Min
<1>4. Holds(m_buffer, <<>>)
  <2>1. NewRing(2) \in Rings /\ EmptyRing(NewRing(2))
    BY EmptySeq DEF NewRing, NoPacket, Rings, EmptyRing
  <2>2. m_buffer = [rbuf |-> NewRing(2), packet |-> <<>>] /\ <<>> \in Seq(Bytes)
    BY <1>2, EmptySeq DEF NewBuffer, NoPacket
  <2> QED BY <2>1, <2>2 DEF Holds
<1>5. held = <<>> /\ Len(held) = 0
  BY <1>4, StagedOf DEF held
<1>6. LayerTypes
  <2>1. ev \in [rec : Recordings \cup {0}, size : 0..FileSize, transfer : Int]
    BY <1>2 DEF NoEvent
  <2> QED BY <1>2, <1>3, <2>1, EmptySeq DEF LayerTypes
<1>7. Buffer
  BY <1>2, <1>4, <1>5, IdleTask DEF Buffer
<1>8. Place
  <2>1. m_transfer # 0
    BY <1>3
  <2>2. told = m_filePosition - Len(held)
    <3>1. told = 0 /\ m_filePosition = 0 /\ Len(held) = 0
      BY <1>2, <1>5, Zenon
    <3> QED BY <3>1
  <2>3. ~ \E i \in 1..Len(held) : TRUE
    BY <1>5
  <2> QED BY <1>2, <2>1, <2>2, <2>3, IdleTask DEF Place, Blocking
<1> QED BY <1>1, <1>6, <1>7, <1>8 DEF IInv

----------------------------------------------------------------------------
(***************************************************************************)
(* The theorems                                                            *)
(***************************************************************************)
LEMMA StepKeeps == ASSUME IInv, [Step]_playback PROVE IInv'
<1>1. CASE ReadBlock \/ ReadPacket \/ Seek \/ CloseTransfer \/ OpenTransfer
  BY <1>1, ReadBlockStep, ReadPacketStep, SeekStep, CloseTransferStep, OpenTransferStep
<1>2. CASE Reads
  BY <1>2, ReceiveStep, FailedStep, WithinStep DEF Reads
<1>3. CASE FileGrows \/ HandleBackendMessage \/ SizeTold
  BY <1>3, FileGrowsStep, EventStep
<1>4. CASE Below(TakesLatch) \/ Below(OtherSend \/ OtherRefused \/ OtherDone \/ BackendCloses)
  BY <1>4, TakesLatchStep, OthersStep
<1>5. CASE UNCHANGED playback
  <2>1. UNCHANGED vars /\ UNCHANGED layer
    BY <1>5 DEF playback
  <2>2. UNCHANGED <<task, budget, m_filePosition>>
    BY <2>1 DEF vars, positions
  <2>3. LayerTypes' /\ Buffer' /\ held' = held
    BY <2>1, <2>2, LayerStays
  <2>4. Place'
    BY <2>1, <2>2, <2>3 DEF IInv, Place, Blocking, layer
  <2> QED BY <2>1, <2>3, <2>4, ProtocolStutters DEF IInv
<1> QED BY <1>1, <1>2, <1>3, <1>4, <1>5 DEF Step

\* All of the invariant holds while a recording is played.
THEOREM InductiveInvariant == Playing => []IInv
<1>1. Initial => IInv
  BY InitialHolds
<1>2. IInv /\ [Step]_playback => IInv'
  BY StepKeeps
<1> QED BY <1>1, <1>2, PTL DEF Playing

\* The members and the locals of TransferRequestBlock and TransferSeek keep their
\* types: a read never goes over the room of the buffer, and the backend is never
\* sent to a place outside of the file.
THEOREM TypeCorrect == Playing => []TypeOK
<1>1. IInv => TypeOK
  BY DEF IInv, Protocol, Types
<1> QED BY <1>1, InductiveInvariant, PTL

\* Every answer on the control connection is read by the call that asked for it:
\* through partial blocks, time-outs, invalid and late answers, seeks, and
\* transfers that are replaced.
THEOREM AnswersAlwaysMatched == Playing => []AnswersMatched
<1>1. IInv => AnswersMatched
  BY DEF IInv, Protocol
<1> QED BY <1>1, InductiveInvariant, PTL

\* The reader holds the latch of the control connection exactly while an answer
\* is due, by whatever path TransferRequestBlock and TransferSeek end.
THEOREM LatchOnlyWhileRequested == Playing => []LatchWhileRequested
<1>1. IInv => LatchWhileRequested
  BY DEF IInv, Protocol
<1> QED BY <1>1, InductiveInvariant, PTL

\* As long as nothing fails, Read and Seek of RecordingPlayback keep the
\* application where it believes to be: it reads the bytes of the recording in
\* order from there, out of the buffer and then off the stream.
THEOREM AlwaysReadInOrder == Playing => []ReadInOrder
<1>1. IInv => ReadInOrder
  <2> SUFFICES ASSUME IInv, budget.loss = MaxLoss, task = Idle, told # Unknown
               PROVE  /\ GetPosition = told
                      /\ \A i \in DOMAIN held : held[i] = <<m_transfer, told + i - 1>>
                      /\ tx # <<>> => Head(tx) = m_filePosition
    BY DEF ReadInOrder, held
  <2>1. /\ held \in Seq(Bytes) /\ Len(held) \in Nat /\ bytesUnread(m_buffer) = Len(held)
        /\ DOMAIN held = 1..Len(held) /\ m_filePosition \in Nat /\ tx \in Seq(0..FileSize)
    BY HeldNow, LenProperties DEF IInv, Protocol, Types, TypeOK
  <2>2. GetPosition = told /\ \A i \in 1..Len(held) : held[i] = <<m_transfer, told + i - 1>>
    <3>1. CASE m_transfer = 0
      <4>1. told = 0 /\ held = <<>>
        BY <3>1 DEF IInv, Place
      <4>2. ~ \E i \in 1..Len(held) : TRUE
        BY <4>1
      <4> QED BY <3>1, <4>1, <4>2 DEF GetPosition
    <3>2. CASE m_transfer # 0
      BY <2>1, <3>2, IdleTask DEF IInv, Place, GetPosition
    <3> QED BY <3>1, <3>2
  <2>4. tx # <<>> => Head(tx) = m_filePosition
    <3>1. \A i \in 1..Len(tx) : tx[i] = m_filePosition + i - 1
      BY IdleTask DEF IInv, Protocol, Stream
    <3>2. tx # <<>> => 1 \in 1..Len(tx) /\ Head(tx) = tx[1]
      BY <2>1
    <3>3. tx # <<>> => tx[1] = m_filePosition + 1 - 1
      BY <3>1, <3>2
    <3> QED BY <2>1, <3>2, <3>3
  <2> QED BY <2>1, <2>2, <2>4
<1> QED BY <1>1, InductiveInvariant, PTL

=============================================================================
