---------------------------- MODULE ProtoMonitor ----------------------------
(***************************************************************************)
(* A protocol connection of the library: ProtoBase and ProtoMonitor        *)
(* (cppmyth/src/proto/mythprotobase.cpp, mythprotomonitor.cpp), with the   *)
(* commands of ProtoRecorder, which is such a connection, too.  Threads    *)
(* send commands over one TCP connection and read the replies, field by    *)
(* field; a read or a write that fails hangs the connection up; the next   *)
(* command opens it again and agrees on a version with the backend.        *)
(*                                                                         *)
(* The unit of the stream is a field: a reply is its length, then as many  *)
(* fields.  It is put into rx when the command is sent; a reply that is    *)
(* late is a read that fails before it.  The latch is exclusive (module    *)
(* Latch) and kept as its holder.  A command holds it from its first line  *)
(* to its last; Open gives it up between OpenConnection and the announce.  *)
(***************************************************************************)
EXTENDS Integers, Sequences, ProtoCommands

Recorder == INSTANCE RecorderCommands

CONSTANTS
  Threads,   \* the threads of the application
  NoThread,
  Backends,  \* the versions that the backend may speak
  Lengths,   \* bound: the numbers of fields of a reply
  MaxMarks,  \* bound: the elements a mark list announces
  MaxCalls,  \* bound: calls of the application
  MaxLoss    \* bound: failures of the network, the backend and its replies

ASSUME MonitorAssumption ==
  /\ NoThread \notin Threads
  /\ Backends \subseteq Nat \ {0} /\ Lengths \subseteq Nat
  /\ MaxMarks \in Nat /\ MaxCalls \in Nat /\ MaxLoss \in Nat

VARIABLES
  latch,                      \* the thread that holds m_latch
  sock, rx,                   \* m_socket is valid; what it will receive
  m_isOpen, m_hang, m_tainted,
  m_msgLength, m_msgConsumed, \* the message being read
  m_protoVersion, m_protoError,
  my_version,                 \* static: the version agreed last, by any object
  backend,                    \* the version the backend speaks
  announced,                  \* history: this connection was announced
  task,                       \* per thread: the call it is in
  budget                      \* what is left of the bounds

stream == <<sock, rx, m_msgLength, m_msgConsumed>>
status == <<m_isOpen, m_hang, m_tainted, m_protoVersion, m_protoError, announced>>
vars == <<latch, stream, status, my_version, backend, task, budget>>

NoCommand == [head |-> 0, item |-> 0, rest |-> FALSE, flush |-> FALSE]

\* A thread: where it is, the command it called, what it sent last, what it has
\* still to read of the reply (fields of the head, fields of the element,
\* elements), and the version it tries.
Idle == [pc |-> "idle", cmd |-> NoCommand, sent |-> "none", head |-> 0,
         item |-> 0, nb |-> 0, tmp_ver |-> 0]

Init ==
  /\ latch = NoThread
  /\ sock = FALSE /\ rx = <<>>
  /\ m_isOpen = FALSE /\ m_hang = FALSE /\ m_tainted = FALSE
  /\ m_msgLength = 0 /\ m_msgConsumed = 0
  /\ m_protoVersion = 0 /\ m_protoError = "NO_ERROR"
  /\ my_version = 0
  /\ backend \in Backends
  /\ announced = FALSE
  /\ task = [t \in Threads |-> Idle]
  /\ budget = [call |-> MaxCalls, loss |-> MaxLoss]

Spend(b) == budget[b] > 0 /\ budget' = [budget EXCEPT ![b] = @ - 1]
At(t, place) == task[t].pc = place
Goto(t, place) == task' = [task EXCEPT ![t].pc = place]

----------------------------------------------------------------------------
(***************************************************************************)
(* The stream                                                              *)
(***************************************************************************)
Header(n) == [kind |-> "length", n |-> n, own |-> TRUE]
Field == [kind |-> "field", n |-> 0, own |-> TRUE]
Reply(n) == <<Header(n)>> \o [i \in 1..n |-> Field]

\* What is left to read of a message.
Left == m_msgLength - m_msgConsumed

Drop(k) == SubSeq(rx, k + 1, Len(rx))

\* Read k fields of the message; at its end both counters are reset.
Consume(k) ==
  /\ Len(rx) >= k
  /\ rx' = Drop(k)
  /\ m_msgLength' = IF k < Left THEN m_msgLength ELSE 0
  /\ m_msgConsumed' = IF k < Left THEN m_msgConsumed + k ELSE 0
  /\ UNCHANGED sock

FlushMessage == Consume(Left)

\* Mutant: the message is not forgotten.
DisconnectMidMessage ==
  /\ sock' = FALSE
  /\ rx' = <<>>
  /\ UNCHANGED <<m_msgLength, m_msgConsumed>>
  /\ m_isOpen' = FALSE
  /\ announced' = FALSE

\* The socket is disconnected and the message forgotten.
Disconnect ==
  /\ sock' = FALSE
  /\ rx' = <<>>
  /\ m_msgLength' = 0
  /\ m_msgConsumed' = 0
  /\ m_isOpen' = FALSE
  /\ announced' = FALSE

\* A read or a write failed.
HangException ==
  /\ Disconnect
  /\ m_hang' = TRUE
  /\ m_tainted' = TRUE
  /\ UNCHANGED <<m_protoVersion, m_protoError>>

\* ProtoBase::Close: DONE is sent first unless the connection hangs; sending
\* it flushes and may fail.
CloseConnection ==
  /\ Disconnect
  /\ \/ UNCHANGED <<m_hang, m_tainted, budget>>
     \/ /\ sock /\ m_isOpen /\ ~m_hang
        /\ Spend("loss")
        /\ m_hang' = TRUE
        /\ m_tainted' = TRUE

----------------------------------------------------------------------------
(***************************************************************************)
(* Calls of the application                                                *)
(***************************************************************************)
\* A command; which one may depend on the version, read without the latch.
Call(t) ==
  /\ At(t, "idle")
  /\ Spend("call")
  /\ \E c \in Commands(m_protoVersion)
              \cup Recorder!Commands(m_protoVersion) :
       task' = [task EXCEPT ![t].pc = "called", ![t].cmd = c]
  /\ UNCHANGED <<latch, stream, status, my_version, backend>>

\* Open and Close by the application: calls with no command.
CallOpen(t) ==
  /\ At(t, "idle")
  /\ Spend("call")
  /\ Goto(t, "open")
  /\ UNCHANGED <<latch, stream, status, my_version, backend>>

CallClose(t) ==
  /\ At(t, "idle")
  /\ Spend("call")
  /\ Goto(t, "close")
  /\ UNCHANGED <<latch, stream, status, my_version, backend>>

InCommand(t) == task[t].cmd # NoCommand

\* The call returns, and the latch is given up if it is held.
Leave(t) ==
  /\ task' = [task EXCEPT ![t] = Idle]
  /\ latch' = IF latch = t THEN NoThread ELSE latch

\* WriteLock, then IsOpen: a connection that hangs is opened again.
CommandEnter(t) ==
  /\ At(t, "called")
  /\ latch = NoThread
  /\ \/ m_hang /\ latch' = t /\ Goto(t, "open")
     \/ ~m_hang /\ m_isOpen /\ latch' = t /\ Goto(t, "send")
     \/ ~m_hang /\ ~m_isOpen /\ Leave(t)
  /\ UNCHANGED <<stream, status, my_version, backend, budget>>

(***************************************************************************)
(* OpenConnection                                                          *)
(***************************************************************************)
FirstTry == IF my_version = 0 THEN NewestVersion ELSE my_version

OpenBegin(t) ==
  /\ At(t, "open")
  /\ latch \in {NoThread, t}
  /\ latch' = t
  /\ task' = [task EXCEPT ![t].pc = "connect", ![t].tmp_ver = FirstTry]
  /\ IF m_isOpen THEN CloseConnection
                 ELSE UNCHANGED <<stream, m_isOpen, m_hang, m_tainted, announced,
                                  budget>>
  /\ m_protoError' = "NO_ERROR"
  /\ UNCHANGED <<m_protoVersion, my_version, backend>>

\* The connection could not be opened.
OpenFails(t, error) ==
  /\ Disconnect
  /\ m_protoVersion' = 0
  /\ m_protoError' = error
  /\ Leave(t)

UnknownVersion(t) ==
  /\ At(t, "connect")
  /\ task[t].tmp_ver \notin KnownVersions
  /\ OpenFails(t, "UNKNOWN_VERSION")
  /\ UNCHANGED <<m_hang, m_tainted, my_version, backend, budget>>

\* Hang remains up, allowing retry.
Unreachable(t) ==
  /\ At(t, "connect")
  /\ task[t].tmp_ver \in KnownVersions
  /\ Spend("loss")
  /\ m_hang' = TRUE
  /\ OpenFails(t, "SERVER_UNREACHABLE")
  /\ UNCHANGED <<m_tainted, my_version, backend>>

Connect(t) ==
  /\ At(t, "connect")
  /\ task[t].tmp_ver \in KnownVersions
  /\ sock' = TRUE
  /\ m_hang' = FALSE
  /\ Goto(t, "version")
  /\ UNCHANGED <<latch, rx, m_msgLength, m_msgConsumed, m_isOpen, m_tainted,
                 m_protoVersion, m_protoError, announced, my_version, backend,
                 budget>>

\* Mutant: a command that opens the connection again does not announce it.
VersionAcceptedSilent(t) ==
  /\ At(t, "version")
  /\ task[t].tmp_ver = backend
  /\ m_isOpen' = TRUE
  /\ m_protoVersion' = backend
  /\ my_version' = backend
  /\ latch' = IF InCommand(t) THEN t ELSE NoThread
  /\ Goto(t, IF InCommand(t) THEN "send" ELSE "announce")
  /\ UNCHANGED <<stream, m_hang, m_tainted, m_protoError, announced, backend,
                 budget>>

\* MYTH_PROTO_VERSION and its reply: the versions agree.
VersionAccepted(t) ==
  /\ At(t, "version")
  /\ task[t].tmp_ver = backend
  /\ m_isOpen' = TRUE
  /\ m_protoVersion' = backend
  /\ my_version' = backend
  /\ latch' = IF InCommand(t) THEN t ELSE NoThread
  /\ Goto(t, "announce")
  /\ UNCHANGED <<stream, m_hang, m_tainted, m_protoError, announced, backend,
                 budget>>

\* Mutant: the version the backend asks for is not taken over.
VersionRejectedAgain(t) ==
  /\ At(t, "version")
  /\ task[t].tmp_ver # backend
  /\ Goto(t, "connect")
  /\ sock' = FALSE
  /\ UNCHANGED <<latch, rx, m_msgLength, m_msgConsumed, status, my_version,
                 backend, budget>>

\* The backend asks for another version: try that one.
VersionRejected(t) ==
  /\ At(t, "version")
  /\ task[t].tmp_ver # backend
  /\ task' = [task EXCEPT ![t].pc = "connect", ![t].tmp_ver = backend]
  /\ sock' = FALSE
  /\ UNCHANGED <<latch, rx, m_msgLength, m_msgConsumed, status, my_version,
                 backend, budget>>

\* The connection hangs, or the reply is not two fields with a number.
VersionFailed(t) ==
  /\ At(t, "version")
  /\ Spend("loss")
  /\ \/ m_hang' = TRUE /\ m_tainted' = TRUE
     \/ UNCHANGED <<m_hang, m_tainted>>
  /\ OpenFails(t, "SOCKET_ERROR")
  /\ UNCHANGED <<my_version, backend>>

(***************************************************************************)
(* SendCommand and the reply                                               *)
(***************************************************************************)
\* The place where a command is sent: the announce takes the latch if the call
\* does not hold it, the command of a call has it.
AtSend(t) ==
  \/ At(t, "announce") /\ latch \in {NoThread, t}
  \/ At(t, "send")

\* What was sent and is being read.
Script(t) == IF task[t].sent = "announce" THEN Announce(m_protoVersion)
                                          ELSE task[t].cmd

\* The call goes on after the announce, or returns.
Succeed(t) ==
  IF task[t].sent = "announce"
  THEN /\ announced' = TRUE
       /\ IF InCommand(t) THEN Goto(t, "send") /\ UNCHANGED latch ELSE Leave(t)
  ELSE Leave(t) /\ UNCHANGED announced

\* A failed announce closes the connection, which takes the latch again.
Fail(t, sent) ==
  IF sent = "announce"
  THEN /\ Goto(t, "close")
       /\ latch' = IF InCommand(t) THEN t ELSE NoThread
  ELSE Leave(t)

\* Mutant: what is left of the last reply stays.
SendCommandUnflushed(t) ==
  /\ AtSend(t)
  /\ sock
  /\ \E n \in Lengths :
       rx' = [i \in DOMAIN rx |-> [rx[i] EXCEPT !.own = FALSE]] \o Reply(n)
  /\ m_msgLength' = 0
  /\ m_msgConsumed' = 0
  /\ latch' = t
  /\ task' = [task EXCEPT ![t].pc = "length",
                          ![t].sent = IF At(t, "send") THEN "command" ELSE "announce"]
  /\ UNCHANGED <<sock, status, my_version, backend, budget>>

\* What is left of the last reply is flushed; the new one will be of n fields.
SendCommand(t) ==
  /\ AtSend(t)
  /\ sock
  /\ Len(rx) >= Left
  /\ \E n \in Lengths :
       rx' = [i \in 1..(Len(rx) - Left) |-> [Drop(Left)[i] EXCEPT !.own = FALSE]]
               \o Reply(n)
  /\ m_msgLength' = 0
  /\ m_msgConsumed' = 0
  /\ latch' = t
  /\ task' = [task EXCEPT ![t].pc = "length",
                          ![t].sent = IF At(t, "send") THEN "command" ELSE "announce"]
  /\ UNCHANGED <<sock, status, my_version, backend, budget>>

\* The socket is not valid, or flushing or sending fails.
SendFailed(t) ==
  /\ AtSend(t)
  /\ IF sock THEN Spend("loss") ELSE UNCHANGED budget
  /\ HangException
  /\ Fail(t, IF At(t, "send") THEN "command" ELSE "announce")
  /\ UNCHANGED <<my_version, backend>>

RcvMessageLength(t) ==
  /\ At(t, "length")
  /\ rx # <<>> /\ Head(rx).kind = "length"
  /\ m_msgLength' = Head(rx).n
  /\ m_msgConsumed' = 0
  /\ rx' = Tail(rx)
  /\ task' = [task EXCEPT ![t].pc = IF Script(t).head > 0 THEN "head" ELSE "list",
                          ![t].head = Script(t).head, ![t].item = Script(t).item]
  /\ UNCHANGED <<latch, sock, status, my_version, backend, budget>>

\* Nothing comes in time, or it is no number.
RcvLengthFailed(t) ==
  /\ At(t, "length")
  /\ Spend("loss")
  /\ HangException
  /\ Fail(t, task[t].sent)
  /\ UNCHANGED <<my_version, backend>>

\* How many elements of a list the head can announce.
Counts(t) == IF Script(t).item > 0 THEN 0..MaxMarks ELSE {0}

\* Mutant: one field too many is read.
ReadHeadPast(t) ==
  /\ At(t, "head")
  /\ Left > 0
  /\ Consume(1)
  /\ \E nb \in Counts(t) :
       task' = [task EXCEPT ![t].pc = IF task[t].head = 0 THEN "list" ELSE "head",
                            ![t].head = @ - 1, ![t].nb = nb]
  /\ UNCHANGED <<latch, status, my_version, backend, budget>>

\* ReadField in the head: the field is there and good.
ReadHead(t) ==
  /\ At(t, "head")
  /\ Left > 0
  /\ Consume(1)
  /\ \E nb \in Counts(t) :
       task' = [task EXCEPT ![t].pc = IF task[t].head = 1 THEN "list" ELSE "head",
                            ![t].head = @ - 1, ![t].nb = nb]
  /\ UNCHANGED <<latch, status, my_version, backend, budget>>

\* It is missing, or refused: flush and fail.
HeadRefused(t) ==
  /\ At(t, "head")
  /\ FlushMessage
  /\ Fail(t, task[t].sent)
  /\ UNCHANGED <<status, my_version, backend, budget>>

\* The list is over: nothing is left of the reply, or all elements are read.
ListOver(t) ==
  \/ Script(t).item = 0
  \/ /\ task[t].item = Script(t).item
     /\ IF Script(t).rest THEN Left = 0 ELSE task[t].nb = 0

\* ReadField in the list: the field is there and good.
ReadItem(t) ==
  /\ At(t, "list")
  /\ ~ListOver(t)
  /\ Left > 0
  /\ Consume(1)
  /\ task' = IF task[t].item > 1
             THEN [task EXCEPT ![t].item = @ - 1]
             ELSE [task EXCEPT ![t].item = Script(t).item,
                               ![t].nb = IF Script(t).rest THEN 0 ELSE @ - 1]
  /\ UNCHANGED <<latch, status, my_version, backend, budget>>

\* The list is over, or ends at a field that is missing or refused; then the
\* command flushes, or leaves that to the next one.
ReadDone(t) ==
  /\ At(t, "list")
  /\ \/ Script(t).flush /\ FlushMessage
     \/ ~Script(t).flush /\ (ListOver(t) \/ Left = 0) /\ UNCHANGED stream
     \/ ~Script(t).flush /\ ~ListOver(t) /\ Left > 0 /\ Consume(1)
  /\ Succeed(t)
  /\ UNCHANGED <<m_isOpen, m_hang, m_tainted, m_protoVersion, m_protoError,
                 my_version, backend, budget>>

\* The connection hangs in the middle of the reply.  A list keeps what it has
\* and the command succeeds.
ReadFailed(t) ==
  /\ \/ At(t, "head")
     \/ At(t, "list") /\ (Script(t).flush \/ ~ListOver(t))
  /\ Left > 0
  /\ Spend("loss")
  /\ HangException
  /\ IF At(t, "head") THEN Fail(t, task[t].sent) ELSE Leave(t)
  /\ UNCHANGED <<my_version, backend>>

(***************************************************************************)
(* ProtoMonitor::Close: under the latch, then two flags without it.        *)
(***************************************************************************)
Close(t) ==
  /\ At(t, "close")
  /\ latch \in {NoThread, t}
  /\ CloseConnection
  /\ Goto(t, "clear")
  /\ UNCHANGED <<latch, m_protoVersion, m_protoError, my_version, backend>>

CleanHanging(t) ==
  /\ At(t, "clear")
  /\ m_tainted' = FALSE
  /\ m_hang' = FALSE
  /\ Leave(t)
  /\ UNCHANGED <<stream, m_isOpen, m_protoVersion, m_protoError, announced,
                 my_version, backend, budget>>

(***************************************************************************)
(* The environment: another connection of the process agrees on a version; *)
(* the backend is replaced while no connection is up.                      *)
(***************************************************************************)
OtherAgreed ==
  /\ my_version # backend
  /\ my_version' = backend
  /\ UNCHANGED <<latch, stream, status, backend, task, budget>>

BackendReplaced ==
  /\ ~sock
  /\ Spend("loss")
  /\ backend' \in Backends \ {backend}
  /\ UNCHANGED <<latch, stream, status, my_version, task>>

----------------------------------------------------------------------------
Step(t) ==
  \/ CommandEnter(t) \/ OpenBegin(t)
  \/ UnknownVersion(t) \/ Unreachable(t) \/ Connect(t)
  \/ VersionAccepted(t) \/ VersionRejected(t) \/ VersionFailed(t)
  \/ SendCommand(t) \/ SendFailed(t)
  \/ RcvMessageLength(t) \/ RcvLengthFailed(t)
  \/ ReadHead(t) \/ HeadRefused(t) \/ ReadItem(t) \/ ReadDone(t) \/ ReadFailed(t)
  \/ Close(t) \/ CleanHanging(t)

Next ==
  \/ \E t \in Threads : Call(t) \/ CallOpen(t) \/ CallClose(t) \/ Step(t)
  \/ OtherAgreed \/ BackendReplaced

Spec == Init /\ [][Next]_vars

\* A call goes on: every read and write ends within the time-out of the
\* socket, and the latch is given to a thread that waits for it.
FairSpec == Spec /\ \A t \in Threads : WF_vars(Step(t))

----------------------------------------------------------------------------
Places == {"idle", "called", "open", "connect", "version", "announce", "send",
           "length", "head", "list", "close", "clear"}

Scripts == [head : Nat, item : Nat, rest : BOOLEAN, flush : BOOLEAN]

Words == [kind : {"length", "field"}, n : Nat, own : BOOLEAN]

Tasks == [pc : Places, cmd : Scripts, sent : {"none", "announce", "command"},
          head : Nat, item : Nat, nb : Nat, tmp_ver : Nat]

\* The types of the variables.
TypeOK ==
  /\ latch \in Threads \cup {NoThread}
  /\ sock \in BOOLEAN
  /\ rx \in Seq(Words)
  /\ m_isOpen \in BOOLEAN /\ m_hang \in BOOLEAN /\ m_tainted \in BOOLEAN
  /\ m_msgLength \in Nat /\ m_msgConsumed \in Nat
  /\ m_protoVersion \in Backends \cup {0}
  /\ m_protoError \in {"NO_ERROR", "SERVER_UNREACHABLE", "SOCKET_ERROR",
                       "UNKNOWN_VERSION"}
  /\ my_version \in Backends \cup {0}
  /\ backend \in Backends
  /\ announced \in BOOLEAN
  /\ task \in [Threads -> Tasks]

Reading(t) == task[t].pc \in {"length", "head", "list"}

\* A call reads its own reply: whatever earlier calls left unread, whatever
\* hung up, timed out, was opened again or closed by other threads, the next
\* field that a call takes from the connection answers what it sent.
OwnReply ==
  \A t \in Threads : Reading(t) /\ rx # <<>> =>
    /\ latch = t
    /\ Head(rx).own
    /\ Head(rx).kind = IF At(t, "length") THEN "length" ELSE "field"

\* The counters agree with the stream: what m_msgLength and m_msgConsumed leave
\* is what the connection still holds, so flushing never takes a byte of the
\* next reply nor waits for one that does not come.
Framing ==
  /\ 0 <= Left
  /\ (\A t \in Threads : ~At(t, "length")) => Len(rx) = Left
  /\ ~sock => rx = <<>> /\ Left = 0 /\ ~m_isOpen

\* No command is sent over a connection that was not announced, except in the
\* time in which another thread is inside Open (or closes after it failed).
AnnouncedFirst ==
  \A t \in Threads : Reading(t) /\ task[t].sent = "command" =>
    announced \/ \E u \in Threads \ {t} : At(u, "announce") \/ At(u, "close")

\* Every call returns: agreeing on a version comes to an end, and nobody waits
\* for the latch or the reply for ever.
CallsReturn == \A t \in Threads : ~At(t, "idle") ~> At(t, "idle")

=============================================================================
