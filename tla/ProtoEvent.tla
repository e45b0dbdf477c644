----------------------------- MODULE ProtoEvent -----------------------------
(***************************************************************************)
(* The connection that receives events (cppmyth/src/proto/                 *)
(* mythprotoevent.cpp) over a socket with a receive buffer                 *)
(* (cppmyth/src/private/socket.cpp).  The backend sends messages, the      *)
(* network delivers them in segments, the system keeps what has come, and  *)
(* ReceiveData takes as much of it as its buffer holds: the fields of one  *)
(* message and of the next.  The thread of the event handler opens the     *)
(* connection, announces itself and receives one message per call.         *)
(*                                                                         *)
(* The unit is a field, or the length in front of a message; the agreement *)
(* on the version is in module ProtoMonitor and one step here.             *)
(***************************************************************************)
EXTENDS ProgramInfo, FiniteSets

CONSTANTS
  Versions,          \* the versions a backend may have
  Addresses,         \* how many addresses its name has
  BufLen,            \* m_buflen, in fields
  Segments,          \* bound: how many fields a segment brings
  MaxSent, MaxFault  \* bound: messages sent; failures and disconnections

ASSUME ProtoEventAssumption ==
  /\ Versions \subseteq Nat /\ Addresses \in Nat \ {0} /\ BufLen \in Nat \ {0}
  /\ Segments \subseteq Nat \ {0} /\ MaxSent \in Nat /\ MaxFault \in Nat

VARIABLES
  net, wire,       \* external: sent and not arrived; arrived and not received
  m_buffer,        \* received and not read, from m_bufptr to m_rcvlen
  m_socket,        \* "none", "open" or "ended" (by the backend)
  m_isOpen, m_hang, m_protoVersion,
  m_msgLength,     \* fields of the message that are not consumed
  task,            \* the thread: its place, address or field, message being made
  sent, got,       \* history of the connection: messages sent; how many were
                   \* returned and the last of them
  budget

socket == <<net, wire, m_buffer, m_socket>>
proto == <<m_isOpen, m_hang, m_protoVersion, m_msgLength>>
vars == <<socket, proto, task, sent, got, budget>>

None == <<>>
NewMessage == [event |-> "UNKNOWN", program |-> None, signal |-> {}]
Task(place, i) == [pc |-> place, i |-> i, msg |-> NewMessage]

Init ==
  /\ net = <<>> /\ wire = <<>> /\ m_buffer = <<>> /\ m_socket = "none"
  /\ m_isOpen = FALSE /\ m_hang = FALSE /\ m_protoVersion = 0 /\ m_msgLength = 0
  /\ task = Task("closed", 0)
  /\ sent = <<>> /\ got = [n |-> 0, last |-> NewMessage]
  /\ budget = [send |-> MaxSent, fault |-> MaxFault]

Spend(b) == budget[b] > 0 /\ budget' = [budget EXCEPT ![b] = @ - 1]
Goto(place) == task' = [task EXCEPT !.pc = place]
Smaller(a, b) == IF a < b THEN a ELSE b

----------------------------------------------------------------------------
(***************************************************************************)
(* What the backend sends                                                  *)
(***************************************************************************)
\* The length in front of n fields.
Header(n) == [text |-> FALSE, val |-> "length", neg |-> FALSE, bits |-> n]
Framed(fields) == <<Header(Len(fields))>> \o fields

\* Programs with the least and with the greatest values of every field.
ProgramOf(level) ==
  [f \in DOMAIN CType |->
     LET n == Width[CType[f]] IN
     CASE f = "catType" -> Text(IF level = "high" THEN "tvshow" ELSE "unheard of")
       [] CType[f] = "str" /\ f # "catType" -> Text(IF level = "high" THEN f ELSE "")
       [] CType[f] = "double" -> Number(f, level = "low", 3)
       [] CType[f] \in {"int8", "int32", "int64"} -> Number(f, level = "low", n)
       [] OTHER -> IF level = "high" THEN Number(f, FALSE, n) ELSE Zero]

\* What the reader is to make of it: the fields that the version has, the others
\* as in a new program.
Known(version, f) ==
  /\ f = "subProps" => version >= 76
  /\ f = "catType" => version >= 79
  /\ f = "recordedId" => version >= 82
Expected ==
  [version \in Versions |->
     [level \in {"high", "low", "none"} |->
        IF level = "none" THEN None
        ELSE [f \in DOMAIN CType |->
                IF ~Known(version, f) THEN NewProgram[f]
                ELSE IF f = "catType" /\ level = "low" THEN Text("")
                ELSE ProgramOf(level)[f]]]]

Plain(s, event) ==
  [fields |-> <<Text("BACKEND_MESSAGE"), Text(s)>>, event |-> event, level |-> "none", signal |-> {}]
Carries(s, event, fields, level) ==
  [Plain(s, event) EXCEPT !.fields = @ \o fields, !.level = level]

\* Events of all kinds; a signal; programs that are passed over, read, followed by
\* fields of a later version, cut short, or not numbers where they should be.
Messages ==
  [version \in Versions |->
     LET high == MakeProgramInfo(version, ProgramOf("high"))
         low == MakeProgramInfo(version, ProgramOf("low"))
     IN
     {Plain("DONE_RECORDING", "DONE_RECORDING"), Plain("NEWS", "UNKNOWN"),
      [Plain("", "UNKNOWN") EXCEPT !.fields = <<Text("BACKEND_MESSAGE")>>],
      [Plain("", "UNKNOWN") EXCEPT !.fields = <<Text("OK"), Text("DONE_RECORDING")>>],
      [Carries("SIGNAL", "SIGNAL", <<Text("slock"), Text("noise"), Text("ber")>>, "none")
         EXCEPT !.signal = {"slock", "ber"}],
      Carries("RECORDING_LIST_CHANGE", "RECORDING_LIST_CHANGE", high, "none"),
      Carries("RECORDING_LIST_CHANGE UPDATE", "RECORDING_LIST_CHANGE", low, "low"),
      Carries("ASK_RECORDING", "ASK_RECORDING", high \o [i \in 1..BufLen |-> Zero], "high"),
      Carries("ASK_RECORDING", "ASK_RECORDING", SubSeq(high, 1, 40), "none"),
      Carries("ASK_RECORDING", "ASK_RECORDING", [high EXCEPT ![4] = Text("x")], "none")}]

\* Bound: any message first, then one with a program or without.
Following ==
  [version \in Versions |->
     {m \in Messages[version] : m.event = "DONE_RECORDING" \/ m.level = "high"}]

Announced == task.pc \notin {"closed", "connect", "announce", "lost"}

Send ==
  /\ Announced /\ m_socket = "open"
  /\ Spend("send")
  /\ \E m \in (IF sent = <<>> THEN Messages ELSE Following)[m_protoVersion] :
       /\ net' = net \o Framed(m.fields)
       /\ sent' = Append(sent, [event |-> m.event, level |-> m.level, signal |-> m.signal])
  /\ UNCHANGED <<wire, m_buffer, m_socket, proto, task, got>>

Deliver ==
  /\ net # <<>>
  /\ \E n \in {Smaller(k, Len(net)) : k \in Segments} :
       /\ wire' = wire \o SubSeq(net, 1, n)
       /\ net' = SubSeq(net, n + 1, Len(net))
  /\ UNCHANGED <<m_buffer, m_socket, proto, task, sent, got, budget>>

BackendCloses ==
  /\ m_socket = "open" /\ Spend("fault")
  /\ m_socket' = "ended" /\ net' = <<>>
  /\ UNCHANGED <<wire, m_buffer, proto, task, sent, got>>

----------------------------------------------------------------------------
(***************************************************************************)
(* TcpSocket                                                               *)
(***************************************************************************)
Disconnect == m_socket' = "none" /\ net' = <<>> /\ wire' = <<>> /\ m_buffer' = <<>>

\* There is something to read for ReceiveData, and what comes first.
Readable == m_buffer # <<>> \/ wire # <<>>
First == IF m_buffer # <<>> THEN Head(m_buffer) ELSE Head(wire)

\* Mutant: all that has come is taken, however much the buffer holds.
AtOnceAll == IF m_buffer # <<>> THEN m_buffer ELSE wire
\* What one call finds at once: the rest of the buffer, else what fills it.
AtOnce == IF m_buffer # <<>> THEN m_buffer ELSE SubSeq(wire, 1, Smaller(BufLen, Len(wire)))

\* n of them are asked for: the others stay in the buffer.
ReceiveData(n) ==
  /\ m_buffer' = SubSeq(AtOnce, n + 1, Len(AtOnce))
  /\ wire' = IF m_buffer # <<>> THEN wire ELSE SubSeq(wire, Len(AtOnce) + 1, Len(wire))
  /\ UNCHANGED <<net, m_socket>>

\* As many as the buffer holds or more: straight from the system.
ReceiveStraight(n) ==
  /\ wire' = SubSeq(wire, n + 1, Len(wire))
  /\ UNCHANGED <<net, m_buffer, m_socket>>

\* Mutant: the end of the stream is not looked for.
ListensForData == wire # <<>>
\* poll: there is something, or the stream has ended.
Listens == wire # <<>> \/ m_socket = "ended"

----------------------------------------------------------------------------
(***************************************************************************)
(* Opening and closing                                                     *)
(***************************************************************************)
Open ==
  /\ task.pc = "closed"
  /\ task' = Task("connect", Addresses)
  /\ UNCHANGED <<socket, proto, sent, got, budget>>

\* An address answers in time; the version is agreed on.
ConnectAddr ==
  /\ task.pc = "connect"
  /\ m_socket' = "open" /\ m_isOpen' = TRUE /\ m_hang' = FALSE
  /\ m_protoVersion' \in Versions
  /\ sent' = <<>> /\ got' = [n |-> 0, last |-> NewMessage]
  /\ Goto("announce")
  /\ UNCHANGED <<net, wire, m_buffer, m_msgLength, budget>>

\* It does not: the next one, as long as there is one.
Connect ==
  /\ task.pc = "connect"
  /\ Spend("fault")
  /\ task' = IF task.i > 1 THEN Task("connect", task.i - 1) ELSE Task("closed", 0)
  /\ UNCHANGED <<socket, proto, sent, got>>

\* ProtoEvent::Close: whatever the state, also of a connection that hung.
CloseConnection ==
  /\ Disconnect
  /\ m_isOpen' = FALSE /\ m_hang' = FALSE /\ m_msgLength' = 0
  /\ task' = Task("closed", 0)
  /\ UNCHANGED <<m_protoVersion, sent, got>>

\* The backend answers and may send messages at once.
Announce75 ==
  /\ task.pc = "announce"
  /\ \/ /\ m_socket = "open"
        /\ \E answer \in {"OK", "REFUSED"} :
             /\ IF answer = "OK" THEN UNCHANGED budget ELSE Spend("fault")
             /\ net' = net \o Framed(<<Text(answer)>>)
        /\ Goto("answer")
        /\ UNCHANGED <<wire, m_buffer, m_socket, proto, sent, got>>
     \/ /\ m_socket = "ended"
        /\ CloseConnection
        /\ UNCHANGED budget

Refused == task.pc = "refused" /\ CloseConnection /\ UNCHANGED budget
\* The handler is reset or stopped.
Close == task.pc = "idle" /\ Spend("fault") /\ CloseConnection
\* The handler has got an error from RcvBackendMessage and opens it again.
CloseLost == task.pc = "lost" /\ CloseConnection /\ UNCHANGED budget

----------------------------------------------------------------------------
(***************************************************************************)
(* RcvBackendMessage                                                       *)
(***************************************************************************)
\* A time-out of Listen returns 0 and changes nothing.
Listen ==
  /\ task.pc = "idle"
  /\ \/ Listens /\ task' = Task("length", 0) /\ UNCHANGED budget
     \/ Spend("fault") /\ Goto("lost")
  /\ UNCHANGED <<socket, proto, sent, got>>

Waiting == {"answer", "length", "ok", "head", "subject", "program", "signal", "flush"}

\* Mutant: the call returns what it has as if it were a message.
HangUnnoticed ==
  /\ Disconnect
  /\ m_isOpen' = FALSE /\ m_hang' = TRUE /\ m_msgLength' = 0
  /\ Goto("flush")
  /\ UNCHANGED <<m_protoVersion, sent, got>>
\* HangException and Close; the call goes on to its end without reading.
Hang ==
  /\ Disconnect
  /\ m_isOpen' = FALSE /\ m_hang' = TRUE /\ m_msgLength' = 0
  /\ Goto("lost")
  /\ UNCHANGED <<m_protoVersion, sent, got>>

\* recv finds the end of the stream, or nothing comes in time.
ReceiveFails ==
  /\ task.pc \in Waiting
  /\ task.pc \in {"answer", "length"} \/ m_msgLength > 0
  /\ ~Readable
  /\ IF m_socket = "ended" THEN UNCHANGED budget ELSE Spend("fault")
  /\ Hang

RcvMessageLength ==
  /\ task.pc \in {"answer", "length"} /\ Readable
  /\ IF First.val = "length"
       THEN /\ ReceiveData(1)
            /\ m_msgLength' = First.bits
            /\ Goto(IF task.pc = "answer" THEN "ok" ELSE "head")
            /\ UNCHANGED <<m_isOpen, m_hang, m_protoVersion, sent, got>>
       ELSE Hang
  /\ UNCHANGED budget

\* ReadField, n times.
ReadFields(n) ==
  /\ ReceiveData(n)
  /\ m_msgLength' = m_msgLength - n
  /\ UNCHANGED <<m_isOpen, m_hang, m_protoVersion, sent, got, budget>>

ReadField == m_msgLength > 0 /\ Readable /\ ReadFields(1)

IsMessageOK ==
  /\ task.pc = "ok" /\ ReadField
  /\ Goto(IF First.val = "OK" THEN "idle" ELSE "refused")

ReadHead ==
  /\ task.pc = "head" /\ ReadField
  /\ Goto(IF First.val = "BACKEND_MESSAGE" THEN "subject" ELSE "flush")

Events ==
  {"UPDATE_FILE_SIZE", "DONE_RECORDING", "QUIT_LIVETV", "LIVETV_WATCH", "LIVETV_CHAIN",
   "SIGNAL", "RECORDING_LIST_CHANGE", "SCHEDULE_CHANGE", "ASK_RECORDING",
   "CLEAR_SETTINGS_CACHE", "GENERATED_PIXMAP", "SYSTEM_EVENT"}
EventOf(s) ==
  IF s = "RECORDING_LIST_CHANGE UPDATE" THEN "RECORDING_LIST_CHANGE"
  ELSE IF s \in Events THEN s ELSE "UNKNOWN"
\* What is read behind the subject.
Behind(s) ==
  CASE s = "SIGNAL" -> "signal"
    [] s \in {"ASK_RECORDING", "RECORDING_LIST_CHANGE UPDATE"} -> "program"
    [] OTHER -> "flush"

\* Without a second field the subject is one empty word.
ReadSubject ==
  /\ task.pc = "subject"
  /\ \/ /\ ReadField
        /\ LET s == First.val IN
           task' = [pc |-> Behind(s), i |-> 1,
                    msg |-> [NewMessage EXCEPT !.event = EventOf(s),
                               !.program = IF Behind(s) = "program" THEN NewProgram ELSE None]]
     \/ /\ m_msgLength = 0
        /\ Goto("flush")
        /\ UNCHANGED <<socket, proto, sent, got, budget>>

\* RcvProgramInfo: a field that is missing or refused takes the program away.  All
\* fields that are there at once are read in one step, up to one that is refused.
NoProgram == task' = [task EXCEPT !.pc = "flush", !.msg.program = None]
ReadProgram ==
  LET fields == RcvProgramInfo(m_protoVersion)
      n == Smaller(Smaller(Len(AtOnce), m_msgLength), Len(fields) - task.i + 1)
      F(k) == fields[task.i + k - 1]
      Value(k) == ReadProgramField(F(k), AtOnce[k])
      refused == {k \in 1..n : Value(k) = {}}
      read == [f \in DOMAIN CType |->
                 LET at == {k \in 1..n : F(k) = f} IN
                 IF at = {} THEN task.msg.program[f]
                 ELSE CHOOSE x \in Value(CHOOSE k \in at : TRUE) : TRUE]
  IN
  /\ task.pc = "program"
  /\ \/ /\ m_msgLength > 0 /\ Readable
        /\ \/ /\ refused # {}
              /\ ReadFields(CHOOSE k \in refused : \A j \in refused : k <= j)
              /\ NoProgram
           \/ /\ refused = {}
              /\ ReadFields(n)
              /\ task' = [pc |-> IF task.i + n > Len(fields) THEN "flush" ELSE "program",
                          i |-> task.i + n, msg |-> [task.msg EXCEPT !.program = read]]
     \/ /\ m_msgLength = 0
        /\ NoProgram
        /\ UNCHANGED <<socket, proto, sent, got, budget>>

RcvSignalStatus ==
  /\ task.pc = "signal"
  /\ \/ /\ ReadField
        /\ task' = [task EXCEPT !.msg.signal =
                      @ \cup ({First.val} \cap {"slock", "signal", "snr", "ber", "ucb"})]
     \/ /\ m_msgLength = 0
        /\ Goto("flush")
        /\ UNCHANGED <<socket, proto, sent, got, budget>>

FlushMessage ==
  /\ task.pc = "flush" /\ m_msgLength > 0 /\ Readable
  /\ LET straight == m_buffer = <<>> /\ m_msgLength >= BufLen
         n == Smaller(m_msgLength, Len(IF straight THEN wire ELSE AtOnce))
     IN  /\ m_msgLength' = m_msgLength - n
         /\ IF straight THEN ReceiveStraight(n) ELSE ReceiveData(n)
  /\ UNCHANGED <<m_isOpen, m_hang, m_protoVersion, task, sent, got, budget>>

\* The message is returned.
Return ==
  /\ task.pc = "flush" /\ m_msgLength = 0
  /\ got' = [n |-> got.n + 1, last |-> task.msg]
  /\ task' = Task("idle", 0)
  /\ UNCHANGED <<socket, proto, sent, budget>>

----------------------------------------------------------------------------
ThreadStep ==
  \/ Open \/ ConnectAddr \/ Connect \/ Announce75 \/ Refused \/ CloseLost
  \/ (Listens /\ Listen) \/ ReceiveFails \/ RcvMessageLength \/ IsMessageOK \/ ReadHead
  \/ ReadSubject \/ ReadProgram \/ RcvSignalStatus \/ FlushMessage \/ Return

Next == Open \/ ConnectAddr \/ Connect \/ Announce75 \/ Refused \/ Close \/ CloseLost \/ Listen
        \/ ReceiveFails \/ RcvMessageLength \/ IsMessageOK \/ ReadHead \/ ReadSubject \/ ReadProgram
        \/ RcvSignalStatus \/ FlushMessage \/ Return \/ Send \/ Deliver \/ BackendCloses

\* The thread of the handler runs, the network delivers.
Spec == Init /\ [][Next]_vars /\ WF_vars(ThreadStep) /\ WF_vars(Deliver)

----------------------------------------------------------------------------
(***************************************************************************)
(* Properties                                                              *)
(***************************************************************************)
\* Types; the buffer never holds more than its length, and a message in progress
\* never claims more fields than the backend sent.
TypeOK ==
  /\ Len(m_buffer) < BufLen
  /\ m_socket \in {"none", "open", "ended"}
  /\ m_isOpen \in BOOLEAN /\ m_hang \in BOOLEAN
  /\ m_protoVersion \in {0} \cup Versions
  /\ m_socket = "open" => m_msgLength <= Len(m_buffer \o wire \o net)
  /\ got.n <= MaxSent

\* The messages that were returned are those the backend sent on this connection,
\* in this order, each with its event and signal: whatever segments they came in,
\* whatever of them was left unread, although the buffer may hold the beginning
\* of the next one; one that is cut by a failure is not returned
\* (socket.cpp:394, mythprotoevent.cpp:190).
EventsInOrder ==
  /\ got.n <= Len(sent)
  /\ got.n > 0 => /\ got.last.event = sent[got.n].event
                  /\ got.last.signal = sent[got.n].signal

\* A program that comes with an event is the one that was sent, field by field and
\* for every version of the protocol, the least and the greatest values included;
\* one that is cut short or has a field that is not a number is left out
\* (mythprotobase.cpp:419 to 1627).
ProgramDecoded ==
  got.n \in 1..Len(sent) => got.last.program = Expected[m_protoVersion][sent[got.n].level]

\* Every message is returned or its connection is lost, except one that came with
\* the message before it and is held in the buffer: Listen looks at the socket
\* only, so it waits for the next segment (socket.cpp:543).
Held == task.pc = "idle" /\ net = <<>> /\ wire = <<>> /\ m_buffer # <<>>
EventsReturned ==
  \A k \in 1..MaxSent :
    (Len(sent) >= k) ~> (got.n >= k \/ Len(sent) < k \/ ~m_isOpen \/ Held)

=============================================================================
