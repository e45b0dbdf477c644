------------------------- MODULE ProtoMonitorProofs -------------------------
(***************************************************************************)
(* Proofs about a protocol connection (ProtoMonitor) for any threads,      *)
(* versions of the backend, lengths of a reply and bounds.                 *)
(***************************************************************************)
EXTENDS ProtoMonitor, SequenceTheorems, TLAPS

----------------------------------------------------------------------------
(***************************************************************************)
(* The inductive invariant                                                 *)
(***************************************************************************)
Holding == {"connect", "version", "send", "length", "head", "list"}

\* Who holds the latch: every call between these places; at the others a call
\* that opens or closes on behalf of a command.
Latched ==
  \A t \in Threads :
    /\ task[t].pc \in Holding => latch = t
    /\ task[t].pc \in {"open", "announce", "close", "clear"} /\ InCommand(t) => latch = t
    /\ task[t].pc = "idle" => ~InCommand(t)

\* What is left to read of a head and of a list.
Counted ==
  \A t \in Threads :
    /\ task[t].pc = "head" => task[t].head > 0 /\ task[t].item = Script(t).item
    /\ task[t].pc = "list" /\ ~Script(t).rest /\ task[t].item # Script(t).item => task[t].nb > 0

\* A connection is open from the agreement on the version until it is
\* disconnected; nothing is received outside of that time.
Opened ==
  /\ m_isOpen => sock
  /\ ~m_isOpen => rx = <<>> /\ m_msgLength = 0 /\ m_msgConsumed = 0
  /\ sock /\ ~m_isOpen => \E u \in Threads : At(u, "version")
  /\ \A t \in Threads : task[t].pc \in {"connect", "version"} => ~m_isOpen
  /\ \A t \in Threads : task[t].pc = "version" => sock
  /\ \A t \in Threads : Reading(t) => m_isOpen

\* What the connection holds: a whole reply when its length is to be read next,
\* else the fields the counters leave.
Wire ==
  /\ m_msgConsumed <= m_msgLength
  /\ \A i \in 1..Len(rx) : rx[i].own
  /\ \A i \in 2..Len(rx) : rx[i].kind = "field"
  /\ \A t \in Threads : At(t, "length") =>
       /\ m_msgLength = 0 /\ m_msgConsumed = 0
       /\ rx # <<>> /\ rx[1].kind = "length" /\ Len(rx) = rx[1].n + 1
  /\ (\A t \in Threads : ~At(t, "length")) =>
       /\ Len(rx) = m_msgLength - m_msgConsumed
       /\ rx # <<>> => rx[1].kind = "field"

\* Who will announce an open connection, or close it.
Announcing ==
  m_isOpen /\ ~announced =>
    \E u \in Threads :
      At(u, "announce") \/ At(u, "close") \/ (Reading(u) /\ task[u].sent = "announce")

IInv == TypeOK /\ Latched /\ Counted /\ Opened /\ Wire /\ Announcing

----------------------------------------------------------------------------
(***************************************************************************)
(* Lemmas about the commands and the constants                             *)
(***************************************************************************)
\* What a command of the monitor reads is a script, for every version.
LEMMA MonitorScripts == \A v \in Nat : Commands(v) \subseteq Scripts
  <1>1. \A k \in Nat : Query(k) \in Scripts /\ Order(k) \in Scripts
                       /\ Marks(k) \in Scripts /\ Inputs(k) \in Scripts
    BY DEF Query, Order, Marks, Inputs, Scripts
  <1>2. \A v \in Nat : GetFreeInputs(v) \subseteq Scripts
    BY <1>1 DEF GetFreeInputs, GetFreeInputs75, GetFreeInputs79, GetFreeInputs81,
       GetFreeInputs87, GetFreeInputs89, GetFreeInputs90, GetFreeInputs91,
       GetFreeCardIdList75
  <1>3. QED
    BY <1>1, <1>2 DEF Commands, GetRecorderFromNum75, QueryFreeSpaceSummary75,
       GetSetting75, SetSetting75, QueryGenpixmap75, DeleteRecording75,
       UndeleteRecording75, StopRecording75, CancelNextRecording75, QuerySGFile75,
       GetCutList75, GetCommBreakList75, BlockShutdown75, AllowShutdown75

\* What a command of the recorder reads is a script, for every version.
LEMMA RecorderScripts == \A v \in Nat : Recorder!Commands(v) \subseteq Scripts
  <1>1. \A k \in Nat : Recorder!Proto!Query(k) \in Scripts
                       /\ Recorder!Proto!Order(k) \in Scripts
                       /\ Recorder!Proto!Inputs(k) \in Scripts
    BY DEF Recorder!Proto!Query, Recorder!Proto!Order, Recorder!Proto!Inputs, Scripts
  <1>2. \A v \in Nat : Recorder!GetFreeInputs(v) \in Scripts
    BY <1>1 DEF Recorder!GetFreeInputs, Recorder!GetFreeInputs75,
       Recorder!GetFreeInputs79, Recorder!GetFreeInputs81, Recorder!GetFreeInputs87,
       Recorder!GetFreeInputs89, Recorder!GetFreeInputs90, Recorder!GetFreeInputs91
  <1>3. QED
    BY <1>1, <1>2 DEF Recorder!Commands, Recorder!CheckChannel75,
       Recorder!GetFilePosition75, Recorder!SetLiveRecording75,
       Recorder!FinishRecording75

\* The announce is a script without a list, for every version.
LEMMA AnnounceScript == \A v \in Nat : Announce(v) \in Scripts /\ Announce(v).item = 0
BY DEF Announce, Announce75, Announce88, Order, Scripts

\* Versions are numbers.
LEMMA Versions ==
  ASSUME TypeOK
  PROVE  /\ m_protoVersion \in Nat /\ my_version \in Nat /\ backend \in Nat \ {0}
         /\ FirstTry \in Nat
BY MonitorAssumption DEF TypeOK, FirstTry, NewestVersion

\* What a call reads is a script.
LEMMA ScriptType ==
  ASSUME TypeOK, NEW t \in Threads
  PROVE  Script(t) \in Scripts
BY AnnounceScript, Versions DEF Script, TypeOK, Tasks

----------------------------------------------------------------------------
(***************************************************************************)
(* Kinds of steps                                                          *)
(***************************************************************************)
\* Only the call of t goes on.
Moves(t) == task' \in [Threads -> Tasks] /\ \A u \in Threads \ {t} : task'[u] = task[u]

\* Whoever takes or holds the latch is alone at the places that need it.
LEMMA Alone ==
  ASSUME Latched, MonitorAssumption, NEW t \in Threads, latch \in {NoThread, t}
  PROVE  \A u \in Threads \ {t} : task[u].pc \notin Holding
BY DEF Latched

\* The latch is passed on as the places of the calls need it.
LEMMA LatchedStep ==
  ASSUME TypeOK, Latched, NEW t \in Threads, Moves(t),
         latch' = latch \/ latch \in {NoThread, t},
         task'[t].pc \in Holding => latch' = t,
         task'[t].pc \in {"open", "announce", "close", "clear"}
           /\ task'[t].cmd # NoCommand => latch' = t,
         task'[t].pc = "idle" => task'[t].cmd = NoCommand
  PROVE  Latched'
<1> SUFFICES ASSUME NEW u \in Threads
             PROVE  /\ task'[u].pc \in Holding => latch' = u
                    /\ task'[u].pc \in {"open", "announce", "close", "clear"}
                         /\ task'[u].cmd # NoCommand => latch' = u
                    /\ task'[u].pc = "idle" => task'[u].cmd = NoCommand
  BY DEF Latched, InCommand
<1>1. CASE u = t
  BY <1>1
<1>2. CASE u # t
  <2>1. task'[u] = task[u]
    BY <1>2 DEF Moves
  <2>2. latch = u => latch' = u
    BY <1>2, MonitorAssumption
  <2>3. QED
    BY <2>1, <2>2 DEF Latched, InCommand
<1>3. QED
  BY <1>1, <1>2

\* A step that leaves the connection as it is.
LEMMA QuietStep ==
  ASSUME IInv, NEW t \in Threads, Moves(t),
         task[t].pc \in {"idle", "called", "open", "clear"},
         task'[t].pc \notin {"version", "length", "head", "list"},
         task'[t].pc = "connect" => ~m_isOpen,
         UNCHANGED <<stream, m_isOpen, m_protoVersion, announced>>
  PROVE  Counted' /\ Opened' /\ Wire' /\ Announcing'
<1> USE DEF IInv
<1>1. \A u \in Threads \ {t} : task'[u] = task[u]
  BY DEF Moves
<1>2. UNCHANGED <<sock, rx, m_msgLength, m_msgConsumed, m_isOpen, m_protoVersion, announced>>
  BY DEF stream
<1>3. Counted'
  BY <1>1, <1>2 DEF Counted, Script
<1>4. Opened'
  <2>1. \A u \in Threads : At(u, "version") => u # t
    BY DEF At
  <2>2. QED
    BY <1>1, <1>2, <2>1 DEF Opened, At, Reading
<1>5. Wire'
  <2>1. \A u \in Threads : At(u, "length")' <=> At(u, "length")
    BY <1>1 DEF At
  <2>2. QED
    BY <1>2, <2>1 DEF Wire
<1>6. Announcing'
  <2>1. \A u \in Threads : At(u, "announce") \/ At(u, "close") \/ Reading(u) => u # t
    BY DEF At, Reading
  <2>2. QED
    BY <1>1, <1>2, <2>1 DEF Announcing, At, Reading
<1>7. QED
  BY <1>3, <1>4, <1>5, <1>6

\* A step that disconnects, by the only call that may read.
LEMMA DisconnectStep ==
  ASSUME IInv, NEW t \in Threads, Moves(t), latch \in {NoThread, t}, Disconnect,
         task'[t].pc \notin {"version", "length", "head", "list"}
  PROVE  Counted' /\ Opened' /\ Wire' /\ Announcing'
<1> USE DEF IInv
<1>1. \A u \in Threads : task'[u].pc \notin {"version", "length", "head", "list"}
  BY Alone, MonitorAssumption DEF Moves, Holding
<1>2. sock' = FALSE /\ rx' = <<>> /\ m_msgLength' = 0 /\ m_msgConsumed' = 0
      /\ m_isOpen' = FALSE
  BY DEF Disconnect
<1>3. Counted'
  BY <1>1 DEF Counted
<1>4. Opened'
  BY <1>1, <1>2 DEF Opened, Reading
<1>5. Wire'
  BY <1>1, <1>2 DEF Wire, At
<1>6. Announcing'
  BY <1>2 DEF Announcing
<1>7. QED
  BY <1>3, <1>4, <1>5, <1>6

\* The first k words are taken from the connection.
LEMMA DropFacts ==
  ASSUME TypeOK, NEW k \in Nat, k <= Len(rx)
  PROVE  /\ Drop(k) \in Seq(Words)
         /\ Len(Drop(k)) = Len(rx) - k
         /\ \A i \in 1..(Len(rx) - k) : i + k \in 1..Len(rx) /\ Drop(k)[i] = rx[i + k]
<1>1. rx \in Seq(Words) /\ Len(rx) \in Nat
  BY LenProperties DEF TypeOK
<1>2. \A i \in (k + 1)..Len(rx) : i \in 1..Len(rx)
  BY <1>1
<1>3. QED
  BY <1>1, <1>2, SubSeqProperties DEF Drop

\* What Consume does to the counters and the words.
LEMMA ConsumeFacts ==
  ASSUME TypeOK, Wire, NEW k \in Nat, k <= Left, Consume(k)
  PROVE  /\ UNCHANGED sock
         /\ m_msgLength' \in Nat /\ m_msgConsumed' \in Nat
         /\ m_msgConsumed' <= m_msgLength'
         /\ m_msgLength' - m_msgConsumed' = Left - k
         /\ rx' \in Seq(Words)
         /\ k <= Len(rx)
         /\ Len(rx') = Len(rx) - k
         /\ \A i \in 1..Len(rx') : i + k \in 1..Len(rx) /\ rx'[i] = rx[i + k]
<1>1. m_msgLength \in Nat /\ m_msgConsumed \in Nat /\ m_msgConsumed <= m_msgLength
  BY DEF TypeOK, Wire
<1>2. Len(rx) \in Nat /\ k <= Len(rx) /\ rx' = Drop(k)
  BY LenProperties DEF TypeOK, Consume
<1>3. UNCHANGED sock
      /\ m_msgLength' = (IF k < Left THEN m_msgLength ELSE 0)
      /\ m_msgConsumed' = (IF k < Left THEN m_msgConsumed + k ELSE 0)
  BY DEF Consume
<1>4. /\ m_msgLength' \in Nat /\ m_msgConsumed' \in Nat
      /\ m_msgConsumed' <= m_msgLength'
      /\ m_msgLength' - m_msgConsumed' = Left - k
  BY <1>1, <1>3 DEF Left
<1>5. QED
  BY <1>2, <1>3, <1>4, DropFacts

\* A step that reads k fields (or none) of the message and stays connected.
LEMMA ReadStep ==
  ASSUME IInv, NEW t \in Threads, Moves(t), task[t].pc \in {"head", "list"},
         NEW k \in Nat, k <= Left,
         m_msgLength' \in Nat, m_msgConsumed' \in Nat,
         m_msgConsumed' <= m_msgLength',
         m_msgLength' - m_msgConsumed' = Left - k,
         rx' \in Seq(Words),
         Len(rx') = Len(rx) - k,
         \A i \in 1..Len(rx') : i + k \in 1..Len(rx) /\ rx'[i] = rx[i + k],
         UNCHANGED <<sock, m_isOpen>>,
         task'[t].pc \notin {"connect", "version", "length"}
  PROVE  Opened' /\ Wire' /\ (\A u \in Threads \ {t} : task'[u].pc \notin Holding)
<1> USE DEF IInv
<1>1. latch = t
  BY DEF Latched, Holding
<1>2. \A u \in Threads \ {t} : task[u].pc \notin Holding /\ task'[u] = task[u]
  BY <1>1, Alone, MonitorAssumption DEF Moves
<1>3. m_isOpen /\ sock
  BY DEF Opened, Reading
<1>4. Opened'
  <2>1. \A u \in Threads : task'[u].pc \notin {"connect", "version"}
    BY <1>2 DEF Holding
  <2>2. QED
    BY <1>3, <2>1 DEF Opened
<1>5. Wire'
  <2>1. \A u \in Threads : ~At(u, "length") /\ ~At(u, "length")'
    BY <1>2 DEF At, Holding
  <2>2. Len(rx) = m_msgLength - m_msgConsumed /\ (rx # <<>> => rx[1].kind = "field")
    BY <2>1 DEF Wire
  <2>3. Len(rx') = m_msgLength' - m_msgConsumed'
    BY <2>2 DEF Left
  <2>4. \A i \in 1..Len(rx) : rx[i].own /\ rx[i].kind = "field"
    <3>1. Len(rx) \in Nat /\ rx \in Seq(Words)
      BY LenProperties DEF TypeOK
    <3>2. rx # <<>> \/ Len(rx) = 0
      BY <3>1
    <3>3. \A i \in 1..Len(rx) : i = 1 \/ i \in 2..Len(rx)
      BY <3>1
    <3>4. QED
      BY <2>2, <3>1, <3>2, <3>3 DEF Wire
  <2>5. \A i \in 1..Len(rx') : rx'[i].own /\ rx'[i].kind = "field"
    BY <2>4
  <2>6. Len(rx') \in Nat
    BY LenProperties
  <2>7. (\A i \in 2..Len(rx') : rx'[i].kind = "field")
        /\ (rx' # <<>> => rx'[1].kind = "field")
    <3>1. \A i \in 2..Len(rx') : i \in 1..Len(rx')
      BY <2>6
    <3>2. rx' # <<>> => 1 \in 1..Len(rx')
      BY <2>6
    <3>3. QED
      BY <2>5, <3>1, <3>2
  <2>8. QED
    BY <2>1, <2>3, <2>5, <2>7 DEF Wire
<1>6. QED
  BY <1>2, <1>4, <1>5

\* While a call reads, the script it follows stays the same.
LEMMA ScriptKept ==
  ASSUME NEW t \in Threads, task'[t].sent = task[t].sent, task'[t].cmd = task[t].cmd,
         UNCHANGED m_protoVersion
  PROVE  Script(t)' = Script(t)
BY DEF Script

----------------------------------------------------------------------------
(***************************************************************************)
(* The calls of the application, and the places without the latch          *)
(***************************************************************************)
\* A call that returns.
LEMMA LeaveFacts ==
  ASSUME TypeOK, NEW t \in Threads, Leave(t)
  PROVE  /\ Moves(t) /\ task'[t].pc = "idle" /\ task'[t].cmd = NoCommand
         /\ latch' \in Threads \cup {NoThread}
         /\ latch' = latch \/ latch = t
<1>1. NoCommand \in Scripts
  BY DEF NoCommand, Scripts
<1>2. Idle \in Tasks /\ Idle.pc = "idle" /\ Idle.cmd = NoCommand
  BY <1>1 DEF Idle, Tasks, Places
<1>3. QED
  BY <1>2 DEF TypeOK, Leave, Moves

\* A call that goes to another place.
LEMMA GotoFacts ==
  ASSUME TypeOK, NEW t \in Threads, NEW p \in Places, Goto(t, p)
  PROVE  /\ Moves(t)
         /\ task'[t].pc = p /\ task'[t].cmd = task[t].cmd /\ task'[t].sent = task[t].sent
         /\ task'[t].head = task[t].head /\ task'[t].item = task[t].item
         /\ task'[t].nb = task[t].nb /\ task'[t].tmp_ver = task[t].tmp_ver
BY DEF TypeOK, Goto, Moves, Tasks

\* A call whose record is replaced.
LEMMA SetFacts ==
  ASSUME TypeOK, NEW t \in Threads, NEW r \in Tasks, task' = [task EXCEPT ![t] = r]
  PROVE  Moves(t) /\ task'[t] = r
BY DEF TypeOK, Moves

\* A call that tries a version.
LEMMA TryFacts ==
  ASSUME TypeOK, NEW t \in Threads, NEW v \in Nat,
         task' = [task EXCEPT ![t].pc = "connect", ![t].tmp_ver = v]
  PROVE  Moves(t) /\ task'[t].pc = "connect"
<1>1. \A u \in Threads : task[u] \in Tasks
  BY DEF TypeOK
<1>2. task'[t] = [task[t] EXCEPT !.pc = "connect", !.tmp_ver = v]
  BY DEF TypeOK
<1>3. task'[t] \in Tasks /\ task'[t].pc = "connect"
  <2>1. \A r \in Tasks : /\ [r EXCEPT !.pc = "connect", !.tmp_ver = v] \in Tasks
                         /\ [r EXCEPT !.pc = "connect", !.tmp_ver = v].pc = "connect"
    BY DEF Tasks, Places
  <2>2. QED
    BY <1>1, <1>2, <2>1
<1>4. QED
  BY <1>1, <1>3 DEF TypeOK, Moves

LEMMA CallKeeps ==
  ASSUME IInv, NEW t \in Threads, Call(t)
  PROVE  IInv'
<1> USE DEF IInv
<1>1. UNCHANGED <<latch, stream, status, my_version, backend>>
  BY DEF Call
<1>2. UNCHANGED <<sock, rx, m_msgLength, m_msgConsumed, m_isOpen, m_hang, m_tainted,
                  m_protoVersion, m_protoError, announced>>
  BY <1>1 DEF stream, status
<1>3. PICK c \in Commands(m_protoVersion) \cup Recorder!Commands(m_protoVersion) :
        task' = [task EXCEPT ![t].pc = "called", ![t].cmd = c]
  BY DEF Call
<1>4. c \in Scripts
  BY Versions, MonitorScripts, RecorderScripts
<1>5. Moves(t) /\ task'[t].pc = "called"
  <2>1. PICK r : r = [task[t] EXCEPT !.pc = "called", !.cmd = c]
    OBVIOUS
  <2>2. task[t] \in Tasks
    BY DEF TypeOK
  <2>3. r \in Tasks /\ r.pc = "called"
    BY <1>4, <2>1, <2>2 DEF Tasks, Places
  <2>4. task' = [task EXCEPT ![t] = r]
    BY <1>3, <2>1
  <2>5. QED
    BY <2>3, <2>4, SetFacts
<1>6. TypeOK'
  BY <1>1, <1>2, <1>5 DEF TypeOK, Moves
<1>7. Latched'
  BY <1>1, <1>5, LatchedStep DEF Holding
<1>8. Counted' /\ Opened' /\ Wire' /\ Announcing'
  BY <1>1, <1>2, <1>5, QuietStep DEF Call, At
<1>9. QED
  BY <1>6, <1>7, <1>8

LEMMA CallOpenKeeps ==
  ASSUME IInv, NEW t \in Threads, CallOpen(t) \/ CallClose(t)
  PROVE  IInv'
<1> USE DEF IInv
<1>1. UNCHANGED <<latch, stream, status, my_version, backend>>
  BY DEF CallOpen, CallClose
<1>2. UNCHANGED <<sock, rx, m_msgLength, m_msgConsumed, m_isOpen, m_hang, m_tainted,
                  m_protoVersion, m_protoError, announced>>
  BY <1>1 DEF stream, status
<1>3. task[t].pc = "idle" /\ task[t].cmd = NoCommand
  BY DEF CallOpen, CallClose, At, Latched, InCommand
<1>4. Moves(t) /\ task'[t].pc \in {"open", "close"} /\ task'[t].cmd = NoCommand
  BY <1>3, GotoFacts DEF CallOpen, CallClose, Places
<1>5. TypeOK'
  BY <1>1, <1>2, <1>4 DEF TypeOK, Moves
<1>6. Latched'
  BY <1>1, <1>4, LatchedStep DEF Holding
<1>7. Counted' /\ Opened' /\ Wire' /\ Announcing'
  BY <1>1, <1>2, <1>3, <1>4, QuietStep
<1>8. QED
  BY <1>5, <1>6, <1>7

LEMMA CommandEnterKeeps ==
  ASSUME IInv, NEW t \in Threads, CommandEnter(t)
  PROVE  IInv'
<1> USE DEF IInv
<1>1. UNCHANGED <<stream, status, my_version, backend>> /\ latch = NoThread
  BY DEF CommandEnter
<1>2. UNCHANGED <<sock, rx, m_msgLength, m_msgConsumed, m_isOpen, m_hang, m_tainted,
                  m_protoVersion, m_protoError, announced>>
  BY <1>1 DEF stream, status
<1>3. /\ Moves(t)
      /\ \/ task'[t].pc \in {"open", "send"} /\ latch' = t
         \/ task'[t].pc = "idle" /\ task'[t].cmd = NoCommand
      /\ latch' \in Threads \cup {NoThread}
  BY GotoFacts, LeaveFacts DEF CommandEnter, Places
<1>4. TypeOK'
  BY <1>1, <1>2, <1>3 DEF TypeOK, Moves
<1>5. Latched'
  BY <1>1, <1>3, LatchedStep DEF Holding
<1>6. Counted' /\ Opened' /\ Wire' /\ Announcing'
  BY <1>1, <1>2, <1>3, QuietStep DEF CommandEnter, At
<1>7. QED
  BY <1>4, <1>5, <1>6

LEMMA CleanHangingKeeps ==
  ASSUME IInv, NEW t \in Threads, CleanHanging(t)
  PROVE  IInv'
<1> USE DEF IInv
<1>1. /\ UNCHANGED <<stream, m_isOpen, m_protoVersion, m_protoError, announced,
                     my_version, backend>>
      /\ m_tainted' = FALSE /\ m_hang' = FALSE
  BY DEF CleanHanging
<1>2. UNCHANGED <<sock, rx, m_msgLength, m_msgConsumed>>
  BY <1>1 DEF stream
<1>3. /\ Moves(t) /\ task'[t].pc = "idle" /\ task'[t].cmd = NoCommand
      /\ latch' \in Threads \cup {NoThread} /\ (latch' = latch \/ latch = t)
  BY LeaveFacts DEF CleanHanging
<1>4. TypeOK'
  BY <1>1, <1>2, <1>3 DEF TypeOK, Moves
<1>5. Latched'
  BY <1>3, LatchedStep DEF Holding
<1>6. Counted' /\ Opened' /\ Wire' /\ Announcing'
  BY <1>1, <1>3, QuietStep DEF CleanHanging, At
<1>7. QED
  BY <1>4, <1>5, <1>6

----------------------------------------------------------------------------
(***************************************************************************)
(* The steps that disconnect                                               *)
(***************************************************************************)
\* The types of the connection after it was disconnected.
LEMMA DisconnectTypes ==
  ASSUME Disconnect
  PROVE  /\ sock' \in BOOLEAN /\ rx' \in Seq(Words)
         /\ m_msgLength' \in Nat /\ m_msgConsumed' \in Nat
         /\ m_isOpen' \in BOOLEAN /\ announced' \in BOOLEAN
BY EmptySeq DEF Disconnect

\* What a failed command or announce leaves of the call.
LEMMA FailFacts ==
  ASSUME IInv, NEW t \in Threads, NEW sent \in {"none", "announce", "command"},
         Fail(t, sent), latch \in {NoThread, t}
  PROVE  /\ Moves(t) /\ task'[t].pc \in {"idle", "close"}
         /\ latch' \in Threads \cup {NoThread}
         /\ sent = "announce" => task'[t].pc = "close"
         /\ Latched'
<1> USE DEF IInv
<1>1. CASE sent = "announce"
  <2>1. Moves(t) /\ task'[t].pc = "close" /\ task'[t].cmd = task[t].cmd
    BY <1>1, GotoFacts DEF Fail, Places
  <2>2. latch' = IF InCommand(t) THEN t ELSE NoThread
    BY <1>1 DEF Fail
  <2>3. Latched'
    BY <2>1, <2>2, LatchedStep DEF Holding, InCommand
  <2>4. QED
    BY <2>1, <2>2, <2>3
<1>2. CASE sent # "announce"
  <2>1. Leave(t)
    BY <1>2 DEF Fail
  <2>2. QED
    BY <1>2, <2>1, LeaveFacts, LatchedStep DEF Holding
<1>3. QED
  BY <1>1, <1>2

\* What a connection that cannot be opened leaves.
LEMMA OpenFailsFacts ==
  ASSUME IInv, NEW t \in Threads, task[t].pc \in {"connect", "version"},
         NEW error \in {"NO_ERROR", "SERVER_UNREACHABLE", "SOCKET_ERROR", "UNKNOWN_VERSION"},
         OpenFails(t, error), m_hang' \in BOOLEAN, m_tainted' \in BOOLEAN,
         UNCHANGED <<my_version, backend>>
  PROVE  IInv'
<1> USE DEF IInv
<1>1. latch = t
  BY DEF Latched, Holding
<1>2. /\ Moves(t) /\ task'[t].pc = "idle" /\ task'[t].cmd = NoCommand
      /\ latch' \in Threads \cup {NoThread}
  BY LeaveFacts DEF OpenFails
<1>3. Disconnect /\ m_protoVersion' = 0 /\ m_protoError' = error
  BY DEF OpenFails
<1>4. TypeOK'
  BY <1>2, <1>3, DisconnectTypes DEF TypeOK, Moves
<1>5. Latched'
  BY <1>1, <1>2, LatchedStep DEF Holding
<1>6. Counted' /\ Opened' /\ Wire' /\ Announcing'
  BY <1>1, <1>2, <1>3, DisconnectStep
<1>7. QED
  BY <1>4, <1>5, <1>6

LEMMA OpenFailsKeeps ==
  ASSUME IInv, NEW t \in Threads, UnknownVersion(t) \/ Unreachable(t) \/ VersionFailed(t)
  PROVE  IInv'
<1>1. m_hang \in BOOLEAN /\ m_tainted \in BOOLEAN
  BY DEF IInv, TypeOK
<1>2. CASE UnknownVersion(t)
  BY <1>1, <1>2, OpenFailsFacts DEF UnknownVersion, At
<1>3. CASE Unreachable(t)
  BY <1>1, <1>3, OpenFailsFacts DEF Unreachable, At
<1>4. CASE VersionFailed(t)
  BY <1>1, <1>4, OpenFailsFacts DEF VersionFailed, At
<1>5. QED
  BY <1>2, <1>3, <1>4

\* A read or a write that failed, in a call that holds the latch or takes it.
LEMMA HangFacts ==
  ASSUME IInv, NEW t \in Threads, latch \in {NoThread, t}, HangException,
         Moves(t), task'[t].pc \in {"idle", "close"},
         latch' \in Threads \cup {NoThread}, Latched',
         UNCHANGED <<my_version, backend>>
  PROVE  IInv'
<1> USE DEF IInv
<1>1. Disconnect /\ m_hang' = TRUE /\ m_tainted' = TRUE
      /\ UNCHANGED <<m_protoVersion, m_protoError>>
  BY DEF HangException
<1>2. TypeOK'
  BY <1>1, DisconnectTypes DEF TypeOK, Moves
<1>3. Counted' /\ Opened' /\ Wire' /\ Announcing'
  BY <1>1, DisconnectStep
<1>4. QED
  BY <1>2, <1>3

LEMMA SendFailedKeeps ==
  ASSUME IInv, NEW t \in Threads, SendFailed(t)
  PROVE  IInv'
<1>1. latch \in {NoThread, t}
  BY DEF IInv, Latched, Holding, SendFailed, AtSend, At
<1>2. PICK sent \in {"announce", "command"} : Fail(t, sent)
  BY DEF SendFailed
<1>3. QED
  BY <1>1, <1>2, FailFacts, HangFacts DEF SendFailed

LEMMA ReadFailedKeeps ==
  ASSUME IInv, NEW t \in Threads, RcvLengthFailed(t) \/ ReadFailed(t)
  PROVE  IInv'
<1>1. task[t].pc \in {"length", "head", "list"}
  BY DEF RcvLengthFailed, ReadFailed, At
<1>2. latch = t /\ task[t].sent \in {"none", "announce", "command"}
  BY <1>1 DEF IInv, Latched, Holding, TypeOK, Tasks
<1>3. HangException /\ UNCHANGED <<my_version, backend>>
  BY DEF RcvLengthFailed, ReadFailed
<1>4. CASE Fail(t, task[t].sent)
  BY <1>2, <1>3, <1>4, FailFacts, HangFacts
<1>5. CASE Leave(t)
  <2>1. /\ Moves(t) /\ task'[t].pc = "idle" /\ task'[t].cmd = NoCommand
        /\ latch' \in Threads \cup {NoThread}
    BY <1>5, LeaveFacts DEF IInv
  <2>2. Latched'
    BY <1>2, <2>1, LatchedStep DEF Holding, IInv
  <2>3. QED
    BY <1>2, <1>3, <2>1, <2>2, HangFacts
<1>6. QED
  BY <1>4, <1>5 DEF RcvLengthFailed, ReadFailed

LEMMA CloseKeeps ==
  ASSUME IInv, NEW t \in Threads, Close(t)
  PROVE  IInv'
<1> USE DEF IInv
<1>1. task[t].pc = "close" /\ latch \in {NoThread, t} /\ CloseConnection
      /\ UNCHANGED <<latch, m_protoVersion, m_protoError, my_version, backend>>
  BY DEF Close, At
<1>2. Disconnect /\ m_hang' \in BOOLEAN /\ m_tainted' \in BOOLEAN
  BY <1>1 DEF CloseConnection, TypeOK
<1>3. Moves(t) /\ task'[t].pc = "clear" /\ task'[t].cmd = task[t].cmd
  BY GotoFacts DEF Close, Places
<1>4. TypeOK'
  BY <1>1, <1>2, <1>3, DisconnectTypes DEF TypeOK, Moves
<1>5. Latched'
  <2>1. task[t].cmd # NoCommand => latch = t
    BY <1>1 DEF Latched, InCommand
  <2>2. QED
    BY <1>1, <1>3, <2>1, LatchedStep DEF Holding
<1>6. Counted' /\ Opened' /\ Wire' /\ Announcing'
  BY <1>1, <1>2, <1>3, DisconnectStep
<1>7. QED
  BY <1>4, <1>5, <1>6

LEMMA OpenBeginKeeps ==
  ASSUME IInv, NEW t \in Threads, OpenBegin(t)
  PROVE  IInv'
<1> USE DEF IInv
<1>1. task[t].pc = "open" /\ latch \in {NoThread, t} /\ latch' = t
      /\ m_protoError' = "NO_ERROR" /\ UNCHANGED <<m_protoVersion, my_version, backend>>
  BY DEF OpenBegin, At
<1>2. Moves(t) /\ task'[t].pc = "connect"
  <2>1. PICK v \in Nat : task' = [task EXCEPT ![t].pc = "connect", ![t].tmp_ver = v]
    BY Versions DEF OpenBegin
  <2>2. QED
    BY <2>1, TryFacts
<1>3. Latched'
  BY <1>1, <1>2, LatchedStep DEF Holding
<1>4. CASE m_isOpen
  <2>1. CloseConnection
    BY <1>4 DEF OpenBegin
  <2>2. Disconnect /\ m_hang' \in BOOLEAN /\ m_tainted' \in BOOLEAN
    BY <2>1 DEF CloseConnection, TypeOK
  <2>3. TypeOK'
    BY <1>1, <1>2, <2>2, DisconnectTypes DEF TypeOK, Moves
  <2>4. Counted' /\ Opened' /\ Wire' /\ Announcing'
    BY <1>1, <1>2, <2>2, DisconnectStep
  <2>5. QED
    BY <1>3, <2>3, <2>4
<1>5. CASE ~m_isOpen
  <2>1. UNCHANGED <<stream, m_isOpen, m_hang, m_tainted, announced>>
    BY <1>5 DEF OpenBegin
  <2>2. UNCHANGED <<sock, rx, m_msgLength, m_msgConsumed>>
    BY <2>1 DEF stream
  <2>3. TypeOK'
    BY <1>1, <1>2, <2>1, <2>2 DEF TypeOK, Moves
  <2>4. Counted' /\ Opened' /\ Wire' /\ Announcing'
    BY <1>1, <1>2, <1>5, <2>1, QuietStep
  <2>5. QED
    BY <1>3, <2>3, <2>4
<1>6. QED
  BY <1>4, <1>5

----------------------------------------------------------------------------
(***************************************************************************)
(* Opening                                                                 *)
(***************************************************************************)
LEMMA ConnectKeeps ==
  ASSUME IInv, NEW t \in Threads, Connect(t)
  PROVE  IInv'
<1> USE DEF IInv
<1>1. /\ task[t].pc = "connect" /\ sock' = TRUE /\ m_hang' = FALSE
      /\ UNCHANGED <<latch, rx, m_msgLength, m_msgConsumed, m_isOpen, m_tainted,
                     m_protoVersion, m_protoError, announced, my_version, backend>>
  BY DEF Connect, At
<1>2. Moves(t) /\ task'[t].pc = "version"
  BY GotoFacts DEF Connect, Places
<1>3. latch = t /\ ~m_isOpen
  BY <1>1 DEF Latched, Holding, Opened
<1>4. \A u \in Threads \ {t} : task'[u] = task[u] /\ task[u].pc \notin Holding
  BY <1>2, <1>3, Alone, MonitorAssumption DEF Moves
<1>5. TypeOK'
  BY <1>1, <1>2 DEF TypeOK, Moves
<1>6. Latched'
  BY <1>1, <1>2, <1>3, LatchedStep
<1>7. \A u \in Threads : task'[u].pc \notin {"length", "head", "list"}
                         /\ ~At(u, "length")
  BY <1>1, <1>2, <1>4 DEF Holding, At
<1>8. Counted'
  BY <1>7 DEF Counted
<1>9. Opened'
  BY <1>1, <1>2, <1>3, <1>7 DEF Opened, At, Reading
<1>10. Wire'
  BY <1>1, <1>7 DEF Wire, At
<1>11. Announcing'
  BY <1>1, <1>3 DEF Announcing
<1>12. QED
  BY <1>5, <1>6, <1>8, <1>9, <1>10, <1>11

LEMMA VersionRejectedKeeps ==
  ASSUME IInv, NEW t \in Threads, VersionRejected(t)
  PROVE  IInv'
<1> USE DEF IInv
<1>1. /\ task[t].pc = "version" /\ sock' = FALSE
      /\ UNCHANGED <<latch, rx, m_msgLength, m_msgConsumed, status, my_version, backend>>
  BY DEF VersionRejected, At
<1>2. UNCHANGED <<m_isOpen, m_hang, m_tainted, m_protoVersion, m_protoError, announced>>
  BY <1>1 DEF status
<1>3. Moves(t) /\ task'[t].pc = "connect"
  <2>1. backend \in Nat
    BY Versions
  <2>2. PICK v \in Nat : task' = [task EXCEPT ![t].pc = "connect", ![t].tmp_ver = v]
    BY <2>1 DEF VersionRejected
  <2>3. QED
    BY <2>2, TryFacts
<1>4. latch = t /\ ~m_isOpen
  BY <1>1 DEF Latched, Holding, Opened
<1>5. \A u \in Threads \ {t} : task'[u] = task[u] /\ task[u].pc \notin Holding
  BY <1>3, <1>4, Alone, MonitorAssumption DEF Moves
<1>6. TypeOK'
  BY <1>1, <1>2, <1>3 DEF TypeOK, Moves
<1>7. Latched'
  BY <1>1, <1>3, <1>4, LatchedStep
<1>8. \A u \in Threads : task'[u].pc \notin {"length", "head", "list"}
                         /\ ~At(u, "length")
  BY <1>1, <1>3, <1>5 DEF Holding, At
<1>9. Counted'
  BY <1>8 DEF Counted
<1>10. Opened'
  <2>1. \A u \in Threads : task'[u].pc # "version"
    BY <1>3, <1>5 DEF Holding
  <2>2. QED
    BY <1>1, <1>2, <1>4, <1>8, <2>1 DEF Opened, Reading
<1>11. Wire'
  BY <1>1, <1>8 DEF Wire, At
<1>12. Announcing'
  BY <1>2, <1>4 DEF Announcing
<1>13. QED
  BY <1>6, <1>7, <1>9, <1>10, <1>11, <1>12

LEMMA VersionAcceptedKeeps ==
  ASSUME IInv, NEW t \in Threads, VersionAccepted(t)
  PROVE  IInv'
<1> USE DEF IInv
<1>1. /\ task[t].pc = "version" /\ m_isOpen' = TRUE
      /\ m_protoVersion' = backend /\ my_version' = backend
      /\ latch' = IF InCommand(t) THEN t ELSE NoThread
      /\ UNCHANGED <<stream, m_hang, m_tainted, m_protoError, announced, backend>>
  BY DEF VersionAccepted, At
<1>2. UNCHANGED <<sock, rx, m_msgLength, m_msgConsumed>>
  BY <1>1 DEF stream
<1>3. Moves(t) /\ task'[t].pc = "announce" /\ task'[t].cmd = task[t].cmd
  BY GotoFacts DEF VersionAccepted, Places
<1>4. latch = t /\ ~m_isOpen
  BY <1>1 DEF Latched, Holding, Opened
<1>5. \A u \in Threads \ {t} : task'[u] = task[u] /\ task[u].pc \notin Holding
  BY <1>3, <1>4, Alone, MonitorAssumption DEF Moves
<1>6. TypeOK'
  BY <1>1, <1>2, <1>3 DEF TypeOK, Moves
<1>7. Latched'
  BY <1>1, <1>3, <1>4, LatchedStep DEF Holding, InCommand
<1>8. \A u \in Threads : task'[u].pc \notin Holding /\ ~At(u, "length")
  BY <1>1, <1>3, <1>5 DEF Holding, At
<1>9. Counted'
  BY <1>8 DEF Counted, Holding
<1>10. Opened'
  <2>1. sock
    BY <1>1 DEF Opened
  <2>2. QED
    BY <1>1, <1>2, <1>8, <2>1 DEF Opened, Reading, Holding
<1>11. Wire'
  BY <1>2, <1>8 DEF Wire, At, Holding
<1>12. Announcing'
  BY <1>3 DEF Announcing, At
<1>13. QED
  BY <1>6, <1>7, <1>9, <1>10, <1>11, <1>12

----------------------------------------------------------------------------
(***************************************************************************)
(* Sending and reading                                                     *)
(***************************************************************************)
\* A reply is its length and as many fields.
LEMMA ReplyFacts ==
  ASSUME NEW n \in Nat
  PROVE  /\ Reply(n) \in Seq(Words) /\ Len(Reply(n)) = n + 1
         /\ Reply(n)[1] = Header(n)
         /\ \A i \in 2..(n + 1) : Reply(n)[i] = Field
<1> DEFINE fields == [i \in 1..n |-> Field]
<1>1. Header(n) \in Words /\ Field \in Words
  BY DEF Header, Field, Words
<1>2. fields \in Seq(Words) /\ Len(fields) = n
  BY <1>1, SeqDef
<1>3. <<Header(n)>> \in Seq(Words) /\ Len(<<Header(n)>>) = 1 /\ <<Header(n)>>[1] = Header(n)
  BY <1>1
<1>4. \A i \in 1..n : fields[i] = Field
  OBVIOUS
<1>5. Reply(n) = <<Header(n)>> \o fields
  BY DEF Reply
<1> HIDE DEF fields
<1>6. Reply(n) \in Seq(Words) /\ Len(Reply(n)) = n + 1
  BY <1>2, <1>3, <1>5, ConcatProperties
<1>7. \A i \in 1..(1 + n) : Reply(n)[i] = IF i <= 1 THEN <<Header(n)>>[i] ELSE fields[i - 1]
  BY <1>2, <1>3, <1>5, ConcatProperties
<1>8. Reply(n)[1] = Header(n)
  BY <1>3, <1>7
<1>9. \A i \in 2..(n + 1) : Reply(n)[i] = Field
  <2> TAKE i \in 2..(n + 1)
  <2>1. i \in 1..(1 + n) /\ ~(i <= 1) /\ i - 1 \in 1..n
    OBVIOUS
  <2>2. QED
    BY <1>4, <1>7, <2>1
<1>10. QED
  BY <1>6, <1>8, <1>9

LEMMA SendCommandKeeps ==
  ASSUME IInv, NEW t \in Threads, SendCommand(t)
  PROVE  IInv'
<1> USE DEF IInv
<1>1. /\ task[t].pc \in {"announce", "send"} /\ latch \in {NoThread, t} /\ sock
      /\ m_msgLength' = 0 /\ m_msgConsumed' = 0 /\ latch' = t
      /\ UNCHANGED <<sock, status, my_version, backend>>
  BY DEF SendCommand, AtSend, At, Latched, Holding
<1>2. UNCHANGED <<m_isOpen, m_hang, m_tainted, m_protoVersion, m_protoError, announced>>
  BY <1>1 DEF status
<1>3. /\ Moves(t) /\ task'[t].pc = "length"
      /\ task'[t].sent = IF task[t].pc = "send" THEN "command" ELSE "announce"
  <2>1. PICK sent \in {"announce", "command"} :
          /\ sent = (IF task[t].pc = "send" THEN "command" ELSE "announce")
          /\ task' = [task EXCEPT ![t].pc = "length", ![t].sent = sent]
    BY DEF SendCommand, At
  <2>2. PICK r : r = [task[t] EXCEPT !.pc = "length", !.sent = sent]
    OBVIOUS
  <2>3. task[t] \in Tasks
    BY DEF TypeOK
  <2>4. r \in Tasks /\ r.pc = "length" /\ r.sent = sent
    BY <2>2, <2>3 DEF Tasks, Places
  <2>5. task' = [task EXCEPT ![t] = r]
    BY <2>1, <2>2
  <2>6. QED
    BY <2>1, <2>4, <2>5, SetFacts
<1>4. \A u \in Threads \ {t} : task'[u] = task[u] /\ task[u].pc \notin Holding
  BY <1>1, <1>3, Alone, MonitorAssumption DEF Moves
<1>5. m_isOpen
  BY <1>1, <1>4 DEF Opened, At, Holding
<1>6. Len(rx) = Left
  BY <1>1, <1>4 DEF Wire, At, Holding, Left
<1>7. PICK n \in Nat : rx' = Reply(n)
  <2>1. PICK n \in Lengths :
          rx' = [i \in 1..(Len(rx) - Left) |-> [Drop(Left)[i] EXCEPT !.own = FALSE]]
                  \o Reply(n)
    BY DEF SendCommand
  <2>2. n \in Nat /\ Reply(n) \in Seq(Words)
    BY MonitorAssumption, ReplyFacts
  <2>3. Left \in Nat
    BY <1>6, LenProperties DEF TypeOK
  <2>4. [i \in 1..(Len(rx) - Left) |-> [Drop(Left)[i] EXCEPT !.own = FALSE]] = <<>>
    <3> DEFINE F(i) == [Drop(Left)[i] EXCEPT !.own = FALSE]
    <3>1. Len(rx) - Left = 0
      BY <1>6, <2>3
    <3> HIDE DEF F
    <3>2. [i \in 1..(Len(rx) - Left) |-> F(i)] = <<>>
      BY <3>1
    <3>3. QED
      BY <3>2 DEF F
  <2>5. QED
    BY <2>1, <2>2, <2>4, ConcatEmptySeq
<1>8. TypeOK'
  BY <1>1, <1>2, <1>3, <1>7, ReplyFacts DEF TypeOK, Moves
<1>9. Latched'
  BY <1>1, <1>3, LatchedStep
<1>10. Counted'
  BY <1>3, <1>4 DEF Counted, Holding
<1>11. Opened'
  <2>1. \A u \in Threads : task'[u].pc \notin {"connect", "version"}
    BY <1>3, <1>4 DEF Holding
  <2>2. QED
    BY <1>1, <1>2, <1>5, <2>1 DEF Opened
<1>12. Wire'
  <2>1. /\ rx' \in Seq(Words) /\ Len(rx') = n + 1 /\ rx'[1] = Header(n)
        /\ \A i \in 2..(n + 1) : rx'[i] = Field
    BY <1>7, ReplyFacts
  <2>2. rx' # <<>> /\ rx'[1].kind = "length" /\ rx'[1].n = n /\ rx'[1].own
    BY <2>1 DEF Header
  <2>3. \A i \in 2..Len(rx') : rx'[i].kind = "field" /\ rx'[i].own
    BY <2>1 DEF Field
  <2>4. \A i \in 1..Len(rx') : rx'[i].own
    <3>1. \A i \in 1..Len(rx') : i = 1 \/ i \in 2..Len(rx')
      BY <2>1
    <3>2. QED
      BY <2>2, <2>3, <3>1
  <2>5. At(t, "length")'
    BY <1>3 DEF At
  <2>6. QED
    BY <1>1, <2>1, <2>2, <2>3, <2>4, <2>5 DEF Wire
<1>13. Announcing'
  <2>1. CASE task[t].pc = "announce"
    BY <1>3, <2>1 DEF Announcing, Reading
  <2>2. CASE task[t].pc = "send"
    <3>1. \A u \in Threads : At(u, "announce") \/ At(u, "close") \/ Reading(u) => u # t
      BY <2>2 DEF At, Reading
    <3>2. QED
      BY <1>2, <1>4, <3>1 DEF Announcing, At, Reading
  <2>3. QED
    BY <1>1, <2>1, <2>2
<1>14. QED
  BY <1>8, <1>9, <1>10, <1>11, <1>12, <1>13

LEMMA RcvMessageLengthKeeps ==
  ASSUME IInv, NEW t \in Threads, RcvMessageLength(t)
  PROVE  IInv'
<1> USE DEF IInv
<1>1. /\ task[t].pc = "length" /\ rx # <<>>
      /\ m_msgLength' = Head(rx).n /\ m_msgConsumed' = 0 /\ rx' = Tail(rx)
      /\ UNCHANGED <<latch, sock, status, my_version, backend>>
  BY DEF RcvMessageLength, At
<1>2. UNCHANGED <<m_isOpen, m_hang, m_tainted, m_protoVersion, m_protoError, announced>>
  BY <1>1 DEF status
<1>3. /\ Moves(t) /\ task'[t].cmd = task[t].cmd /\ task'[t].sent = task[t].sent
      /\ task'[t].head = Script(t).head /\ task'[t].item = Script(t).item
      /\ task'[t].pc = IF Script(t).head > 0 THEN "head" ELSE "list"
  <2>1. Script(t).head \in Nat /\ Script(t).item \in Nat
    BY ScriptType DEF Scripts
  <2>2. PICK p \in {"head", "list"}, h \in Nat, k \in Nat :
          /\ p = (IF Script(t).head > 0 THEN "head" ELSE "list")
          /\ h = Script(t).head /\ k = Script(t).item
          /\ task' = [task EXCEPT ![t].pc = p, ![t].head = h, ![t].item = k]
    BY <2>1 DEF RcvMessageLength
  <2>3. PICK r : r = [task[t] EXCEPT !.pc = p, !.head = h, !.item = k]
    OBVIOUS
  <2>4. task[t] \in Tasks
    BY DEF TypeOK
  <2>5. /\ r \in Tasks /\ r.pc = p /\ r.head = h /\ r.item = k
        /\ r.cmd = task[t].cmd /\ r.sent = task[t].sent
    BY <2>3, <2>4 DEF Tasks, Places
  <2>6. task' = [task EXCEPT ![t] = r]
    BY <2>2, <2>3
  <2>7. QED
    BY <2>2, <2>5, <2>6, SetFacts
<1>4. latch = t /\ m_isOpen /\ sock
  BY <1>1 DEF Latched, Holding, Opened, Reading
<1>5. \A u \in Threads \ {t} : task'[u] = task[u] /\ task[u].pc \notin Holding
  BY <1>3, <1>4, Alone, MonitorAssumption DEF Moves
<1>6. /\ rx \in Seq(Words) /\ Len(rx) \in Nat /\ Len(rx) >= 1
      /\ Head(rx) = rx[1] /\ rx[1].n \in Nat /\ Len(rx) = rx[1].n + 1
  <2>1. rx \in Seq(Words) /\ Len(rx) \in Nat
    BY LenProperties DEF TypeOK
  <2>2. Len(rx) >= 1 /\ Head(rx) = rx[1]
    BY <1>1, <2>1
  <2>3. rx[1] \in Words
    BY <2>1, <2>2
  <2>4. QED
    BY <1>1, <2>1, <2>2, <2>3 DEF Words, Wire, At
<1>7. /\ rx' \in Seq(Words) /\ Len(rx') = Len(rx) - 1
      /\ \A i \in 1..Len(rx') : i + 1 \in 2..Len(rx) /\ rx'[i] = rx[i + 1]
  <2>1. rx' \in Seq(Words) /\ Len(rx') = Len(rx) - 1
    BY <1>1, <1>6, HeadTailProperties
  <2>2. \A i \in 1..Len(rx') : i + 1 \in 2..Len(rx)
    BY <1>6, <2>1
  <2>3. \A i \in 1..Len(rx') : rx'[i] = rx[i + 1]
    BY <1>1, <1>6, <2>1, HeadTailProperties
  <2>4. QED
    BY <2>1, <2>2, <2>3
<1>8. TypeOK'
  BY <1>1, <1>2, <1>3, <1>6, <1>7 DEF TypeOK, Moves
<1>9. Latched'
  BY <1>1, <1>3, <1>4, LatchedStep
<1>10. Counted'
  <2>1. Script(t)' = Script(t)
    BY <1>2, <1>3, ScriptKept
  <2>2. Script(t).head > 0 => task'[t].head > 0
    BY <1>3
  <2>3. QED
    BY <1>3, <1>5, <2>1, <2>2 DEF Counted, Holding
<1>11. Opened'
  <2>1. \A u \in Threads : task'[u].pc \notin {"connect", "version"}
    BY <1>3, <1>5 DEF Holding
  <2>2. QED
    BY <1>1, <1>2, <1>4, <2>1 DEF Opened
<1>12. Wire'
  <2>1. \A i \in 1..Len(rx') : rx'[i].own /\ rx'[i].kind = "field"
    <3>1. \A i \in 2..Len(rx) : i \in 1..Len(rx)
      BY <1>6
    <3>2. QED
      BY <1>7, <3>1 DEF Wire
  <2>2. Len(rx') = m_msgLength' - m_msgConsumed' /\ m_msgConsumed' <= m_msgLength'
    BY <1>1, <1>6, <1>7
  <2>3. (\A i \in 2..Len(rx') : i \in 1..Len(rx')) /\ (rx' # <<>> => 1 \in 1..Len(rx'))
    BY <1>6, <1>7
  <2>4. \A u \in Threads : ~At(u, "length")'
    BY <1>3, <1>5 DEF At, Holding
  <2>5. QED
    BY <2>1, <2>2, <2>3, <2>4 DEF Wire
<1>13. Announcing'
  <2>1. Reading(t) /\ Reading(t)' /\ ~At(t, "announce") /\ ~At(t, "close")
    BY <1>1, <1>3 DEF Reading, At
  <2>2. QED
    BY <1>2, <1>3, <1>5, <2>1 DEF Announcing, At, Reading
<1>14. QED
  BY <1>8, <1>9, <1>10, <1>11, <1>12, <1>13

\* A call that reads on: its step keeps the rest of the invariant.
LEMMA ReadOn ==
  ASSUME IInv, NEW t \in Threads, task[t].pc \in {"head", "list"}, Left > 0, Consume(1),
         Moves(t), task'[t].pc \in {"head", "list"},
         task'[t].sent = task[t].sent, task'[t].cmd = task[t].cmd,
         task'[t].pc = "head" => task'[t].head > 0 /\ task'[t].item = Script(t).item,
         task'[t].pc = "list" /\ ~Script(t).rest /\ task'[t].item # Script(t).item
           => task'[t].nb > 0,
         UNCHANGED <<latch, status, my_version, backend>>
  PROVE  IInv'
<1> USE DEF IInv
<1>1. UNCHANGED <<m_isOpen, m_hang, m_tainted, m_protoVersion, m_protoError, announced>>
  BY DEF status
<1>2. latch = t
  BY DEF Latched, Holding
<1>3. 1 <= Left
  BY DEF Left, TypeOK
<1>4. /\ UNCHANGED sock
      /\ m_msgLength' \in Nat /\ m_msgConsumed' \in Nat
      /\ m_msgConsumed' <= m_msgLength' /\ m_msgLength' - m_msgConsumed' = Left - 1
      /\ rx' \in Seq(Words) /\ Len(rx') = Len(rx) - 1
      /\ \A i \in 1..Len(rx') : i + 1 \in 1..Len(rx) /\ rx'[i] = rx[i + 1]
  BY <1>3, ConsumeFacts
<1>5. TypeOK'
  BY <1>1, <1>4 DEF TypeOK, Moves
<1>6. Latched'
  BY <1>2, LatchedStep
<1>7. Opened' /\ Wire' /\ (\A u \in Threads \ {t} : task'[u].pc \notin Holding)
  BY <1>1, <1>3, <1>4, ReadStep
<1>8. Counted'
  <2>1. Script(t)' = Script(t)
    BY <1>1, ScriptKept
  <2>2. QED
    BY <1>7, <2>1 DEF Counted, Holding
<1>9. Announcing'
  <2>1. Reading(t) /\ Reading(t)' /\ ~At(t, "announce") /\ ~At(t, "close")
    BY DEF Reading, At
  <2>2. \A u \in Threads \ {t} : task'[u] = task[u]
    BY DEF Moves
  <2>3. QED
    BY <1>1, <2>1, <2>2 DEF Announcing, At, Reading
<1>10. QED
  BY <1>5, <1>6, <1>7, <1>8, <1>9

LEMMA ReadHeadKeeps ==
  ASSUME IInv, NEW t \in Threads, ReadHead(t)
  PROVE  IInv'
<1> USE DEF IInv
<1>1. /\ task[t].pc = "head" /\ Left > 0 /\ Consume(1)
      /\ UNCHANGED <<latch, status, my_version, backend>>
  BY DEF ReadHead, At
<1>2. task[t] \in Tasks /\ task[t].head \in Nat
  BY DEF TypeOK, Tasks
<1>3. task[t].head > 0 /\ task[t].item = Script(t).item
  BY <1>1 DEF Counted
<1>4. PICK nb \in Nat, h \in Nat, p \in {"head", "list"} :
        /\ h = task[t].head - 1
        /\ p = (IF task[t].head = 1 THEN "list" ELSE "head")
        /\ task' = [task EXCEPT ![t].pc = p, ![t].head = h, ![t].nb = nb]
  <2>1. PICK nb \in Counts(t) :
          task' = [task EXCEPT ![t].pc = IF task[t].head = 1 THEN "list" ELSE "head",
                               ![t].head = @ - 1, ![t].nb = nb]
    BY DEF ReadHead
  <2>2. nb \in Nat
    BY MonitorAssumption DEF Counts
  <2>3. task[t].head - 1 \in Nat
    BY <1>2, <1>3
  <2>4. task' = [task EXCEPT ![t].pc = IF task[t].head = 1 THEN "list" ELSE "head",
                             ![t].head = task[t].head - 1, ![t].nb = nb]
    BY <2>1 DEF TypeOK
  <2>5. QED
    BY <2>2, <2>3, <2>4
<1>5. PICK r : r = [task[t] EXCEPT !.pc = p, !.head = h, !.nb = nb]
  OBVIOUS
<1>6. /\ r \in Tasks /\ r.pc = p /\ r.head = h /\ r.item = task[t].item
      /\ r.cmd = task[t].cmd /\ r.sent = task[t].sent
  BY <1>2, <1>5 DEF Tasks, Places
<1>7. task' = [task EXCEPT ![t] = r]
  BY <1>4, <1>5
<1>8. Moves(t) /\ task'[t] = r
  BY <1>6, <1>7, SetFacts
<1>9. p = "head" => h > 0
  BY <1>2, <1>3, <1>4
<1>10. QED
  BY <1>1, <1>3, <1>6, <1>8, <1>9, ReadOn

LEMMA ReadItemKeeps ==
  ASSUME IInv, NEW t \in Threads, ReadItem(t)
  PROVE  IInv'
<1> USE DEF IInv
<1>1. /\ task[t].pc = "list" /\ ~ListOver(t) /\ Left > 0 /\ Consume(1)
      /\ UNCHANGED <<latch, status, my_version, backend>>
  BY DEF ReadItem, At
<1>2. task[t] \in Tasks /\ task[t].item \in Nat /\ task[t].nb \in Nat
  BY DEF TypeOK, Tasks
<1>3. Script(t).item \in Nat /\ Script(t).rest \in BOOLEAN
  BY ScriptType DEF Scripts
<1>4. ~Script(t).rest => task[t].nb > 0
  BY <1>1, <1>2 DEF ListOver, Counted
<1>5. PICK k \in Nat, nb \in Nat :
        /\ task' = [task EXCEPT ![t].item = k, ![t].nb = nb]
        /\ ~Script(t).rest /\ k # Script(t).item => nb > 0
  <2>1. CASE task[t].item > 1
    <3>1. task[t].item - 1 \in Nat
      BY <1>2, <2>1
    <3>2. task' = [task EXCEPT ![t].item = task[t].item - 1, ![t].nb = task[t].nb]
      BY <2>1 DEF ReadItem, TypeOK, Tasks
    <3>3. QED
      BY <1>2, <1>4, <3>1, <3>2
  <2>2. CASE ~(task[t].item > 1)
    <3>1. task' = [task EXCEPT ![t].item = Script(t).item,
                               ![t].nb = IF Script(t).rest THEN 0 ELSE task[t].nb - 1]
      BY <2>2 DEF ReadItem, TypeOK, Tasks
    <3>2. (IF Script(t).rest THEN 0 ELSE task[t].nb - 1) \in Nat
      BY <1>2, <1>3, <1>4
    <3>3. QED
      BY <1>3, <3>1, <3>2
  <2>3. QED
    BY <2>1, <2>2
<1>6. PICK r : r = [task[t] EXCEPT !.item = k, !.nb = nb]
  OBVIOUS
<1>7. /\ r \in Tasks /\ r.pc = task[t].pc /\ r.item = k /\ r.nb = nb
      /\ r.cmd = task[t].cmd /\ r.sent = task[t].sent
  BY <1>2, <1>6 DEF Tasks, Places
<1>8. task' = [task EXCEPT ![t] = r]
  BY <1>5, <1>6
<1>9. Moves(t) /\ task'[t] = r
  BY <1>7, <1>8, SetFacts
<1>10. QED
  BY <1>1, <1>5, <1>7, <1>9, ReadOn

\* A call that is done with its reply and leaves, or goes on to send or to close.
LEMMA ReadEnds ==
  ASSUME IInv, NEW t \in Threads, task[t].pc \in {"head", "list"}, Moves(t),
         NEW k \in Nat, k <= Left,
         m_msgLength' \in Nat, m_msgConsumed' \in Nat,
         m_msgConsumed' <= m_msgLength', m_msgLength' - m_msgConsumed' = Left - k,
         rx' \in Seq(Words), Len(rx') = Len(rx) - k,
         \A i \in 1..Len(rx') : i + k \in 1..Len(rx) /\ rx'[i] = rx[i + k],
         task'[t].pc \in {"idle", "send", "close"},
         latch' \in Threads \cup {NoThread}, Latched',
         announced' \in BOOLEAN,
         announced' = announced \/ announced',
         task[t].sent = "announce" => announced' \/ task'[t].pc = "close",
         UNCHANGED <<sock, m_isOpen, m_hang, m_tainted, m_protoVersion, m_protoError,
                     my_version, backend>>
  PROVE  IInv'
<1> USE DEF IInv
<1>1. TypeOK'
  BY DEF TypeOK, Moves
<1>2. Opened' /\ Wire' /\ (\A u \in Threads \ {t} : task'[u].pc \notin Holding)
  BY ReadStep
<1>3. Counted'
  BY <1>2 DEF Counted, Holding
<1>4. Announcing'
  <2>1. ~At(t, "announce") /\ ~At(t, "close")
    BY DEF At
  <2>2. \A u \in Threads \ {t} : task'[u] = task[u]
    BY DEF Moves
  <2>3. QED
    BY <2>1, <2>2 DEF Announcing, At, Reading
<1>5. QED
  BY <1>1, <1>2, <1>3, <1>4

LEMMA HeadRefusedKeeps ==
  ASSUME IInv, NEW t \in Threads, HeadRefused(t)
  PROVE  IInv'
<1> USE DEF IInv
<1>1. task[t].pc = "head" /\ Consume(Left) /\ Fail(t, task[t].sent)
      /\ UNCHANGED <<status, my_version, backend>>
  BY DEF HeadRefused, FlushMessage, At
<1>2. UNCHANGED <<m_isOpen, m_hang, m_tainted, m_protoVersion, m_protoError, announced>>
  BY <1>1 DEF status
<1>3. latch = t /\ task[t].sent \in {"none", "announce", "command"} /\ announced \in BOOLEAN
  BY <1>1 DEF Latched, Holding, TypeOK, Tasks
<1>4. Left \in Nat /\ Left <= Left
  BY DEF Left, TypeOK, Wire
<1>5. /\ UNCHANGED sock
      /\ m_msgLength' \in Nat /\ m_msgConsumed' \in Nat
      /\ m_msgConsumed' <= m_msgLength' /\ m_msgLength' - m_msgConsumed' = Left - Left
      /\ rx' \in Seq(Words) /\ Len(rx') = Len(rx) - Left
      /\ \A i \in 1..Len(rx') : i + Left \in 1..Len(rx) /\ rx'[i] = rx[i + Left]
  BY <1>1, <1>4, ConsumeFacts
<1>6. /\ Moves(t) /\ task'[t].pc \in {"idle", "close"}
      /\ latch' \in Threads \cup {NoThread}
      /\ task[t].sent = "announce" => task'[t].pc = "close"
      /\ Latched'
  BY <1>1, <1>3, FailFacts
<1>7. QED
  BY <1>1, <1>2, <1>3, <1>4, <1>5, <1>6, ReadEnds

LEMMA ReadDoneKeeps ==
  ASSUME IInv, NEW t \in Threads, ReadDone(t)
  PROVE  IInv'
<1> USE DEF IInv
<1>1. /\ task[t].pc = "list" /\ Succeed(t)
      /\ UNCHANGED <<m_isOpen, m_hang, m_tainted, m_protoVersion, m_protoError,
                     my_version, backend>>
  BY DEF ReadDone, At
<1>2. latch = t /\ announced \in BOOLEAN
  BY <1>1 DEF Latched, Holding, TypeOK
<1>3. m_msgLength \in Nat /\ m_msgConsumed \in Nat /\ m_msgConsumed <= m_msgLength
      /\ rx \in Seq(Words) /\ Len(rx) \in Nat
  BY LenProperties DEF TypeOK, Wire
<1>4. Left \in Nat
  BY <1>3 DEF Left
<1>5. PICK k \in Nat :
        /\ k <= Left /\ UNCHANGED sock
        /\ m_msgLength' \in Nat /\ m_msgConsumed' \in Nat
        /\ m_msgConsumed' <= m_msgLength' /\ m_msgLength' - m_msgConsumed' = Left - k
        /\ rx' \in Seq(Words) /\ Len(rx') = Len(rx) - k
        /\ \A i \in 1..Len(rx') : i + k \in 1..Len(rx) /\ rx'[i] = rx[i + k]
  <2>1. CASE Consume(Left)
    <3>1. Left <= Left
      BY <1>4
    <3>2. QED
      BY <1>4, <2>1, <3>1, ConsumeFacts
  <2>2. CASE Left > 0 /\ Consume(1)
    <3>1. 1 <= Left
      BY <1>4, <2>2
    <3>2. QED
      BY <2>2, <3>1, ConsumeFacts
  <2>3. CASE UNCHANGED stream
    <3>1. UNCHANGED <<sock, rx, m_msgLength, m_msgConsumed>>
      BY <2>3 DEF stream
    <3>2. \A i \in 1..Len(rx') : i + 0 \in 1..Len(rx) /\ rx'[i] = rx[i + 0]
      BY <1>3, <3>1
    <3>3. m_msgLength' - m_msgConsumed' = Left - 0 /\ Len(rx') = Len(rx) - 0 /\ 0 <= Left
      BY <1>3, <3>1 DEF Left
    <3>4. QED
      BY <1>3, <3>1, <3>2, <3>3
  <2>4. QED
    BY <2>1, <2>2, <2>3 DEF ReadDone, FlushMessage
<1>6. /\ Moves(t) /\ task'[t].pc \in {"idle", "send"}
      /\ latch' \in Threads \cup {NoThread}
      /\ task'[t].pc = "idle" => task'[t].cmd = NoCommand
      /\ task'[t].pc = "send" => latch' = t
      /\ announced' \in BOOLEAN
      /\ announced' = announced \/ announced'
      /\ task[t].sent = "announce" => announced'
  BY <1>1, <1>2, GotoFacts, LeaveFacts DEF Succeed, Places
<1>7. Latched'
  BY <1>2, <1>6, LatchedStep DEF Holding
<1>8. QED
  BY <1>1, <1>5, <1>6, <1>7, ReadEnds

----------------------------------------------------------------------------
(***************************************************************************)
(* The environment                                                         *)
(***************************************************************************)
\* What no part of the invariant but the types speaks of may change.
LEMMA EnvironmentKeeps ==
  ASSUME IInv, OtherAgreed \/ BackendReplaced
  PROVE  IInv'
<1> USE DEF IInv
<1>1. UNCHANGED <<latch, stream, status, task>>
  BY DEF OtherAgreed, BackendReplaced
<1>2. UNCHANGED <<sock, rx, m_msgLength, m_msgConsumed, m_isOpen, m_hang, m_tainted,
                  m_protoVersion, m_protoError, announced>>
  BY <1>1 DEF stream, status
<1>3. my_version' \in Backends \cup {0} /\ backend' \in Backends
  BY DEF OtherAgreed, BackendReplaced, TypeOK
<1>4. TypeOK'
  BY <1>1, <1>2, <1>3 DEF TypeOK
<1>5. Latched' /\ Counted'
  BY <1>1, <1>2 DEF Latched, Counted, InCommand, Script
<1>6. Opened' /\ Announcing'
  BY <1>1, <1>2 DEF Opened, Announcing, At, Reading
<1>7. Wire'
  BY <1>1, <1>2 DEF Wire, At
<1>8. QED
  BY <1>4, <1>5, <1>6, <1>7

LEMMA StutterKeeps ==
  ASSUME IInv, UNCHANGED vars
  PROVE  IInv'
<1> USE DEF IInv
<1>1. UNCHANGED <<latch, stream, status, my_version, backend, task>>
  BY DEF vars
<1>2. UNCHANGED <<sock, rx, m_msgLength, m_msgConsumed, m_isOpen, m_hang, m_tainted,
                  m_protoVersion, m_protoError, announced>>
  BY <1>1 DEF stream, status
<1>3. TypeOK'
  BY <1>1, <1>2 DEF TypeOK
<1>4. Latched' /\ Counted'
  BY <1>1, <1>2 DEF Latched, Counted, InCommand, Script
<1>5. Opened' /\ Announcing'
  BY <1>1, <1>2 DEF Opened, Announcing, At, Reading
<1>6. Wire'
  BY <1>1, <1>2 DEF Wire, At
<1>7. QED
  BY <1>3, <1>4, <1>5, <1>6

----------------------------------------------------------------------------
(***************************************************************************)
(* The theorems                                                            *)
(***************************************************************************)
LEMMA InitHolds == Init => IInv
<1> SUFFICES ASSUME Init PROVE IInv
  OBVIOUS
<1>1. /\ latch = NoThread /\ sock = FALSE /\ rx = <<>> /\ m_isOpen = FALSE
      /\ m_hang = FALSE /\ m_tainted = FALSE /\ m_msgLength = 0 /\ m_msgConsumed = 0
      /\ m_protoVersion = 0 /\ m_protoError = "NO_ERROR" /\ my_version = 0
      /\ backend \in Backends /\ announced = FALSE /\ task = [t \in Threads |-> Idle]
  BY DEF Init
<1>2. Idle \in Tasks /\ Idle.pc = "idle" /\ Idle.cmd = NoCommand
  <2>1. NoCommand \in Scripts
    BY DEF NoCommand, Scripts
  <2>2. QED
    BY <2>1 DEF Idle, Tasks, Places
<1>3. \A t \in Threads : task[t].pc = "idle" /\ task[t].cmd = NoCommand
  BY <1>1, <1>2
<1>4. TypeOK
  <2>1. rx \in Seq(Words)
    BY <1>1, EmptySeq
  <2>2. task \in [Threads -> Tasks]
    BY <1>1, <1>2
  <2>3. QED
    BY <1>1, <2>1, <2>2 DEF TypeOK
<1>5. Latched /\ Counted
  BY <1>3 DEF Latched, Counted, Holding, InCommand
<1>6. Opened /\ Announcing
  BY <1>1, <1>3 DEF Opened, Announcing, Reading
<1>7. Wire
  <2>1. Len(rx) = 0 /\ \A t \in Threads : ~At(t, "length")
    BY <1>1, <1>3 DEF At
  <2>2. QED
    BY <1>1, <2>1 DEF Wire
<1>8. QED
  BY <1>4, <1>5, <1>6, <1>7 DEF IInv

\* The inductive invariant: who holds the latch, when the connection is open,
\* and what it holds, in every state that the calls of any number of threads
\* can reach.
THEOREM InductiveInvariant == Spec => []IInv
<1>1. IInv /\ [Next]_vars => IInv'
  <2> SUFFICES ASSUME IInv, [Next]_vars PROVE IInv'
    OBVIOUS
  <2>1. CASE UNCHANGED vars
    BY <2>1, StutterKeeps
  <2>2. CASE OtherAgreed \/ BackendReplaced
    BY <2>2, EnvironmentKeeps
  <2>3. ASSUME NEW t \in Threads, Call(t) \/ CallOpen(t) \/ CallClose(t)
        PROVE  IInv'
    BY <2>3, CallKeeps, CallOpenKeeps
  <2>4. ASSUME NEW t \in Threads, Step(t)
        PROVE  IInv'
    BY <2>4, CommandEnterKeeps, OpenBeginKeeps, OpenFailsKeeps, ConnectKeeps,
       VersionAcceptedKeeps, VersionRejectedKeeps, SendCommandKeeps, SendFailedKeeps,
       RcvMessageLengthKeeps, ReadFailedKeeps, ReadHeadKeeps, HeadRefusedKeeps,
       ReadItemKeeps, ReadDoneKeeps, CloseKeeps, CleanHangingKeeps DEF Step
  <2>5. QED
    BY <2>1, <2>2, <2>3, <2>4 DEF Next
<1>2. QED
  BY <1>1, InitHolds, PTL DEF Spec

\* The variables keep their types: the numbers a reply is read with (m_msgLength,
\* m_msgConsumed, the fields and elements to come) never fall below zero.
THEOREM TypeCorrect == Spec => []TypeOK
<1>1. IInv => TypeOK
  BY DEF IInv
<1>2. QED
  BY <1>1, InductiveInvariant, PTL

\* A call of ProtoMonitor reads the reply to what it sent and nothing else,
\* for any number of threads, whatever the replies are and wherever they stop.
THEOREM AlwaysOwnReply == Spec => []OwnReply
<1>1. IInv => OwnReply
  <2> SUFFICES ASSUME IInv, NEW t \in Threads, Reading(t), rx # <<>>
               PROVE  /\ latch = t /\ Head(rx).own
                      /\ Head(rx).kind = IF At(t, "length") THEN "length" ELSE "field"
    BY DEF OwnReply
  <2> USE DEF IInv
  <2>1. latch = t
    BY DEF Latched, Holding, Reading
  <2>2. Head(rx) = rx[1] /\ 1 \in 1..Len(rx)
    BY DEF TypeOK
  <2>3. rx[1].own
    BY <2>2 DEF Wire
  <2>4. CASE At(t, "length")
    BY <2>1, <2>2, <2>3, <2>4 DEF Wire
  <2>5. CASE ~At(t, "length")
    <3>1. \A u \in Threads : ~At(u, "length")
      BY <2>1, <2>5, Alone, MonitorAssumption DEF At, Holding
    <3>2. rx[1].kind = "field"
      BY <3>1 DEF Wire
    <3>3. QED
      BY <2>1, <2>2, <2>3, <2>5, <3>2
  <2>6. QED
    BY <2>4, <2>5
<1>2. QED
  BY <1>1, InductiveInvariant, PTL

\* The counters of the message agree with what the socket holds, so that
\* FlushMessage takes exactly the rest of the last reply.
THEOREM AlwaysFramed == Spec => []Framing
<1>1. IInv => Framing
  <2> SUFFICES ASSUME IInv PROVE Framing
    OBVIOUS
  <2> USE DEF IInv
  <2>1. 0 <= Left
    BY DEF TypeOK, Wire, Left
  <2>2. (\A t \in Threads : ~At(t, "length")) => Len(rx) = Left
    BY DEF Wire, Left
  <2>3. ~sock => rx = <<>> /\ Left = 0 /\ ~m_isOpen
    BY DEF Opened, Left
  <2>4. QED
    BY <2>1, <2>2, <2>3 DEF Framing
<1>2. QED
  BY <1>1, InductiveInvariant, PTL

\* A command is sent over an announced connection, or while another call is
\* about to announce or to close it.
THEOREM AlwaysAnnouncedFirst == Spec => []AnnouncedFirst
<1>1. IInv => AnnouncedFirst
  <2> SUFFICES ASSUME IInv, NEW t \in Threads, Reading(t), task[t].sent = "command",
                      ~announced
               PROVE  \E u \in Threads \ {t} : At(u, "announce") \/ At(u, "close")
    BY DEF AnnouncedFirst
  <2> USE DEF IInv
  <2>1. latch = t /\ m_isOpen
    BY DEF Latched, Holding, Reading, Opened
  <2>2. PICK u \in Threads :
          At(u, "announce") \/ At(u, "close") \/ (Reading(u) /\ task[u].sent = "announce")
    BY <2>1 DEF Announcing
  <2>3. u # t
    BY <2>2 DEF At, Reading
  <2>4. ~Reading(u)
    BY <2>1, <2>3, Alone, MonitorAssumption DEF Reading, Holding
  <2>5. QED
    BY <2>2, <2>3, <2>4
<1>2. QED
  BY <1>1, InductiveInvariant, PTL

=============================================================================
