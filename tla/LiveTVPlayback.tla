--------------------------- MODULE LiveTVPlayback ---------------------------
(***************************************************************************)
(* Watching live TV: LiveTVPlayback and the recorder it controls           *)
(* (cppmyth/src/mythlivetvplayback.cpp, proto/mythprotorecorder.cpp).  The *)
(* backend records a channel into a chain of files, one per program; the   *)
(* client follows it with a transfer per file.                             *)
(*                                                                         *)
(* Three threads share the chain: the one of the application that tunes    *)
(* and stops (control), the one that reads and seeks (reader), and the     *)
(* event handler's (ev), which hears of new files and sizes.  The          *)
(* application does not tune while it reads: _read uses the chain without  *)
(* the latch.  A critical section of the latch is one step, unless it      *)
(* waits; SpawnLiveTV keeps the latch over steps.  A recorder is an object *)
(* with references, as an event may still hold one that was replaced.      *)
(*                                                                         *)
(* A command to the backend is one step (modules ProtoMonitor and          *)
(* ProtoPlayback have their steps): it works, is refused, or is lost.      *)
(* A byte is its file and its place in it.  lastSequence is the length of  *)
(* chained, and currentTransfer the one at currentSequence, null for 0.    *)
(***************************************************************************)
EXTENDS Integers, Sequences, FiniteSets, FiniteSetsExt, RingBuffer

CONSTANTS
  Inputs,      \* external: the inputs of the cards
  Channels,    \* the channels the application knows
  Chunk,       \* m_chunk: the bytes read at once
  Attempts,    \* how often a failure is worked around (10 in the code)
  Offsets,     \* bound: the offsets of Seek
  MaxSize,     \* bound: the bytes of a file
  MaxFiles,    \* bound: the programs that are recorded
  MaxQueue,    \* bound: the events on their way
  MaxTune,     \* bound: cards that are tried
  MaxCalls,    \* bound: calls of the application
  MaxLoss      \* bound: commands, answers and events lost

ASSUME LiveAssumption ==
  /\ Inputs \in Seq([cardId : Nat, sourceId : Nat, mplexId : Nat, liveTVOrder : Nat])
  /\ {Chunk, Attempts} \subseteq Nat \ {0}
  /\ Offsets \subseteq Int
  /\ {MaxSize, MaxFiles, MaxQueue, MaxTune, MaxCalls, MaxLoss} \subseteq Nat

VARIABLES
  isOpen,              \* the connection of the monitor
  recs,                \* the recorders made so far: [num, playing, keep]
  m_recorder,          \* the one in use, or 0
  m_chain,
  m_buffer,
  control, reader, ev, \* the threads
  events,              \* the messages on their way to ev
  live,                \* external: the recorder in recs a card serves, or 0
  files,               \* external: the programs recorded: [rec, UID, size, named]
  told,                \* history: where the application believes to read
  tunes, calls, loss   \* what is left of the bounds

bounds == <<tunes, calls>>
client == <<isOpen, recs, m_recorder, m_chain, m_buffer>>
threads == <<control, reader, ev>>
backend == <<events, live, files>>
vars == <<client, threads, backend, told, bounds, loss>>

Cards == {Inputs[i].cardId : i \in DOMAIN Inputs}
Unknown == -100

BUFFER_CAPACITY == 2

NoChain == [UID |-> 0, chained |-> <<>>, currentSequence |-> 0,
            watch |-> FALSE, switchOnCreate |-> FALSE]
Idle == [pc |-> "idle", fp |-> 0, rp |-> 0, ahead |-> FALSE, rec |-> 0, i |-> 0]
Forgotten == [rec |-> -1, UID |-> 0, size |-> 0, named |-> FALSE]
NoEvent == [kind |-> "none", key |-> 0, size |-> 0]
Quiet == [pc |-> "idle", rec |-> 0, msg |-> NoEvent, i |-> 0]

Init ==
  /\ isOpen = TRUE
  /\ recs = <<>> /\ m_recorder = 0
  /\ m_chain = NoChain
  /\ m_buffer = NewBuffer(BUFFER_CAPACITY)
  /\ control = [pc |-> "idle", cards |-> <<>>]
  /\ reader = Idle
  /\ ev = Quiet
  /\ events = <<>>
  /\ live = [c \in Cards |-> 0]
  /\ files = <<>>
  /\ told = 0
  /\ tunes = MaxTune /\ calls = MaxCalls
  /\ loss = MaxLoss

Tune == tunes > 0 /\ calls > 0 /\ tunes' = tunes - 1 /\ calls' = calls - 1
Call == calls > 0 /\ calls' = calls - 1 /\ UNCHANGED tunes
Lose == loss > 0 /\ loss' = loss - 1
Pay(lost) == IF lost THEN Lose ELSE UNCHANGED loss

\* SpawnLiveTV holds the latch.
Latched == control.pc \in {"find", "try", "ask"}

----------------------------------------------------------------------------
(***************************************************************************)
(* Transfers.  An operation that may fail is the set of its outcomes: what *)
(* it returns, the chain it leaves, and whether something was lost.        *)
(***************************************************************************)
Outcome(ok, chain, lost) == [ok |-> ok, chain |-> chain, lost |-> lost]

Current(chain) == chain.chained[chain.currentSequence]
GetRemaining(transfer) == transfer.size - transfer.pos

\* The bytes before the file at seq.
Before(chain, seq) ==
  LET sum[i \in 0..Len(chain.chained)] ==
        IF i = 0 THEN 0 ELSE sum[i - 1] + chain.chained[i].size
  IN sum[seq - 1]
GetSize(chain) == Before(chain, Len(chain.chained) + 1)

GetPosition(chain, buffer) ==
  (IF chain.currentSequence = 0 THEN 0
   ELSE Before(chain, chain.currentSequence) + Current(chain).pos)
  - bytesUnread(buffer)

\* The backend tells the size, which is 0 until then.
Announce75(chain, seq) ==
  LET Told(size) == [chain EXCEPT !.chained[seq].pos = 0, !.chained[seq].size = size]
  IN {Outcome(TRUE, Told(files[chain.chained[seq].file].size), FALSE),
      Outcome(FALSE, Told(0), TRUE)}

\* ProtoTransfer::Open: connected and announced, or closed again.
OpenTransfer(chain, seq) ==
  {Outcome(FALSE, chain, TRUE)}
  \cup {[x EXCEPT !.chain.chained[seq].open = x.ok] : x \in Announce75(chain, seq)}

\* To a position of the file. No command is sent if it is there already.
TransferSeek(chain, seq, position) ==
  LET transfer == chain.chained[seq]
  IN IF position = transfer.pos THEN {Outcome(TRUE, chain, FALSE)}
     ELSE IF position \notin 0..transfer.size \/ ~transfer.open
     THEN {Outcome(FALSE, chain, FALSE)}
     ELSE {Outcome(TRUE, [chain EXCEPT !.chained[seq].pos = position], FALSE),
           Outcome(FALSE, chain, TRUE)}

SwitchChain(chain, seq) ==
  IF seq \notin DOMAIN chain.chained THEN {Outcome(FALSE, chain, FALSE)}
  ELSE {IF x.ok THEN [x EXCEPT !.chain.currentSequence = seq] ELSE x :
          x \in IF chain.chained[seq].open THEN {Outcome(TRUE, chain, FALSE)}
                ELSE OpenTransfer(chain, seq)}

\* Switch, then rewind: the second only if the first worked.
SwitchAndRewind(chain, seq) ==
  UNION {IF x.ok THEN TransferSeek(x.chain, seq, 0) ELSE {x} : x \in SwitchChain(chain, seq)}

SwitchChainLast(chain) ==
  IF m_recorder = 0
  THEN {[x EXCEPT !.ok = FALSE] : x \in SwitchChain(chain, Len(chain.chained))}
  ELSE SwitchAndRewind(chain, Len(chain.chained))

\* External: the program a recorder is busy with; 0 if it has no file name yet.
GetCurrentRecording(rec) ==
  LET own == {f \in DOMAIN files : files[f].rec = rec}
  IN IF live[recs[rec].num] # rec \/ own = {} \/ ~files[Max(own)].named THEN 0
     ELSE Max(own)

\* Mutant: a file may come twice.
IsChainedNever(chain, file) == FALSE

IsChained(chain, file) == \E i \in DOMAIN chain.chained : chain.chained[i].file = file

\* A new file is appended and the dummy file before it closed.  The transfer is
\* not open and of size 0, so that the switch at once never happens.
Chained(chain, file) ==
  LET n == Len(chain.chained)
      Closed == IF n > 0 /\ chain.chained[n].size = 0
                THEN [chain EXCEPT !.chained[n].open = FALSE, !.chained[n].pos = 0]
                ELSE chain
  IN [Closed EXCEPT !.chained = Append(@, [file |-> file, size |-> 0, pos |-> 0, open |-> FALSE]),
                    !.watch = FALSE]

HandleChainUpdate(chain) ==
  IF m_recorder = 0 THEN {Outcome(TRUE, chain, FALSE)}
  ELSE LET file == GetCurrentRecording(m_recorder)
       IN IF file = 0 \/ IsChained(chain, file) THEN {Outcome(TRUE, chain, FALSE)}
          ELSE {Outcome(TRUE, Chained(chain, file), FALSE), Outcome(TRUE, chain, TRUE)}

----------------------------------------------------------------------------
(***************************************************************************)
(* The recorder                                                            *)
(***************************************************************************)
References == {m_recorder, reader.rec, ev.rec}

\* m_playing is down only once the backend has said OK.  It may have stopped
\* although its answer is lost.
StopRecorder(rec, gone) ==
  LET stopped == [c \in Cards |-> IF c = recs[rec].num THEN 0 ELSE live[c]]
      quiet == [recs EXCEPT ![rec].playing = FALSE]
  IN \/ live' = stopped /\ recs' = quiet /\ UNCHANGED loss
     \/ /\ Lose
        /\ live' \in {stopped, live}
        /\ recs' = IF gone THEN quiet ELSE recs

\* Recorders that lost their last reference while playing.
Dying == {rec \in DOMAIN recs : recs[rec].playing /\ rec \notin References}

\* Mutant: the destructor does not stop the backend.
DestroyQuietly(rec) ==
  /\ recs' = [recs EXCEPT ![rec].playing = FALSE]
  /\ UNCHANGED <<isOpen, m_recorder, m_chain, m_buffer,
                 threads, backend, told, bounds, loss>>

\* The destructor, run by the thread that drops the last reference.
Destroy(rec) ==
  /\ StopRecorder(rec, TRUE)
  /\ UNCHANGED <<isOpen, m_recorder, m_chain, m_buffer,
                 threads, events, files, told, bounds>>

----------------------------------------------------------------------------
(***************************************************************************)
(* Control                                                                 *)
(***************************************************************************)
Matches(chanNum, input) ==
  \E i \in DOMAIN Channels :
    /\ Channels[i].chanNum = chanNum
    /\ Channels[i].sourceId = input.sourceId
    /\ input.mplexId \in {0, Channels[i].mplexId}

\* The cards of the free inputs that can tune the channel, in preferred order: the
\* one list there is.
FindTunableCardIds(chanNum, free) ==
  LET Tunable == {i \in DOMAIN Inputs :
                    Inputs[i].cardId \in free /\ Matches(chanNum, Inputs[i])}
      Preferred(i, j) == \/ Inputs[i].liveTVOrder < Inputs[j].liveTVOrder
                         \/ Inputs[i].liveTVOrder = Inputs[j].liveTVOrder /\ i < j
      orders == {order \in [1..Cardinality(Tunable) -> Tunable] :
                   \A k, l \in DOMAIN order : k < l => Preferred(order[k], order[l])}
  IN {[k \in DOMAIN order |-> Inputs[order[k]].cardId] : order \in orders}

\* The step both StopLiveTV and SpawnLiveTV begin with.
StopPlaying ==
  IF m_recorder # 0 /\ recs[m_recorder].playing
  THEN /\ StopRecorder(m_recorder, FALSE)
       /\ m_recorder' = IF recs[m_recorder].keep THEN 0 ELSE m_recorder
  ELSE UNCHANGED <<recs, m_recorder, live, loss>>

\* The latch is held until the recorder was asked.
SpawnLiveTV ==
  /\ control.pc = "idle" /\ reader = Idle
  /\ isOpen
  /\ Tune
  /\ StopPlaying
  /\ control' = [control EXCEPT !.pc = "find"]
  /\ UNCHANGED <<isOpen, m_chain, m_buffer, reader, ev,
                 events, files, told>>

Return == [pc |-> "idle", cards |-> <<>>]

\* External: any of the cards that serve nobody may be free.
FindCards ==
  /\ control.pc = "find"
  /\ \E free \in SUBSET {c \in Cards : live[c] = 0}, i \in DOMAIN Channels :
       \E cards \in FindTunableCardIds(Channels[i].chanNum, free) :
         control' = IF cards = <<>> THEN Return ELSE [pc |-> "try", cards |-> cards]
  /\ UNCHANGED <<client, reader, ev, backend, told, bounds, loss>>

\* A place in recs that nobody refers to, and no card of the backend serves.
NewRecorder ==
  Min({rec \in 1..Len(recs) + 1 : rec \notin References /\ \A c \in Cards : live[c] # rec})

\* InitChain, and a new recorder in the place of the old one.  The name of the
\* chain is the time in seconds, so it may be that of the chain before, if there
\* was one.  A
\* recorder that the backend does not give is used all the same: a null pointer.
\* What the backend does not record for the client any more is forgotten.
TryCard ==
  /\ control.pc = "try"
  /\ \/ /\ \E UID \in {m_chain.UID, m_chain.UID + 1} \ {0} :
            m_chain' = [NoChain EXCEPT !.UID = UID, !.watch = TRUE, !.switchOnCreate = TRUE]
        /\ told' = Unknown
        /\ m_recorder' = NewRecorder
        /\ recs' = [rec \in DOMAIN recs \cup {NewRecorder} |->
                      IF rec # NewRecorder THEN recs[rec]
                      ELSE [num |-> Head(control.cards), playing |-> FALSE, keep |-> FALSE]]
        /\ files' = [f \in DOMAIN files |->
                       IF \E c \in Cards : live[c] = files[f].rec THEN files[f] ELSE Forgotten]
        /\ control' = [control EXCEPT !.pc = "ask"]
        /\ UNCHANGED loss
     \/ /\ Lose
        /\ control' = [control EXCEPT !.pc = "crashed"]
        /\ UNCHANGED <<m_chain, recs, m_recorder, files, told>>
  /\ UNCHANGED <<isOpen, m_buffer, reader, ev, events, live, bounds>>

\* The chain is cleared; the next card, unless m_limitTuneAttempts: the
\* application sets it when it likes, and one constructor does not initialize it.
GiveUpCard ==
  /\ m_chain' = [NoChain EXCEPT !.UID = m_chain.UID]
  /\ told' = Unknown
  /\ \/ control' = Return /\ UNCHANGED bounds
     \/ /\ Len(control.cards) > 1 /\ tunes > 0
        /\ control' = [pc |-> "try", cards |-> Tail(control.cards)]
        /\ tunes' = tunes - 1 /\ UNCHANGED calls

\* External: the recorder serves the client and begins a file.
Serve(rec) ==
  /\ Len(files) < MaxFiles
  /\ live' = [live EXCEPT ![recs[rec].num] = rec]
  /\ files' = Append(files, [rec |-> rec, UID |-> m_chain.UID, size |-> 0, named |-> FALSE])

\* SpawnLiveTV of the recorder: m_playing is up while it asks.
SpawnRecorder ==
  /\ control.pc = "ask"
  /\ \/ /\ Serve(m_recorder)
        /\ recs' = [recs EXCEPT ![m_recorder].playing = TRUE]
        /\ control' = [control EXCEPT !.pc = "tuning"]
        /\ UNCHANGED <<m_chain, told, bounds, loss>>
     \/ /\ GiveUpCard
        /\ UNCHANGED <<recs, live, files, loss>>
     \/ /\ Lose
        /\ Serve(m_recorder)
        /\ GiveUpCard
        /\ UNCHANGED recs
  /\ UNCHANGED <<isOpen, m_recorder, m_buffer, reader, ev, events>>

\* A file is watched.  What the buffer still has of an earlier channel stays
\* there: the position counts once it is read or dropped.
Tuned ==
  /\ control.pc = "tuning"
  /\ ~m_chain.switchOnCreate
  /\ control' = Return
  /\ told' = IF bytesUnread(m_buffer) = 0 THEN GetPosition(m_chain, m_buffer) ELSE Unknown
  /\ UNCHANGED <<client, reader, ev, backend, bounds, loss>>

TuneTimeout ==
  /\ control.pc = "tuning"
  /\ m_chain.switchOnCreate
  /\ StopRecorder(m_recorder, FALSE)
  /\ GiveUpCard
  /\ UNCHANGED <<isOpen, m_recorder, m_buffer, reader, ev, events, files>>

StopLiveTV ==
  /\ control.pc = "idle"
  /\ Call
  /\ StopPlaying
  /\ UNCHANGED <<isOpen, m_chain, m_buffer, threads,
                 events, files, told>>

Post(msgs) == Len(events) + Len(msgs) <= MaxQueue /\ events' = events \o msgs
Event(kind, key, size) == [kind |-> kind, key |-> key, size |-> size]

\* To keep the program, or to finish it: external, the backend then tells that
\* it is done.
KeepLiveRecording(keep) ==
  /\ control.pc = "idle"
  /\ m_recorder # 0 /\ recs[m_recorder].playing
  /\ GetCurrentRecording(m_recorder) # 0
  /\ Call
  /\ IF keep
     THEN recs' = [recs EXCEPT ![m_recorder].keep = TRUE] /\ UNCHANGED events
     ELSE Post(<<Event("done", recs[m_recorder].num, 0)>>) /\ UNCHANGED recs
  /\ UNCHANGED <<isOpen, m_recorder, m_chain, m_buffer, threads,
                 live, files, told, loss>>

Close ==
  /\ control.pc = "idle"
  /\ isOpen
  /\ Call
  /\ m_recorder' = 0
  /\ isOpen' = FALSE
  /\ UNCHANGED <<recs, m_chain, m_buffer, threads, backend, told, loss>>

Open ==
  /\ control.pc = "idle"
  /\ ~isOpen
  /\ isOpen' = TRUE
  /\ UNCHANGED <<recs, m_recorder, m_chain, m_buffer, threads,
                 backend, told, bounds, loss>>

----------------------------------------------------------------------------
(***************************************************************************)
(* Events                                                                  *)
(***************************************************************************)
\* The recorder is staged; an event for one that does not play is dropped.
TakeEvent ==
  /\ ev = Quiet /\ ~Latched
  /\ events # <<>>
  /\ events' = Tail(events)
  /\ IF m_recorder # 0 /\ recs[m_recorder].playing
     THEN ev' = [Quiet EXCEPT !.pc = "handle", !.rec = m_recorder, !.msg = Head(events)]
     ELSE UNCHANGED ev
  /\ UNCHANGED <<client, control, reader, live, files, told, bounds, loss>>

Concerned == ev.msg.key = recs[ev.rec].num

\* The name of the chain is read without the latch.
HandleChain ==
  /\ ev.pc = "handle" /\ ev.msg.kind = "chain"
  /\ ev' = IF ev.msg.key = m_chain.UID THEN [ev EXCEPT !.pc = "update"] ELSE Quiet
  /\ UNCHANGED <<client, control, reader, backend, told, bounds, loss>>

HandleWatch ==
  /\ ev.pc = "handle" /\ ev.msg.kind = "watch"
  /\ ~Latched
  /\ m_chain' = [m_chain EXCEPT !.watch = @ \/ Concerned]
  /\ ev' = Quiet
  /\ UNCHANGED <<isOpen, recs, m_recorder, m_buffer, control, reader,
                 backend, told, bounds, loss>>

\* DoneRecordingCallback; watch, read without the latch, tells that the chain
\* was not updated.
HandleDone ==
  /\ ev.pc = "handle" /\ ev.msg.kind = "done"
  /\ recs' = [recs EXCEPT ![ev.rec].keep = @ /\ ~Concerned]
  /\ ev' = IF Concerned /\ m_chain.watch THEN [ev EXCEPT !.pc = "retry", !.i = 1] ELSE Quiet
  /\ UNCHANGED <<isOpen, m_recorder, m_chain, m_buffer, control,
                 reader, backend, told, bounds, loss>>

\* After a while.
Retry ==
  /\ ev.pc = "retry"
  /\ ev' = IF recs[ev.rec].playing THEN [ev EXCEPT !.pc = "update"] ELSE Quiet
  /\ UNCHANGED <<client, control, reader, backend, told, bounds, loss>>

\* Mutant: one attempt more.
UpdatedLate(chain) ==
  IF ev.msg.kind = "chain" \/ ~chain.watch \/ ev.i > Attempts THEN Quiet
  ELSE [ev EXCEPT !.pc = "retry", !.i = @ + 1]

\* What follows an update of the chain.
Updated(chain) ==
  IF ev.msg.kind = "chain" \/ ~chain.watch \/ ev.i = Attempts THEN Quiet
  ELSE [ev EXCEPT !.pc = "retry", !.i = @ + 1]

UpdateChain ==
  /\ ev.pc = "update" /\ ~Latched
  /\ \E x \in HandleChainUpdate(m_chain) :
       /\ Pay(x.lost)
       /\ m_chain' = x.chain
       /\ ev' = Updated(x.chain)
  /\ UNCHANGED <<isOpen, recs, m_recorder, m_buffer, control, reader,
                 backend, told, bounds>>

\* The last file has grown; if it is waited for, it is watched now.
HandleFileSize ==
  /\ ev.pc = "handle" /\ ev.msg.kind = "size"
  /\ ~Latched
  /\ LET n == Len(m_chain.chained)
         grown == [m_chain EXCEPT !.chained[n].size = ev.msg.size]
     IN IF n = 0 \/ m_chain.chained[n].file # ev.msg.key \/ m_chain.chained[n].size >= ev.msg.size
        THEN UNCHANGED <<m_chain, loss>>
        ELSE IF ~m_chain.switchOnCreate
        THEN m_chain' = grown /\ UNCHANGED loss
        ELSE \E x \in SwitchChainLast(grown) :
               /\ Pay(x.lost)
               /\ m_chain' = [x.chain EXCEPT !.switchOnCreate = ~x.ok]
  /\ ev' = Quiet
  /\ UNCHANGED <<isOpen, recs, m_recorder, m_buffer, control, reader,
                 backend, told, bounds>>

----------------------------------------------------------------------------
(***************************************************************************)
(* Read                                                                    *)
(***************************************************************************)
ReaderGoes(pc) == reader' = [reader EXCEPT !.pc = pc]

ReadBegin ==
  /\ reader = Idle /\ control.pc = "idle"
  /\ Call
  /\ reader' = [Idle EXCEPT !.pc = "read"]
  /\ UNCHANGED <<client, control, ev, backend, told, loss>>

\* As many bytes of the next packet as are wanted.
ReadPacket ==
  /\ reader.pc = "read"
  /\ LET b == Staged(m_buffer)
     IN \E r \in 1..Len(b.packet) :
          /\ m_buffer' = [b EXCEPT !.packet = SubSeq(@, r + 1, Len(@))]
          /\ told' = IF told = Unknown THEN told ELSE told + r
  /\ reader' = Idle
  /\ UNCHANGED <<isOpen, recs, m_recorder, m_chain, control, ev, backend, bounds, loss>>

\* What the reader does by what remains of the file.
Remaining(chain, call) ==
  LET rs == GetRemaining(Current(chain))
  IN IF rs = 0 THEN [call EXCEPT !.pc = "look"]
     ELSE IF rs < 0 THEN Idle
     ELSE [call EXCEPT !.pc = "block", !.rp = Min({rs, Chunk}), !.i = 1]

\* The beginning of _read.  The recorder is kept to the end.
ReadStage ==
  /\ reader.pc = "read"
  /\ bytesUnread(m_buffer) = 0
  /\ reader' = IF m_chain.currentSequence = 0 \/ m_recorder = 0 THEN Idle
               ELSE Remaining(m_chain, [reader EXCEPT !.rec = m_recorder,
                                                      !.fp = Current(m_chain).pos])
  /\ UNCHANGED <<client, control, ev, backend, told, bounds, loss>>

\* fp is where _read began, even if it has gone on to another file.
LookAhead ==
  /\ reader.pc = "look"
  /\ LET ahead == m_chain.currentSequence = Len(m_chain.chained)
     IN reader' = [reader EXCEPT !.ahead = ahead,
                     !.pc = IF ~ahead THEN "next" ELSE IF reader.fp > 0 THEN "position" ELSE "chain"]
  /\ UNCHANGED <<client, control, ev, backend, told, bounds, loss>>

\* External: how far the recorder is in the file it writes now.
GetFilePosition(rec) ==
  LET own == {f \in DOMAIN files : files[f].rec = rec}
  IN IF recs[rec].playing /\ live[recs[rec].num] = rec THEN files[Max(own)].size ELSE -1

PollPosition ==
  /\ reader.pc = "position"
  /\ LET rp == GetFilePosition(reader.rec)
     IN reader' = IF rp > reader.fp THEN [reader EXCEPT !.pc = "size", !.rp = rp]
                  ELSE [reader EXCEPT !.pc = "wait"]
  /\ UNCHANGED <<client, control, ev, backend, told, bounds, loss>>

\* The chain may have got a new file by now.
SetSize ==
  /\ reader.pc = "size"
  /\ m_chain' = [m_chain EXCEPT !.chained[m_chain.currentSequence].size = reader.rp]
  /\ reader' = Remaining(m_chain', reader)
  /\ UNCHANGED <<isOpen, recs, m_recorder, m_buffer, control, ev,
                 backend, told, bounds, loss>>

\* From where the reader was to the file it goes on with, by the sizes the client
\* knows: nothing was left when it looked, but more may have come since.  If it is
\* passed over, the application does not know where it is any more.
Passed(chain) ==
  Before(chain, chain.currentSequence) - Before(m_chain, m_chain.currentSequence)
    - Current(m_chain).pos
Skip(chain) == told' = IF Passed(chain) = 0 THEN told ELSE Unknown

\* To get past a dummy file: two critical sections.
PollChain ==
  /\ reader.pc = "chain"
  /\ \E x \in HandleChainUpdate(m_chain) : Pay(x.lost) /\ m_chain' = x.chain
  /\ ReaderGoes("last")
  /\ UNCHANGED <<isOpen, recs, m_recorder, m_buffer, control, ev,
                 backend, told, bounds>>

SwitchLast ==
  /\ reader.pc = "last"
  /\ \E x \in SwitchChainLast(m_chain) :
       /\ Pay(x.lost)
       /\ m_chain' = x.chain
       /\ Skip(x.chain)
       /\ IF Current(x.chain).size > 0 THEN reader' = Remaining(x.chain, reader)
          ELSE ReaderGoes("wait")
  /\ UNCHANGED <<isOpen, recs, m_recorder, m_buffer, control, ev,
                 backend, bounds>>

\* The time is up, or not yet.
Wait ==
  /\ reader.pc = "wait"
  /\ \/ reader' = Idle
     \/ ReaderGoes("look")
  /\ UNCHANGED <<client, control, ev, backend, told, bounds, loss>>

\* The next file of the chain, from its first byte.  A rewind that fails goes
\* unnoticed.
SwitchNext(chain) ==
  UNION {IF x.ok THEN {[y EXCEPT !.ok = TRUE] : y \in TransferSeek(x.chain, x.chain.currentSequence, 0)}
         ELSE {x} : x \in SwitchChain(chain, chain.currentSequence + 1)}

NextFile ==
  /\ reader.pc = "next"
  /\ \E x \in SwitchNext(m_chain) :
       /\ Pay(x.lost)
       /\ m_chain' = x.chain
       /\ reader' = IF x.ok THEN Remaining(x.chain, reader) ELSE Idle
       /\ IF x.ok THEN Skip(x.chain) ELSE UNCHANGED told
  /\ UNCHANGED <<isOpen, recs, m_recorder, m_buffer, control, ev,
                 backend, bounds>>

\* TransferRequestBlock gives some of the bytes asked for, 0 if the file has
\* none there, and fails at once if the transfer is not open; no bytes are asked
\* for again while the reader is ahead.
RequestBlock ==
  /\ reader.pc = "block"
  /\ LET transfer == Current(m_chain)
         there == IF transfer.open THEN Min({reader.rp, files[transfer.file].size - transfer.pos})
                  ELSE 0
     IN \/ \E r \in 1..there :
             /\ m_chain' = [m_chain EXCEPT !.chained[m_chain.currentSequence].pos = @ + r]
             /\ m_buffer' = [m_buffer EXCEPT !.rbuf =
                   writePacket(@, [i \in 1..r |-> <<transfer.file, transfer.pos + i - 1>>])]
             /\ reader' = [Idle EXCEPT !.pc = "read"]
             /\ UNCHANGED loss
        \/ /\ there <= 0
           /\ reader' = IF transfer.open /\ reader.ahead /\ reader.i < Attempts
                        THEN [reader EXCEPT !.i = @ + 1] ELSE Idle
           /\ UNCHANGED <<m_chain, m_buffer, loss>>
        \/ /\ Lose
           /\ reader' = Idle
           /\ UNCHANGED <<m_chain, m_buffer>>
  /\ UNCHANGED <<isOpen, recs, m_recorder, control, ev,
                 backend, told, bounds>>

----------------------------------------------------------------------------
(***************************************************************************)
(* Seek                                                                    *)
(***************************************************************************)
\* Mutant: an offset counts from the end of the buffer.
RebasedNot(offset, whence) == offset

\* An offset from the current position counts from the first byte in the buffer.
Rebased(offset, whence) ==
  IF whence = "cur" THEN offset - bytesUnread(m_buffer) ELSE offset

\* The file that has p: from the current one on, forwards or backwards.
FileOf(chain, p) ==
  IF p > GetPosition(chain, Cleared(m_buffer))
  THEN Min({i \in chain.currentSequence..Len(chain.chained) : Before(chain, i + 1) >= p})
  ELSE Max({i \in 1..chain.currentSequence : Before(chain, i) <= p})

SeekTo(chain, p) ==
  IF p = GetPosition(chain, Cleared(m_buffer)) THEN {Outcome(TRUE, chain, FALSE)}
  ELSE LET i == FileOf(chain, p)
       IN UNION {IF x.ok THEN SwitchChain(x.chain, i) ELSE {x} :
                   x \in TransferSeek(chain, i, p - Before(chain, i))}

\* _seek, with the buffer dropped.
_seek(chain, offset, whence) ==
  LET p == CASE whence = "set" -> offset
             [] whence = "end" -> GetSize(chain) + offset
             [] whence = "cur" -> GetPosition(chain, Cleared(m_buffer)) + offset
  IN IF m_recorder = 0 \/ chain.currentSequence = 0 \/ p \notin 0..GetSize(chain)
     THEN {Outcome(FALSE, chain, FALSE)}
     ELSE SeekTo(chain, p)

\* Where the application wants to go.
Wanted(offset, whence) ==
  CASE whence = "set" -> offset
    [] whence = "end" -> GetSize(m_chain) + offset
    [] whence = "cur" -> IF told = Unknown THEN GetPosition(m_chain, m_buffer) + offset
                         ELSE told + offset

\* Seek(0, WHENCE_CUR) changes nothing.  After a seek that fails the
\* application has to ask where it is: the buffer is dropped.
Seek ==
  /\ reader = Idle /\ control.pc = "idle"
  /\ Call
  /\ m_buffer' = Cleared(m_buffer)
  /\ \E offset \in Offsets, whence \in {"set", "end", "cur"} :
       /\ offset # 0 \/ whence # "cur"
       /\ \E x \in _seek(m_chain, Rebased(offset, whence), whence) :
            /\ Pay(x.lost)
            /\ m_chain' = x.chain
            /\ told' = IF x.ok THEN Wanted(offset, whence) ELSE GetPosition(x.chain, m_buffer')
  /\ UNCHANGED <<isOpen, recs, m_recorder, threads, backend>>

----------------------------------------------------------------------------
(***************************************************************************)
(* The backend (external)                                                  *)
(***************************************************************************)
Recorded(c) == Max({f \in DOMAIN files : files[f].rec = live[c]})

\* The program of a card gets its file; the chain is told.
NameFile(c) ==
  /\ live[c] # 0
  /\ LET f == Recorded(c)
     IN /\ ~files[f].named
        /\ files' = [files EXCEPT ![f].named = TRUE]
        /\ Post(<<Event("chain", files[f].UID, 0)>>)
  /\ UNCHANGED <<client, threads, live, told, bounds, loss>>

\* It grows, and its size may be told.
Grow(c) ==
  /\ live[c] # 0
  /\ LET f == Recorded(c)
     IN /\ files[f].named /\ files[f].size < MaxSize
        /\ files' = [files EXCEPT ![f].size = @ + 1]
        /\ \/ UNCHANGED events
           \/ Post(<<Event("size", f, files[f].size + 1)>>)
  /\ UNCHANGED <<client, threads, live, told, bounds, loss>>

\* The next program begins.
NextProgram(c) ==
  /\ live[c] # 0
  /\ Len(files) < MaxFiles
  /\ LET f == Recorded(c)
     IN /\ files[f].named
        /\ files' = Append(files, [rec |-> live[c], UID |-> files[f].UID,
                                   size |-> 0, named |-> FALSE])
  /\ Post(<<Event("watch", c, 0), Event("done", c, 0)>>)
  /\ UNCHANGED <<client, threads, live, told, bounds, loss>>

LoseEvent ==
  /\ events # <<>>
  /\ Lose
  /\ events' = Tail(events)
  /\ UNCHANGED <<client, threads, live, files, told, bounds>>

ControlStep ==
  \/ SpawnLiveTV \/ FindCards \/ TryCard \/ SpawnRecorder \/ Tuned \/ TuneTimeout
  \/ StopLiveTV \/ Close \/ Open \/ \E keep \in BOOLEAN : KeepLiveRecording(keep)
EventStep ==
  \/ TakeEvent \/ HandleChain \/ HandleWatch \/ HandleDone \/ Retry
  \/ UpdateChain \/ HandleFileSize
ReaderStep ==
  \/ ReadBegin \/ ReadPacket \/ ReadStage \/ LookAhead \/ PollPosition
  \/ SetSize \/ PollChain \/ SwitchLast \/ Wait \/ NextFile \/ RequestBlock \/ Seek
BackendStep ==
  \/ \E c \in Cards : NameFile(c) \/ Grow(c) \/ NextProgram(c)
  \/ LoseEvent

\* A destructor runs before its thread goes on.
Next ==
  \/ \E rec \in Dying : Destroy(rec)
  \/ /\ Dying = {} /\ control.pc # "crashed"
     /\ ControlStep \/ EventStep \/ ReaderStep \/ BackendStep

Spec == Init /\ [][Next]_vars

----------------------------------------------------------------------------
(***************************************************************************)
(* Properties                                                              *)
(***************************************************************************)
\* The types of the variables; no work-around is tried more than Attempts times.
TypeOK ==
  /\ isOpen \in BOOLEAN
  /\ recs \in Seq([num : Cards, playing : BOOLEAN, keep : BOOLEAN])
  /\ m_recorder \in 0..Len(recs)
  /\ m_chain.UID \in Nat /\ m_chain.watch \in BOOLEAN /\ m_chain.switchOnCreate \in BOOLEAN
  /\ m_chain.chained \in Seq([file : 1..Len(files), size : Nat, pos : Nat, open : BOOLEAN])
  /\ m_chain.currentSequence \in 0..Len(m_chain.chained)
  /\ m_buffer.rbuf.unread \in Nat
  /\ control.pc \in {"idle", "find", "try", "ask", "tuning", "crashed"}
  /\ reader.i \in 0..Attempts /\ ev.i \in 0..Attempts
  /\ \A c \in Cards : live[c] \in 0..Len(recs)
  /\ told \in Int

\* The chain is the one of the recorder in use: whatever events are late, of an
\* earlier chain with the same name or of a recorder that was replaced, the files
\* are programs of that recorder, in the order they were recorded, none twice.
ChainInOrder ==
  /\ \A i, j \in DOMAIN m_chain.chained :
       i < j => m_chain.chained[i].file < m_chain.chained[j].file
  /\ m_recorder # 0 =>
       \A i \in DOMAIN m_chain.chained : files[m_chain.chained[i].file].rec = m_recorder

\* The byte of the chain at p, by the sizes the client knows.
ByteAt(p) ==
  LET i == Min({k \in DOMAIN m_chain.chained : p < Before(m_chain, k + 1)})
  IN <<m_chain.chained[i].file, p - Before(m_chain, i)>>

\* As long as nothing is lost, the application is where it believes to be: the
\* position it was told last, plus the bytes it got since, is GetPosition, and
\* the bytes in the buffer are the ones of the chain from there on, by the sizes
\* the client knows, across files and seeks and while the chain grows.  That ends
\* where the reader leaves known bytes behind (NothingLeftBehind), until the
\* application seeks again.
StreamOrder ==
  loss = MaxLoss /\ told # Unknown =>
    /\ GetPosition(m_chain, m_buffer) = told
    /\ LET unread == Staged(m_buffer).packet
       IN \A i \in DOMAIN unread : unread[i] = ByteAt(told + i - 1)

\* The reader goes on to the next file when it has read the one before to its end
\* ("No remaining data or null size. [...] Otherwise I have to move on to the next
\* transfer", mythlivetvplayback.cpp:575).
NothingLeftBehind ==
  [][reader.pc = "next" /\ m_chain'.currentSequence # m_chain.currentSequence
       => GetRemaining(Current(m_chain)) = 0]_vars

\* As long as nothing is lost, the backend serves live TV for the client if and
\* only if a recorder that is still referenced plays it: none is left serving
\* nobody by a replaced, closed or failed recorder, or stopped by the late
\* destructor of an earlier one.
ServedIsPlayed ==
  loss = MaxLoss /\ Dying = {} =>
    \A c \in Cards, rec \in DOMAIN recs :
      live[c] = rec <=> recs[rec].num = c /\ recs[rec].playing /\ rec \in References

=============================================================================
