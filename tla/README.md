# A TLA+ model of cppmyth

cppmyth is a client library for the MythTV backend.  An application talks to
the backend over several TCP connections (control, events, file transfers) and
over HTTP; it reads recordings and live TV as streams of bytes.  This directory
models the parts of the library that are hard to test: the lock everything is
built on, the pool of threads, the threads that dispatch events, the protocol
connections down to the receive buffer of the socket, playing a recording and
live TV, and the client of the web services.

Paths below are under `src/cppmyth/src/`.  `PROJECT.json` maps every definition
to the lines it models.

## Inventory

| Part | State | Operations | Talks to | What is hard | What makes it right |
|---|---|---|---|---|---|
| `OS::Latch` (`private/os/threads/latch.*`) | owner, waiters, step of X, node per S holder, two gates | `lock`, `unlock`, `lock_shared`, `unlock_shared`, `try_lock_shared` | used by every connection and playback class | hand-over between a spin lock, two mutexes and two conditions; time-outs | exclusion, no lost wake-up, X precedence |
| Threads, `Event`, `Condition`, `ThreadPool` (`private/os/threads/`) | flags of a thread handle, queue of workers | start, stop, wait; enqueue, suspend, resize | the event handler uses `Thread` and `Event`; nothing in the library uses the pool yet | flags that are levels and pulses at once, keep-alive against enqueue | no worker is stranded, a stop ends |
| Event handler (`mytheventhandler.*`) | map of subscriptions, list of ids per event, a queue per subscription | create, subscribe, revoke, start, stop, reset; dispatch | `ProtoEvent`, callbacks of the application | revoking joins a thread under the mutex; ids are used again; queue tested without its mutex | delivery once and in order, all calls return |
| `ProtoBase`, `ProtoMonitor` (`proto/`) | socket, counters of the message, hang flag, versions | open, close, about 25 commands | backend; recursive latch | leftovers of replies, time-outs, reconnection with another version, calls of other threads | a call reads its own reply |
| `ProtoEvent` | as `ProtoBase` | `RcvBackendMessage`, `RcvSignalStatus` | event thread | bytes buffered by `TcpSocket` and not seen by `poll` | every message is seen |
| `ProtoPlayback`, `ProtoTransfer` | position, requested position, file id | request block, seek, is open, done | two connections, latch held by hand | data and answer in any order, time-outs, seek with bytes on their way | the byte read is the byte at the position |
| `ProtoRecorder` | playing and recording flags | spawn, stop, queries | live TV | flag raised before the backend answers; an event may hold the last reference | the backend serves what is played, and nothing else |
| `TcpSocket` | receive buffer | connect, send, receive, listen | all connections | partial reads, time-outs, bytes of the next message in the buffer | every byte is read once, in order |
| `RingBuffer`, `RecordingPlayback`, `FilePlayback` | packets, consumed bytes, transfer | read, seek, position; size by event | transfer, event handler | position composed of two moving parts | position and bytes agree |
| `LiveTVPlayback` | chain of transfers, current and last | spawn, stop, switch, read, seek | recorder, event handler | chain changed by the event thread while it is read | the chain is the recorder's, reads and seeks follow it |
| `WSAPI`, `WSRequest`, `WSResponse`, `WSStream` | versions of the services, login token, cache of hosts; one response | about 40 calls by version of their service, lists by pages | HTTP | version read without the mutex, backend restarted between two pages, page limits, requests sent again | all items once, of one version; nothing posted twice |
| JSON, data objects, conversions, URI, compressor | none | pure | – | – | – |

## Modules

| Module | Models |
|---|---|
| `Latch` | `OS::Latch`, with both settings of X precedence |
| `RWLock` | what such a lock promises: the abstract specification |
| `LatchProofs`, `EventHandlerProofs`, `ProtoMonitorProofs`, `RecordingPlaybackProofs`, `LiveTVPlaybackProofs`, `WSAPIProofs`, `ThreadPoolProofs`, `ProtoEventProofs` | the theorems about the module of that name; `RecordingPlaybackProofs` has those about `ProtoPlayback` too |
| `EventHandler` | `BasicEventHandler` and its subscription threads |
| `ProtoCommands` | what each command of the monitor reads of its reply |
| `ProtoMonitor` | a connection: opening, versions, commands, failures, closing |
| `RecorderCommands` | the same for the commands of `ProtoRecorder`, run by `ProtoMonitor` |
| `ProtoPlayback` | block requests and seeks over two connections |
| `RingBuffer` | the ring of packets and the packet that is being read |
| `RecordingPlayback` | reading and seeking a recording; composes `ProtoPlayback` and `RingBuffer` |
| `LiveTVPlayback` | the chain of live TV, the recorder, its events; uses `RingBuffer` |
| `ProgramInfo` | the five layouts of a program, and the width of numbers |
| `ProtoEvent` | the event connection over the receive buffer of `TcpSocket`; uses `ProgramInfo` |
| `WSCommands` | what each call of `WSAPI` sends and how it takes the answer |
| `WSAPI` | the web service client: service versions, login, pages |
| `Event` | `OS::Event` as a value |
| `ThreadPool` | the pool of threads; uses `Event` |
| `MC*` | the instances that TLC checks |

**Latch.**  The fields change only under the spin lock, so a section from
`spin_lock` to `spin_unlock` is one step.  What is not atomic is kept: a waiter
takes the mutex of the gate before it frees the spin lock (`xgate` → `xcond` →
`xwait` → `xretry`), a notifier takes it after (`xnotify`, `snotify`), a
time-out may end any wait.  The list of nodes is a count per thread.  `Upgrade`
says whether a thread that holds S may call `lock()`; two that do so wait for
each other for ever, which is why the run, which checks liveness, sets it to FALSE
(no caller in the library upgrades).  The theorems hold for both settings.

**EventHandler.**  `m_mutex` is a variable because revoking holds it while it
joins a thread.  The list of an event is kept as how often it has each id: a
dispatch goes through the whole list under the mutex, so the order in it cannot be
seen.  A message is its index in `log`; `delivered` and `wanted` are history.  The unlocked `m_msgQueue.empty()` may miss a message whose
notification has not been taken yet.  `Start` and the constructor of a
subscription return when the thread runs, or fail.  Opening a connection is one
step here (module `ProtoMonitor` has its inside).

**ProtoMonitor.**  The stream is counted in fields: a reply is its length and
then so many fields.  A command is a record that says how many fields it tests,
whether a list follows and who flushes the rest (`ProtoCommands`).  A late reply
is a read that fails before it.  The latch is its holder: that it excludes is
what `Latch` proves.  `Open` gives the latch up before the announce, unless a
command holds it around; `Close` clears the hang flag after it.  `my_version` is
shared by all connections of the process, so another connection may change it,
and the backend may be replaced by one of another version.

**ProtoPlayback.**  A byte is its offset in the file, so `tx` shows what the
client will read.  The loop of `TransferRequestBlock` is one action per kind of
turn (`Poll`, `PollNothing`, `PollFailed`, `FeedbackFailed`); the latch is held
from `RequestSend` to the answer.  A second thread asks `TransferIsOpen` over
the control connection and opens it again when it hangs.  The backend, external,
answers a request with what the file has from its own position, and the file may
grow.

**RecordingPlayback** takes the steps of `ProtoPlayback` and adds what the class
keeps: `_read` chooses the size of the block (`ReadBlock`), the bytes of each turn
of the poll go to a packet and the packet to the ring (`Receive`), or are freed
with a request that failed (`Failed`).  The application reads any part of the
packet.  `Seek` counts from the first byte in the buffer and drops the buffer even
if it fails.  `TransferDone`, `CloseTransfer` and `OpenTransfer` replace the
transfer; the event thread stages recording and transfer, and applies the size
later (`HandleBackendMessage`, `SizeTold`).  `told` is history: where the
application believes to be.  One thread of the application reads, seeks and opens.

**LiveTVPlayback.**  Three threads: one tunes, keeps and stops (`control`), one
reads and seeks (`reader`), one handles events (`ev`).  A command to the backend
is one step that works, is refused or is lost.  A recorder is an object with
references: an event may be the last to hold one that was replaced, and its
destructor stops the card.  The reader's steps are those between its uses of the
chain: the remaining bytes are taken (`ReadStage`) before it looks whether the
file is the last (`LookAhead`).  The application does not tune while it reads:
`_read` uses the chain without the latch.  A recorder that cannot be had is
dereferenced (`control.pc = "crashed"`), and the second constructor leaves
`m_limitTuneAttempts` unset: a free choice wherever it is read (`GiveUpCard`).  The
name of a chain is the second it began, so two chains may have the same.
`FindTunableCardIds` gives the one list of the free cards in preferred order.
`told` is history: where the application believes to be.  When the reader goes to
another file and leaves bytes behind, the application does not learn of it: `told`
becomes unknown (`Skip`) until it seeks.

**ProtoEvent and ProgramInfo.**  The unit is a field or the length of a message.
`net` and `wire` are what is sent and what has arrived; `ReceiveData` fills
`m_buffer` with as much as it holds, the beginning of the next message included.
A program is the sequence of its fields by type, and its values are the least, the
greatest and one that does not fit, so a conversion of the wrong width is seen.

**WSCommands and WSAPI.**  A call checks its service under the mutex, gives the
mutex up, reads the protocol version and sends its requests, page by page.  The
backend may be restarted as another release, its list may change, a request or
an answer may be lost.  An answer is one step; headers, chunks and compression
are below it.  Two variables are history: `current` says that the versions the
client uses next were, or will first be, asked of the backend that runs, `calm`
which calls saw no restart and no alarm (`InvalidateService`) since they checked
their service.

**ThreadPool and Event.**  The critical sections of `m_mutex` are steps, the wait
on an event is two (`EnterWait`, `Wake`), so that a notification may come before,
within and after it.  The threads are a list, the newest first, because resizing
stops the newest; which handle a new thread gets is left open.  `missed` is history: the pool counted on a thread that was to
leave.

## Runs

| Run | Instance | Shows |
|---|---|---|
| `latch` | three threads, X and S nested twice, both settings of px, no upgrades | `Exclusion`, `Reservation`, `NoLostWakeup`, `ImplementsRWLock`, `PendingServed`, `ReservedTaken` |
| `event_safety` | two subscribers of one backend event, two ids, three creations, no losses | `Delivery` |
| `event_liveness` | one subscriber, two losses, failed attempts or resets, stop at any moment | `StatusBeforeData`, `PostedHandled`, `RevokeReturns`, `StopReturns`, `ResetServed` |
| `event_reuse` | two subscribers, one id | violation of `OnlySubscribed` |
| `proto_monitor` | two threads, backends of versions 75, 91 and the unknown 92, replies of 0, 2 and 11 fields | `OwnReply`, `Framing`, `AnnouncedFirst`, `CallsReturn` |
| `playback` | `RecordingPlayback` over `ProtoPlayback`: two recordings of up to 2 bytes that grow, blocks of up to 2, 3 calls, offsets -1 to 1 from all three origins, a transfer opened or closed once, a size event on its way, 2 failures | `ReadInOrder`, `AnswersMatched`, `LatchWhileRequested`, `CallReturns` |
| `playback_recover` | `ProtoPlayback` alone: a file of 4 bytes, 3 calls, 1 failure | violation of `RecoveredOrDead` |
| `wsapi` | two threads, 2 calls, backends of three releases (one wants a login, one is newer than the library), lists of 0 and 3 elements, pages of 2 and 3, limits 0 and 3, one fault | `BoundByItsVersion`, `CompleteList`, `PostedOnce`, `CallsReturn` |
| `wire` | a version of each layout, two messages of every kind of event, segments of 40 fields or all, a buffer of 20, two addresses, one fault | `EventsInOrder`, `ProgramDecoded`, `EventsReturned` |
| `livetv` | two cards for one channel and none for another, two programs of up to 2 bytes, two cards tried (one after the other, or in two tunings), 3 calls, offsets -1, 0 and 3 from all three origins, two events on their way, one loss | `ChainInOrder`, `StreamOrder`, `ServedIsPlayed` |
| `livetv_switch` | the same with one tuning and nothing lost | violation of `NothingLeftBehind` |
| `pool` | sizes 0 to 2, a queue of 3, 5 calls, one thread that does not start | `NoneForgotten`, `DestructorReturns` |

What the newer properties say:

- `ReadInOrder`, `StreamOrder`: as long as nothing fails or is lost, the position
  the application was told last plus what it got since is `GetPosition`, and the
  buffer holds the bytes that follow, over blocks read in part, seeks, files that
  grow and, for live TV, from file to file, until the reader leaves known bytes
  behind at a switch (`NothingLeftBehind`, see Findings).
- `ResetServed`: a reset held while the handler waits for messages leads to the
  connection being closed; that it can be opened again is not assumed.  A reset asked
  for while `RetryConnect` announces the connection it has just opened is not held:
  line 392 releases it, "to break any loop".
- `ChainInOrder`: whatever events are late or of a replaced recorder, the chain
  holds programs of the recorder in use, in order, none twice.
- `ServedIsPlayed`: the backend serves live TV exactly for recorders that play and
  are still referenced.
- `EventsInOrder`, `ProgramDecoded`, `EventsReturned`: events are returned whole,
  in order and with the program that was sent, in every layout; each is returned
  unless the connection is lost, or it came with the one before and `Listen`,
  which polls the socket and not the buffer, does not see it.
- `BoundByItsVersion`: what is received, a list or one object, with a version of its
  own or without, is bound by the version of the backend that sent it, once the
  versions of the client are current.  Most variants do not look at the version of
  their answer, so this rests on the alarm of those that do, on `InitWSAPI` under the
  mutex and on the order of check, read and request.  Excepted are the calls that a
  restart or an alarm meets between their check and their answer, and an alarm
  sounded while another thread is in `InitWSAPI`; `CompleteList`: every element once;
  `PostedOnce`: a request sent again after a login is not done twice.
- `NoneForgotten`: a queued worker has a thread that will look for it, unless a
  thread that was to leave was counted on (see Findings).

Bounds.  Three threads make a latch with an owner, a pending request
and a reader at once; nesting of two separates the first from a nested lock.  For the
event handler two ids suffice for one to be revoked while the other stays in the
list, and a third creation for an id to be used again; a subscriber of status
messages goes through the same dispatch as one of data.  Replies of 0, 2 and 11 fields are
shorter than, equal to and longer than what a command reads, whichever it is;
two failures let one happen while the other is being recovered from; version 92
exercises the end of the version loop.  A block of 2 bytes can be read in part, from
the socket and from the packet, and abandoned by a seek in each state; a file that
grows from 0 to 2 makes the size wrong in both directions.  Two programs of live TV
are one switch, forwards and back; a second card or a second tuning replaces a
recorder, with an event of the old one still on its way.  A buffer of 20 fields is shorter than a program
and longer than an event without one.  Two threads in the pool and five calls let
one leave while the other is counted on.

Deadlock is checked where the system may not stop.  The protocol and event
runs use up their bounds and stop; there, the liveness properties say that no
call is left hanging.

Fairness, and why the code justifies it:

- `Latch`: strong fairness for a thread that asks for the spin lock or a mutex
  (it yields and asks again, and waits end after `EXIT_TIMEOUT`), weak fairness
  for the rest; callers release S.  Nothing is asked of owners of X.
- `EventHandler`: weak fairness per thread; callbacks return; the backend falls
  silent for `EVENTHANDLER_TIMEOUT` once, so that the wait for a message times out.
  That an attempt to connect succeeds is not assumed.
- `ProtoMonitor`: weak fairness of each thread inside a call, since every read
  and write of the socket ends within its time-out.
- `ProtoPlayback`, `RecordingPlayback`: strong fairness for the latch (`Latch`
  hands it over), weak fairness for the reader inside a call, since `poll` returns;
  a poll to which nothing will come times out.  Nothing is asked of the application.
- `WSAPI`: weak fairness of each thread inside a call: requests end by their
  time-out and the mutex is held over finitely many of them.
- `ProtoEvent`: weak fairness of the event thread and of the network.
- `ThreadPool`: weak fairness of each pooled thread and of the destructor; the
  workers they process return.
- `LiveTVPlayback` states no liveness: how long it waits depends on the backend.

## Findings

- `event_reuse`: an id of a revoked subscription is given to the next one, which
  inherits the events of the old one until they are dispatched
  (`mytheventhandler.cpp:249`).
- `playback_recover`: the seek that is to "Recover the file position or die"
  (`proto/mythprotoplayback.cpp:299`) returns at once because the position is the
  one it asks for; neither happens.  The block that was requested stays in the
  stream and is not counted, so a later seek drops too little.
- `livetv_switch`: the reader takes the remaining bytes once (`mythlivetvplayback.cpp:571`)
  and then asks repeatedly whether its file is the last (line 584).  When the size of
  the last bytes and the next file are told in between, it goes on to the next file
  (line 622) and the bytes are lost, with nothing lost on the network.

Two behaviours are in the models and no property forbids them, since the
repository promises nothing: a mark list that hangs up half way is returned as
complete, and a seek whose answer is lost leaves client and backend at different
positions.  `CallReturns` excepts a transfer connection closed by the backend:
`recv` returns 0 and the loop polls again without end.

Behaviours met while modelling, which are in the models as they are in the code and
for which no document of the repository promises otherwise:

- Thread pool: a worker that is queued while a thread has decided to leave, or was
  told to, and is still counted in `m_poolSize` or `m_waitingCount`
  (`threadpool.cpp:193`, `334`) stays in the queue until the next call;
  `NoneForgotten` names it.  `wait_empty` is notified before the queue is looked at,
  so it may return while the queue is not empty, and `reset` empties it without a
  notification.  Only `tests/test_intrinsic.cpp` uses the pool.
- `start_thread(true)` (`thread.h:75`) waits for a flag that a thread which ends at
  once has taken back; the threads of the event handler end only when told to, so
  nothing in the library meets it.
- Live TV: what `livetv_switch` shows also happens to a reader that began at
  the first byte of a file and polls the chain "to bypass a dummy file" (line 604): if
  the file has grown and another was chained meanwhile, `SwitchChainLast` goes on with
  the other one, although the file was no dummy.  The proof of `StreamOrder` met this:
  the invariant `Reading` says from which states it can happen.  The branch of `HandleChainUpdate` that
  switches at once never runs, since the new transfer is not open.  A failed seek
  drops the buffer.  `SpawnLiveTV` does not drop it.
- From the end, live TV seeks to size plus offset, a recording to size minus offset.
- Recording: opening another transfer leaves the rest of the earlier one in the
  buffer, and `m_readAhead` raised; a late size event makes the size smaller again.
- Web services: the guide of so many days that a page is empty, from a backend with
  no channel, is asked for without end (`mythwsapi.cpp:1096`); `CallsReturn` names it.
  An alarm during the `InitWSAPI` of another thread has no effect, and a restart during
  `InitWSAPI` leaves ranks of one release beside the protocol of another.

## Proofs

The theorems hold for every value of the constants that satisfies the assumption
named in the module: any number of threads, any sizes, bounds, commands and
failures.  Each module proves `InductiveInvariant`, `Spec => []IInv`, with one lemma
per action, and derives the properties the runs check from `IInv`.  TLC checked each
`IInv` (and `Fetch` and `Versions` of `WSAPI`) as an invariant first, except that of `ProtoEvent`, which
quantifies over all sequences of messages.

| Module | Theorems for the properties of the runs | Assumptions |
|---|---|---|
| `LatchProofs` | `TypeCorrect`, `ExclusionHolds`, `ReservationHolds`, `NoWakeupIsLost`, `Implementation` (`Latch` implements `RWLock`) | `ThreadsAssumption`, `UpgradeAssumption`, `BoundsAssumption` |
| `RecordingPlaybackProofs` | `ProtocolInvariant` (the protocol by itself, for any caller), `TypeCorrect`, `AnswersAlwaysMatched`, `LatchOnlyWhileRequested`, `AlwaysReadInOrder` | `PlaybackAssumption`, `RecordingAssumption` |
| `LiveTVPlaybackProofs` | `TypeCorrect`, `ChainAlwaysInOrder`, `StreamAlwaysInOrder`, `AlwaysServedIsPlayed` | `LiveAssumption` |
| `ProtoMonitorProofs` | `TypeCorrect`, `AlwaysOwnReply`, `AlwaysFramed`, `AlwaysAnnouncedFirst` | `MonitorAssumption` |
| `WSAPIProofs` | `TypeCorrect`, `AlwaysBoundByItsVersion`, `AlwaysPostedOnce`, `AlwaysCompleteList` | `WSAPIAssumption`, `FetchAssumption` |
| `EventHandlerProofs` | `TypeCorrect`, `AlwaysDelivered`, `StatusAlwaysFirst` | `ActorsAssumption` |
| `ThreadPoolProofs` | `TypeCorrect`, `NoWorkerForgotten` | `PoolAssumption` |
| `ProtoEventProofs` | `TypeCorrect`, `EventsAlwaysInOrder`, `ProgramAlwaysDecoded` | `ProtoEventAssumption` |

None of the properties is inductive as it stands.  What `IInv` adds, and why:

- **Latch.**  X is granted on what the flag says, so one must know which threads can
  be where for each value of the flag.  `Control`: where a thread is fits its call, the
  spin lock and the mutexes it holds.  `OnePending`: at most one thread waits for the
  release of S, and then nobody owns X and the flag is at step 1, or at step 3 when X
  was handed over.  `XSleep`, `SSleep`: who sleeps on a gate is in a state in which
  somebody will notify it; the mutex held between the test and the wait is what makes
  them hold.  `Reservation` counts threads and uses the library's facts on cardinality.
- **RecordingPlayback.**  `Calls` ties the locals of `TransferRequestBlock` to the
  members they were read from and tells who holds the latch; `Stream` says what is on
  the data connection while nothing has failed: the bytes from `m_filePosition` up to
  the position of the backend, which are those asked for.  On top, `Buffer` says that
  the ring and the packet in use together hold one run of bytes (at most one of them is
  not empty when a block is asked for), and `Place` where the application is in each
  state of a call: before the bytes held, before those the loop has got so far, or at
  the target of the seek.
- **LiveTVPlayback.**  `Threads` says who may be where (nobody tunes while the reader
  is in `_read`, and a file that is waited for is waited for by control); `Recording`
  that a card that serves has a file.  For `ServedIsPlayed`, `Played` relates cards and
  recorders also while a destructor is due, and `Untried` keeps the cards that control
  will still try free: without it a card could be asked while it serves.  For
  `StreamOrder`, `Reading` says where the reader may be at each of its steps: transfers
  are within the size the client knows, one that is not open is at its beginning, and
  the reader that looks for more is where `_read` began or at the beginning of a file.
  `Place` has the position relative to the current file, from which the position in the
  chain follows by the lemmas about `Before` (the sum of sizes), a recursive function
  whose defining equation is proved once (`SumsExist`, `BeforeOf`).
- **ProtoMonitor.**  `Latched`: at which places a call holds the latch.  `Opened` and
  `Wire`: what the socket may hold in each state, a whole reply when its length is to be
  read next, else the fields the counters leave.  `Counted`: how much of a head or a
  list is left, so that no counter goes below zero.  `Announcing`: who will announce an
  open connection, or close it.
- **WSAPI.**  `Sound` holds of each call by itself: the page fits the variant, what was
  received has the version that was read, what was posted ends the call.  The result of
  a call is left untyped (`Tasks(Results)`): these properties do not need it.
  `BoundByItsVersion` rests on a second invariant, `Versions`.  An answer that tells no
  version is right only if the version read was, which the state of the call does not
  show: `Known` says that versions that are current and checked are those of the
  backend, and that no call is calm without them; `Versed` that a thread within
  `InitWSAPI` holds the mutex while nothing is checked, so that no other thread sets the
  versions, and that a calm call has read the version of the backend.
  `CompleteList` rests on a third one, `Fetch`: while nothing is lost and the list
  does not change, what was kept is what is kept of the beginning of the list, the next
  page starts right behind it, stays within the limit and, unless days divide it, asks
  for something.  `PageIsLast` is the arithmetic of the loop's end: a page that is not full
  ends the list, and one that reaches the limit ends at it.  `VisibleConcat` says that
  elements may be passed over page by page.
- **EventHandler.**  `Listed`: an id that is in the map is in the list of each event it
  wants.  `Course`: what the handler thread is about to dispatch at each of its places,
  and that a connection in use was reported as connected last.
- **ThreadPool.**  The threads are typed, and when the destructor is about to return on
  `m_empty` the pool has no thread.

- **ProtoEvent.**  `Story`: there are messages of the version in use, one for each entry
  of `sent`.  `Laid` places them, framed, behind the backend's answer in one sequence, the
  k-th behind `off[k]`; `Flow` says that buffer, wire and network together are what
  follows the first `pos` units of it, all of that while the connection is open and a
  beginning of it when it was cut; `Progress` says where `pos` is at each step of
  `RcvBackendMessage`, so that the counter of the message ends where the next frame
  begins, and `Decoded` what was made of the fields read so far.  Without the placement
  a read that ends in the middle of a field list could not be told from one that ends at
  a frame, and `m_msgLength` could run into the next message.  For `ProgramDecoded`, the
  lemmas about the layouts show that what is made for a version has the fields that are
  read, in the same order, and that each conversion gives back the least and greatest
  values of its type; the one layout that is made longer than it is read (75) is met by
  the flush.

Induction over data.  The library's induction theorems take a predicate as a parameter,
which the provers cannot instantiate.  Where the proofs need it (the sums of
`LiveTVPlayback`, the filter of `WSAPI`, the least refused field of a program) they use
induction over a set of natural numbers, which follows from the well-foundedness of `<`
(`Induction` in `WSAPIProofs`, `AllNumbers` in
`LiveTVPlaybackProofs`, `Least` in `ProtoEventProofs`), and recursive functions
whose existence is proved that way.

What proving changed in the models.  Two `CASE` expressions of `ProgramInfo` and
`ProtoEvent` had arms that overlap: TLC takes the first, but in TLA+ the choice is left
open, so nothing could be proved of them; the arms are disjoint now.  The loops over the
fields of a program and over the elements of a page are written as functions instead of
folds and `SelectSeq`, which compute the same.

Only model-checked: the liveness properties (`PendingServed`, `ReservedTaken`,
`PostedHandled`, `RevokeReturns`, `StopReturns`, `ResetServed`, `CallsReturn`, `CallReturns`,
`EventsReturned`, `DestructorReturns`), since fairness and `ENABLED` are out of the
prover's reach.  Every other property of a passing run is a theorem.

## Plan

All components with state of their own are modelled, at the depth given above, and
all safety properties of the runs are proved.  Worth adding next: the destructor of the
event handler, and `Open` and `Close` of `RecordingPlayback`.

## Not modelled

- `WSRequest`, `WSResponse`, `WSStream`: headers, chunks and gzip of one HTTP
  exchange, and its redirects; `WSAPI` takes an exchange as answered, refused or lost.  The URLs of
  artwork, icons and streams are only formatted.
- TLS (I/O around OpenSSL), UDP and server sockets.
- A message too long to be sent (`proto/mythprotobase.cpp:119`, refused before anything
  is sent), an answer to `SEEK` that is another position than the one asked for, and a
  control socket replaced between line 166 of `proto/mythprotoplayback.cpp` and the latch.
- The splitting of fields character by character: the unit is a field.
- The JSON parser and binder and the data objects (tables of names and types),
  URIs, times, the compressor (zlib), debug output: pure functions and wrappers.
- `shared_ptr` and `Locked`: a counter behind an atomic, a value behind a mutex.
- `FilePlayback`: `RecordingPlayback` without buffer and events.  `Open` and `Close`
  of `RecordingPlayback` and the destructor of the event handler.
- Getters, the signal status, and the pool of free packets of the ring.
- The vendored `sajson.h`, the emulation of pthreads on Windows, and the facade
  `mythcontrol`, which only forwards.
