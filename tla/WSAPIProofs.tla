----------------------------- MODULE WSAPIProofs -----------------------------
(***************************************************************************)
(* Proofs about the client of the web services (WSAPI) for any threads,    *)
(* releases of the backend, lists, limits and sizes of a page.             *)
(***************************************************************************)
EXTENDS WSAPI, SequenceTheorems, WellFoundedInduction, TLAPS

----------------------------------------------------------------------------
(***************************************************************************)
(* The inductive invariant                                                 *)
(***************************************************************************)
Before == {"idle", "check", "version", "host", "connection", "services"}
Places == Before \cup {"bind", "send", "unresolved", "done"}
Phases == {"first", "login", "again", "refused"}

\* The variants: one that goes on with another list is a list itself, and one that
\* has a limit is fetched by pages that days do not divide.
Shapes == [bind : BOOLEAN, check : BOOLEAN, fetch : {0, FETCHSIZE, FETCHSIZE_L},
           days : BOOLEAN, limit : BOOLEAN, sift : BOOLEAN, post : BOOLEAN,
           more : BOOLEAN]
KindOf(c) ==
  /\ c.more => c.check /\ c.fetch = FETCHSIZE /\ ~c.post
  /\ c.limit => c.fetch = FETCHSIZE /\ ~c.days
Kinds == {c \in Shapes : KindOf(c)}

\* The calls whose result is in R.
Tasks(R) ==
  [pc : Places, cmd : Kinds, proto : Nat, index : Nat, size : Nat, n : Nat,
   total : Nat, ret : R, phase : Phases, left : Seq(Services), host : 0..2,
   second : BOOLEAN, from : SUBSET Nat, sent : Nat, clean : BOOLEAN]

\* What holds of a call: the page fits the variant before it is bound, also
\* when a second list follows; a host name is asked for by a plain value; what
\* was received has the version that was read, unless no list was asked for;
\* what was posted ends the call.
Sound(me) ==
  /\ me.size <= me.cmd.fetch
  /\ me.index <= me.total
  /\ me.host > 0 => me.cmd = Value /\ ~me.second
  /\ me.pc = "idle" => me.cmd = Value /\ ~me.second
  /\ me.second => me.cmd.fetch = FETCHSIZE
  /\ me.pc \in Before /\ ~me.second => me.size = 0
  /\ me.pc = "services" => me.left # <<>>
  /\ me.from \subseteq {me.proto} \/ (me.pc = "done" /\ ~me.cmd.check)
  /\ me.sent = 0 \/ (me.sent = 1 /\ me.pc = "done")

Api ==
  /\ m_mutex \in Threads \cup {NoThread}
  /\ m_checked \in BOOLEAN
  /\ m_serviceVersion \in [Services -> Nat]
  /\ m_protocol \in {0} \cup {Protocol[r] : r \in Releases}
  /\ m_namedCache \subseteq {"self", "other"}
  /\ m_authToken \in {"none", "good", "stale"}
  /\ server \in Releases
  /\ list \in Seq(Nat)

Results == {task[t].ret : t \in Threads}

Calls ==
  /\ task \in [Threads -> Tasks(Results)]
  /\ \A t \in Threads : Sound(task[t])

IInv == Api /\ Calls

\* What holds of a list that is fetched with nothing lost and no change of it: the
\* beginning of the list was kept, and the next page starts where that ends, is not
\* empty and stays within the limit.
Fetching(me, l) ==
  /\ me.index = me.total /\ me.total <= Len(l)
  /\ me.ret = Sift(me.cmd, SubSeq(l, 1, me.total))
  /\ me.n > 0 => me.total < me.n /\ me.size <= me.n - me.total
  /\ ~me.cmd.days /\ me.cmd.fetch > 0 => me.size > 0

\* What is asked for of the list: all of it, up to the limit.
Asked(me, l) == IF me.n > 0 /\ me.n < Len(l) THEN SubSeq(l, 1, me.n) ELSE l

\* Only a list with a limit has one, a list in progress is as above, and one that
\* was fetched is what was asked for.
Fetched(me, l) ==
  /\ ~me.cmd.limit => me.n = 0
  /\ me.pc = "send" /\ me.clean /\ me.cmd.check => Fetching(me, l)
  /\ me.pc = "done" /\ me.clean /\ me.cmd.check => me.ret = Sift(me.cmd, Asked(me, l))

Fetch == \A t \in Threads : Fetched(task[t], list)

\* The places within InitWSAPI, and the calls that hold the mutex.
Asking == {"version", "host", "connection", "services"}
Holds(me) == me.pc \in Asking \cup {"unresolved"} \/ me.host > 0

\* What the versions have to do with the backend: they are those of the running
\* one when they are current and checked, and no thread is calm without them.
Known ==
  /\ current \in BOOLEAN /\ calm \subseteq Threads
  /\ current /\ m_checked => m_protocol = Protocol[server]
  /\ calm # {} => m_checked

\* What they have to do with the call me of thread u.
Versed(u, me) ==
  /\ Holds(me) => m_mutex = u
  /\ me.pc \in Asking => ~m_checked
  /\ current /\ me.pc = "services" => m_protocol = Protocol[server]
  /\ current /\ u \in calm /\ me.cmd.bind /\ me.pc = "send" => me.proto = Protocol[server]
  /\ current /\ u \in calm /\ me.cmd.bind => me.from \subseteq {me.proto}

Versions == Known /\ \A u \in Threads : Versed(u, task[u])

----------------------------------------------------------------------------
(***************************************************************************)
(* The variants                                                            *)
(***************************************************************************)
\* A method with one variant runs that one or none.
LEMMA OneVariant ==
  ASSUME NEW a, NEW b, NEW x, NEW w
  PROVE  Since(From(a, b, x), w) \subseteq {x}
BY DEF Since, From

\* A method with two variants runs one of them or none.
LEMMA TwoVariants ==
  ASSUME NEW a, NEW b, NEW x, NEW c, NEW d, NEW y, NEW w
  PROVE  Since(Either(From(a, b, x), From(c, d, y)), w) \subseteq {x, y}
BY DEF Since, From, Either

LEMMA KindFacts ==
  /\ Value \in Kinds /\ Value.fetch = 0 /\ ~Value.check
  /\ Bound \in Kinds /\ Checked \in Kinds /\ Post \in Kinds /\ BoundPost \in Kinds
  /\ Pages(FETCHSIZE) \in Kinds /\ Pages(FETCHSIZE_L) \in Kinds
  /\ [Pages(FETCHSIZE) EXCEPT !.sift = TRUE] \in Kinds
  /\ [Checked EXCEPT !.sift = TRUE] \in Kinds
  /\ [Pages(FETCHSIZE) EXCEPT !.days = TRUE] \in Kinds
  /\ [Pages(FETCHSIZE) EXCEPT !.limit = TRUE] \in Kinds
  /\ [Pages(FETCHSIZE) EXCEPT !.limit = TRUE].fetch = FETCHSIZE
  /\ [Pages(FETCHSIZE) EXCEPT !.more = TRUE] \in Kinds
<1> DEFINE Plain(c) == c \in Shapes /\ c.more = FALSE /\ c.limit = FALSE
<1>1. Plain(Value) /\ Value.fetch = 0 /\ Value.check = FALSE
  BY DEF Value, Shapes
<1>2. ASSUME NEW c \in Shapes, c.more = FALSE, c.limit = FALSE
      PROVE  /\ Plain([c EXCEPT !.bind = TRUE]) /\ Plain([c EXCEPT !.check = TRUE])
             /\ Plain([c EXCEPT !.sift = TRUE]) /\ Plain([c EXCEPT !.post = TRUE])
             /\ Plain([c EXCEPT !.days = TRUE])
  BY <1>2 DEF Shapes
<1>3. Plain(Bound) /\ Plain(Post)
  BY <1>1, <1>2 DEF Bound, Post
<1>4. Plain(Checked) /\ Plain(BoundPost) /\ Checked.check = TRUE /\ Checked.post = FALSE
  <2>1. Plain(Checked) /\ Plain(BoundPost)
    BY <1>2, <1>3 DEF Checked, BoundPost
  <2>2. Bound.post = FALSE
    BY DEF Bound, Value
  <2>3. Checked.check = TRUE /\ Checked.post = FALSE
    BY <1>3, <2>2 DEF Checked, Shapes
  <2>4. QED
    BY <2>1, <2>3
<1>5. \A k \in {FETCHSIZE, FETCHSIZE_L} :
        /\ Plain(Pages(k)) /\ Pages(k).fetch = k /\ Pages(k).check = TRUE
        /\ Pages(k).post = FALSE /\ Pages(k).days = FALSE
  <2>1. Bound.days = FALSE
    BY DEF Bound, Value
  <2>2. Checked.days = FALSE
    BY <1>3, <2>1 DEF Checked, Shapes
  <2>3. QED
    BY <1>4, <2>2 DEF Pages, Shapes
<1>6. \A c : Plain(c) => c \in Kinds
  BY DEF Kinds, KindOf
<1>7. /\ [Pages(FETCHSIZE) EXCEPT !.more = TRUE] \in Kinds
      /\ [Pages(FETCHSIZE) EXCEPT !.limit = TRUE] \in Kinds
      /\ [Pages(FETCHSIZE) EXCEPT !.limit = TRUE].fetch = FETCHSIZE
  <2>1. PICK p \in Shapes : /\ p = Pages(FETCHSIZE) /\ p.fetch = FETCHSIZE /\ p.check = TRUE
                            /\ p.post = FALSE /\ p.days = FALSE
                            /\ p.more = FALSE /\ p.limit = FALSE
    BY <1>5
  <2>2. [p EXCEPT !.more = TRUE] \in Kinds
    BY <2>1 DEF Kinds, KindOf, Shapes
  <2>3. [p EXCEPT !.limit = TRUE] \in Kinds /\ [p EXCEPT !.limit = TRUE].fetch = FETCHSIZE
    BY <2>1 DEF Kinds, KindOf, Shapes
  <2>4. QED
    BY <2>1, <2>2, <2>3
<1>8. /\ Plain([Pages(FETCHSIZE) EXCEPT !.sift = TRUE])
      /\ Plain([Checked EXCEPT !.sift = TRUE])
      /\ Plain([Pages(FETCHSIZE) EXCEPT !.days = TRUE])
  BY <1>2, <1>4, <1>5
<1> HIDE DEF Plain
<1>9. QED
  BY <1>1, <1>3, <1>4, <1>5, <1>6, <1>7, <1>8

\* What is known of a variant.
LEMMA KindShape ==
  ASSUME NEW c \in Kinds
  PROVE  /\ c \in Shapes /\ c.fetch \in Nat
         /\ c.more => c.check /\ c.fetch = FETCHSIZE /\ ~c.post
         /\ c.limit => c.fetch = FETCHSIZE /\ ~c.days
<1>1. c \in Shapes
  BY DEF Kinds
<1>2. c.fetch \in Nat
  BY <1>1, FetchAssumption DEF Shapes
<1>3. KindOf(c)
  BY DEF Kinds
<1>4. QED
  BY <1>1, <1>2, <1>3, Zenon DEF KindOf

\* Every variant that a call can run is one of these.
LEMMA CommandKinds ==
  ASSUME NEW id \in Services, NEW wsv
  PROVE  Commands(id, wsv) \subseteq Kinds
<1>1. \A x \in Kinds : \A a, b : Since(From(a, b, x), wsv) \subseteq Kinds
  BY OneVariant
<1>2. \A x \in Kinds, y \in Kinds : \A a, b, c, d :
        Since(Either(From(a, b, x), From(c, d, y)), wsv) \subseteq Kinds
  BY TwoVariants
<1>3. CASE id = "Myth"
  <2>1. GetHostSetting(wsv) \subseteq Kinds /\ GetHostSettings(wsv) \subseteq Kinds
    BY <1>2, KindFacts DEF GetHostSetting, GetHostSettings, GetSetting2_0, GetSetting5_0,
       GetSettings2_0, GetSettings5_0
  <2>2. PutSetting(wsv) \subseteq Kinds
    BY <1>1, KindFacts DEF PutSetting, PutSetting2_0
  <2>3. QED
    BY <1>3, <2>1, <2>2 DEF Commands
<1>4. CASE id = "Capture"
  BY <1>1, <1>4, KindFacts DEF Commands, GetCaptureCardList, GetCaptureCardList1_4
<1>5. CASE id = "Channel"
  <2>1. GetVideoSourceList(wsv) \subseteq Kinds /\ GetChannel(wsv) \subseteq Kinds
    BY <1>1, KindFacts DEF GetVideoSourceList, GetVideoSourceList1_2, GetChannel, GetChannel1_2
  <2>2. GetChannelList(wsv) \subseteq Kinds
    BY <1>2, KindFacts DEF GetChannelList, GetChannelList1_2, GetChannelList1_5
  <2>3. QED
    BY <1>5, <2>1, <2>2 DEF Commands
<1>6. CASE id = "Guide"
  <2>1. GetProgramGuideOf(wsv) \subseteq Kinds /\ GetProgramGuide(wsv) \subseteq Kinds
    BY <1>2, KindFacts DEF GetProgramGuideOf, GetProgramGuide, GetProgramGuideOf1_0,
       GetProgramGuide1_0, GetProgramGuide2_2, GetProgramList2_2
  <2>2. QED
    BY <1>6, <2>1 DEF Commands
<1>7. CASE id = "Content"
  <2>1. /\ GetFile(wsv) \subseteq Kinds /\ GetChannelIcon(wsv) \subseteq Kinds
        /\ GetPreviewImage(wsv) \subseteq Kinds /\ GetRecordingArtwork(wsv) \subseteq Kinds
        /\ GetRecordingArtworkList(wsv) \subseteq Kinds
    BY <1>1, KindFacts DEF GetFile, GetChannelIcon, GetPreviewImage, GetRecordingArtwork,
       GetRecordingArtworkList, GetFile1_32, GetChannelIcon1_32, GetPreviewImage1_32,
       GetRecordingArtwork1_32, GetRecordingArtworkList1_32
  <2>2. QED
    BY <1>7, <2>1 DEF Commands
<1>8. CASE id = "Dvr"
  <2>1. /\ GetRecordedList(wsv) \subseteq Kinds /\ GetRecordedAt(wsv) \subseteq Kinds
        /\ GetRecorded(wsv) \subseteq Kinds
        /\ UpdateRecordedWatchedStatusAt(wsv) \subseteq Kinds
        /\ UpdateRecordedWatchedStatus(wsv) \subseteq Kinds
        /\ DeleteRecordingAt(wsv) \subseteq Kinds /\ DeleteRecording(wsv) \subseteq Kinds
        /\ UnDeleteRecordingAt(wsv) \subseteq Kinds /\ UnDeleteRecording(wsv) \subseteq Kinds
    BY <1>1, KindFacts DEF GetRecordedList, GetRecordedList1_5, GetRecordedAt,
       GetRecorded1_5, GetRecorded, GetRecorded6_0, UpdateRecordedWatchedStatusAt,
       UpdateRecordedWatchedStatus4_5, UpdateRecordedWatchedStatus,
       UpdateRecordedWatchedStatus6_0, DeleteRecordingAt, DeleteRecording2_1,
       DeleteRecording, DeleteRecording6_0, UnDeleteRecordingAt, UnDeleteRecording2_1,
       UnDeleteRecording, UnDeleteRecording6_0
  <2>2. /\ GetRecordScheduleList(wsv) \subseteq Kinds /\ GetRecordSchedule(wsv) \subseteq Kinds
        /\ UpdateRecordSchedule(wsv) \subseteq Kinds
        /\ DisableRecordSchedule(wsv) \subseteq Kinds
        /\ EnableRecordSchedule(wsv) \subseteq Kinds
        /\ RemoveRecordSchedule(wsv) \subseteq Kinds
        /\ GetConflictList(wsv) \subseteq Kinds /\ GetExpiringList(wsv) \subseteq Kinds
    BY <1>1, KindFacts DEF GetRecordScheduleList, GetRecordScheduleList1_5,
       GetRecordSchedule, GetRecordSchedule1_5, UpdateRecordSchedule,
       UpdateRecordSchedule1_7, DisableRecordSchedule, DisableRecordSchedule1_5,
       EnableRecordSchedule, EnableRecordSchedule1_5, RemoveRecordSchedule,
       RemoveRecordSchedule1_5, GetConflictList, GetConflictList1_5, GetExpiringList,
       GetExpiringList1_5
  <2>3. /\ GetRecGroupList(wsv) \subseteq Kinds /\ GetRecordedCommBreak(wsv) \subseteq Kinds
        /\ GetRecordedCutList(wsv) \subseteq Kinds /\ SetSavedBookmark(wsv) \subseteq Kinds
        /\ GetSavedBookmark(wsv) \subseteq Kinds
    BY <1>1, KindFacts DEF GetRecGroupList, GetRecGroupList1_5, GetRecordedCommBreak,
       GetRecordedCommBreak6_1, GetRecordedCutList, GetRecordedCutList6_1,
       SetSavedBookmark, SetSavedBookmark6_2, GetSavedBookmark, GetSavedBookmark6_2
  <2>4. AddRecordSchedule(wsv) \subseteq Kinds /\ GetUpcomingList(wsv) \subseteq Kinds
    BY <1>2, KindFacts DEF AddRecordSchedule, AddRecordSchedule1_5, AddRecordSchedule1_7,
       GetUpcomingList, GetUpcomingList1_5, GetUpcomingList2_2
  <2>5. QED
    BY <1>8, <2>1, <2>2, <2>3, <2>4 DEF Commands
<1>9. QED
  BY <1>3, <1>4, <1>5, <1>6, <1>7, <1>8 DEF Services

\* What follows the upcoming recordings is a page of the same size; what is
\* asked of a host is a plain value.
LEMMA FollowingKinds ==
  ASSUME NEW wsv
  PROVE  /\ GetHostSetting(wsv) \subseteq {Value}
         /\ GetRecordedList(wsv) \subseteq {c \in Kinds : c.fetch = FETCHSIZE}
<1>1. GetHostSetting(wsv) \subseteq {Value}
  BY TwoVariants DEF GetHostSetting, GetSetting2_0, GetSetting5_0
<1>2. GetRecordedList1_5 \in Kinds /\ GetRecordedList1_5.fetch = FETCHSIZE
  BY KindFacts DEF GetRecordedList1_5
<1>3. GetRecordedList(wsv) \subseteq {GetRecordedList1_5}
  BY OneVariant DEF GetRecordedList
<1>4. QED
  BY <1>1, <1>2, <1>3

----------------------------------------------------------------------------
(***************************************************************************)
(* Kinds of steps                                                          *)
(***************************************************************************)
\* Which result a call has makes no difference to the types.
LEMMA AnyResult ==
  ASSUME NEW R, NEW S, NEW r \in Tasks(R), r.ret \in S
  PROVE  r \in Tasks(S)
BY DEF Tasks

\* The call of t goes on to r.
LEMMA TaskStep ==
  ASSUME Calls, NEW t \in Threads, NEW R, NEW r \in Tasks(R), Sound(r),
         task' = [task EXCEPT ![t] = r]
  PROVE  Calls'
<1>1. task \in [Threads -> Tasks(Results)] /\ \A u \in Threads : Sound(task[u])
  BY DEF Calls
<1>2. task'[t] = r /\ \A u \in Threads \ {t} : task'[u] = task[u]
  BY <1>1
<1>3. \A u \in Threads : task'[u].ret \in Results'
  BY DEF Results
<1>4. \A u \in Threads : task'[u] \in Tasks(Results')
  BY <1>1, <1>2, <1>3, AnyResult
<1>5. task' \in [Threads -> Tasks(Results')]
  BY <1>1, <1>4
<1>6. \A u \in Threads : Sound(task'[u])
  BY <1>1, <1>2
<1>7. QED
  BY <1>5, <1>6 DEF Calls

\* The call of a thread has its types, and what Sound says.
LEMMA MeFacts ==
  ASSUME Calls, NEW t \in Threads
  PROVE  task[t] \in Tasks(Results) /\ Sound(task[t])
BY DEF Calls

\* What Sound tells apart beside the place and the services to check.
Kept(r, me) ==
  /\ r.cmd = me.cmd /\ r.proto = me.proto /\ r.index = me.index /\ r.size = me.size
  /\ r.total = me.total /\ r.host = me.host /\ r.second = me.second
  /\ r.from = me.from /\ r.sent = me.sent

LEMMA SoundKept ==
  ASSUME NEW r, NEW me, Sound(me), Kept(r, me),
         r.pc \in Before => me.pc \in Before,
         r.pc = "idle" => me.pc = "idle",
         r.pc = "services" => r.left # <<>>,
         me.pc = "done" => r.pc = "done"
  PROVE  Sound(r)
BY DEF Sound, Kept

\* Only the place of a call and the progress of Execute change.
LEMMA PlaceStep ==
  ASSUME Calls, NEW t \in Threads, NEW p \in Places \ {"idle"}, NEW f \in Phases,
         task' = [task EXCEPT ![t].pc = p, ![t].phase = f],
         p \in Before => task[t].pc \in Before,
         p = "services" => task[t].left # <<>>,
         task[t].pc = "done" => p = "done"
  PROVE  Calls'
<1>1. task[t] \in Tasks(Results) /\ Sound(task[t])
  BY MeFacts
<1>2. PICK r : r = [task[t] EXCEPT !.pc = p, !.phase = f]
  OBVIOUS
<1>3. r \in Tasks(Results) /\ Kept(r, task[t]) /\ r.pc = p /\ r.left = task[t].left
  BY <1>1, <1>2 DEF Tasks, Kept
<1>4. Sound(r)
  BY <1>1, <1>3, SoundKept
<1>5. task' = [task EXCEPT ![t] = r]
  BY <1>2
<1>6. QED
  BY <1>3, <1>4, <1>5, TaskStep

\* A call that has the rank of its service picks its variant, or has none.
LEMMA DispatchStep ==
  ASSUME Calls, NEW t \in Threads, NEW wsv, task[t].pc \in Before, Dispatch(t, wsv)
  PROVE  Calls'
<1> DEFINE me == task[t]
<1>1. me \in Tasks(Results) /\ Sound(me)
  BY MeFacts
<1>2. PICK cs \in Variants(t, wsv) :
        \/ task' = [task EXCEPT ![t].pc = IF task[t].host > 0 THEN "unresolved" ELSE "done",
                                ![t].left = <<>>, ![t].phase = "first", ![t].clean = FALSE]
        \/ \E c \in cs :
             \E n \in IF ~c.limit THEN {0}
                      ELSE IF task[t].second THEN Limits \ {0} ELSE Limits :
               task' = [task EXCEPT ![t].pc = "bind", ![t].cmd = c, ![t].n = n,
                                    ![t].left = <<>>, ![t].phase = "first"]
  BY DEF Dispatch
<1>3. <<>> \in Seq(Services)
  BY EmptySeq
<1>4. CASE task' = [task EXCEPT ![t].pc = IF task[t].host > 0 THEN "unresolved" ELSE "done",
                                ![t].left = <<>>, ![t].phase = "first", ![t].clean = FALSE]
  <2>1. PICK p \in {"unresolved", "done"} :
          task' = [task EXCEPT ![t].pc = p, ![t].left = <<>>, ![t].phase = "first",
                               ![t].clean = FALSE]
    BY <1>4
  <2>2. PICK r : r = [task[t] EXCEPT !.pc = p, !.left = <<>>, !.phase = "first",
                                     !.clean = FALSE]
    OBVIOUS
  <2>3. r \in Tasks(Results) /\ Kept(r, task[t]) /\ r.pc = p
    BY <1>1, <1>3, <2>2 DEF Tasks, Kept, Places, Phases
  <2>4. Sound(r)
    BY <1>1, <2>3, SoundKept DEF Before
  <2>5. task' = [task EXCEPT ![t] = r]
    BY <2>1, <2>2
  <2>6. QED
    BY <2>3, <2>4, <2>5, TaskStep
<1>5. ASSUME NEW c \in cs,
             NEW n \in IF ~c.limit THEN {0}
                       ELSE IF task[t].second THEN Limits \ {0} ELSE Limits,
             task' = [task EXCEPT ![t].pc = "bind", ![t].cmd = c, ![t].n = n,
                                  ![t].left = <<>>, ![t].phase = "first"]
      PROVE  Calls'
  <2>1. n \in Nat
    BY WSAPIAssumption
  <2>2. me.host \in 0..2 /\ me.second \in BOOLEAN /\ me.size \in Nat /\ me.cmd \in Kinds
    BY <1>1 DEF Tasks
  <2>3. /\ c \in Kinds
        /\ me.host > 0 => c = Value
        /\ me.second => c.fetch = FETCHSIZE
    <3>1. CASE me.host > 0
      <4>1. c \in GetHostSetting(wsv["Myth"])
        BY <1>2, <3>1 DEF Variants
      <4>2. ~me.second
        BY <1>1, <3>1 DEF Sound
      <4>3. QED
        BY <4>1, <4>2, FollowingKinds, KindFacts
    <3>2. CASE ~(me.host > 0) /\ me.second
      <4>1. c \in GetRecordedList(wsv["Dvr"])
        BY <1>2, <3>2 DEF Variants
      <4>2. QED
        BY <3>2, <4>1, FollowingKinds
    <3>3. CASE ~(me.host > 0) /\ ~me.second
      <4>1. PICK id \in Services : cs = Commands(id, wsv[id])
        BY <1>2, <3>3 DEF Variants
      <4>2. QED
        BY <3>3, <4>1, CommandKinds
    <3>4. QED
      BY <3>1, <3>2, <3>3
  <2>4. c.fetch \in Nat
    BY <2>3, FetchAssumption DEF Kinds, Shapes
  <2>5. me.size <= c.fetch
    <3>1. CASE me.second
      BY <1>1, <2>2, <2>3, <3>1 DEF Sound
    <3>2. CASE ~me.second
      BY <1>1, <2>4, <3>2 DEF Sound
    <3>3. QED
      BY <3>1, <3>2
  <2>6. PICK r : r = [me EXCEPT !.pc = "bind", !.cmd = c, !.n = n, !.left = <<>>,
                                !.phase = "first"]
    OBVIOUS
  <2>7. /\ r \in Tasks(Results) /\ r.pc = "bind" /\ r.cmd = c /\ r.proto = me.proto
        /\ r.index = me.index /\ r.size = me.size /\ r.total = me.total
        /\ r.host = me.host /\ r.second = me.second /\ r.from = me.from
        /\ r.sent = me.sent
    BY <1>1, <1>3, <2>1, <2>3, <2>6 DEF Tasks, Places, Phases
  <2>8. Sound(r)
    <3>1. me.pc # "done" /\ "bind" \notin Before
      BY DEF Before
    <3>2. QED
      BY <1>1, <2>3, <2>5, <2>7, <3>1 DEF Sound
  <2>9. task' = [task EXCEPT ![t] = r]
    BY <1>5, <2>6
  <2>10. QED
    BY <2>7, <2>8, <2>9, TaskStep
<1>6. QED
  BY <1>2, <1>4, <1>5

----------------------------------------------------------------------------
(***************************************************************************)
(* Execute, and the check of the service                                   *)
(***************************************************************************)
\* What a step that leaves the versions and the backend alone keeps.
LEMMA ApiKept ==
  ASSUME Api, UNCHANGED <<api, m_authToken, server, list>>
  PROVE  Api'
BY DEF Api, api

LEMMA ExecuteKeeps ==
  ASSUME IInv, NEW t \in Threads, Unauthorized(t) \/ LoginUser(t)
  PROVE  IInv'
<1> USE DEF IInv
<1>1. task[t] \in Tasks(Results) /\ Sound(task[t])
  BY MeFacts
<1>2. task[t].pc \in Places
  BY <1>1 DEF Tasks
<1>3. PICK f \in Phases : task' = [task EXCEPT ![t].phase = f]
  BY DEF Unauthorized, LoginUser, Phases
<1>4. PICK r : r = [task[t] EXCEPT !.phase = f]
  OBVIOUS
<1>5. r \in Tasks(Results) /\ Kept(r, task[t]) /\ r.pc = task[t].pc /\ r.left = task[t].left
  BY <1>1, <1>4 DEF Tasks, Kept
<1>6. Sound(r)
  <2>1. r.pc = "services" => r.left # <<>>
    BY <1>1, <1>5 DEF Sound
  <2>2. QED
    BY <1>1, <1>5, <2>1, SoundKept
<1>7. task' = [task EXCEPT ![t] = r]
  BY <1>3, <1>4
<1>8. Calls'
  BY <1>5, <1>6, <1>7, TaskStep
<1>9. Api'
  <2>1. UNCHANGED <<api, server, list>> /\ m_authToken' \in {"none", "good", "stale"}
    BY DEF Unauthorized, LoginUser, Api
  <2>2. QED
    BY <2>1 DEF Api, api
<1>10. QED
  BY <1>8, <1>9

LEMMA CheckServiceKeeps ==
  ASSUME IInv, NEW t \in Threads, CheckService(t)
  PROVE  IInv'
<1> USE DEF IInv
<1>1. /\ task[t].pc = "check"
      /\ UNCHANGED <<m_checked, m_protocol, m_namedCache, m_authToken, server, list>>
  BY DEF CheckService, At
<1>2. task[t].pc \in Before /\ NoService \in [Services -> Nat]
  BY <1>1 DEF Before, NoService
<1>3. CASE m_checked
  <2>1. Dispatch(t, m_serviceVersion) /\ UNCHANGED <<m_mutex, m_serviceVersion>>
    BY <1>3 DEF CheckService
  <2>2. Calls'
    BY <1>2, <2>1, DispatchStep
  <2>3. Api'
    BY <1>1, <2>1 DEF Api
  <2>4. QED
    BY <2>2, <2>3
<1>4. CASE ~m_checked
  <2>1. /\ m_mutex' = t /\ m_serviceVersion' = NoService
        /\ task' = [task EXCEPT ![t].pc = "version"]
    BY <1>4 DEF CheckService
  <2>2. task[t] \in Tasks(Results) /\ Sound(task[t])
    BY MeFacts
  <2>3. PICK r : r = [task[t] EXCEPT !.pc = "version"]
    OBVIOUS
  <2>4. r \in Tasks(Results) /\ Kept(r, task[t]) /\ r.pc = "version"
    BY <2>2, <2>3 DEF Tasks, Kept, Places, Before
  <2>5. Sound(r)
    BY <1>1, <1>2, <2>2, <2>4, SoundKept
  <2>6. task' = [task EXCEPT ![t] = r]
    BY <2>1, <2>3
  <2>7. Calls'
    BY <2>4, <2>5, <2>6, TaskStep
  <2>8. Api'
    BY <1>1, <1>2, <2>1 DEF Api
  <2>9. QED
    BY <2>7, <2>8
<1>5. QED
  BY <1>3, <1>4

LEMMA InitFailedKeeps ==
  ASSUME IInv, NEW t \in Threads, task[t].pc \in Before, InitFailed(t),
         m_serviceVersion' \in [Services -> Nat],
         UNCHANGED <<m_protocol, m_namedCache, m_authToken, server, list>>
  PROVE  IInv'
<1> USE DEF IInv
<1>1. m_checked' = FALSE /\ m_mutex' \in Threads \cup {NoThread} /\ Dispatch(t, NoService)
  BY DEF InitFailed, Unlock
<1>2. Calls'
  BY <1>1, DispatchStep
<1>3. Api'
  BY <1>1 DEF Api
<1>4. QED
  BY <1>2, <1>3

LEMMA GetMythVersionKeeps ==
  ASSUME IInv, NEW t \in Threads, GetMythVersion(t)
  PROVE  IInv'
<1> USE DEF IInv
<1>1. /\ task[t].pc = "version"
      /\ UNCHANGED <<m_protocol, m_namedCache, m_authToken, server, list>>
      /\ m_serviceVersion' = [m_serviceVersion EXCEPT !["Myth"] = Version[server]["Myth"]]
  BY DEF GetMythVersion, At
<1>2. m_serviceVersion' \in [Services -> Nat]
  <2>1. Version[server]["Myth"] \in Nat
    BY WSAPIAssumption DEF Api, Services
  <2>2. QED
    BY <1>1, <2>1 DEF Api
<1>3. task[t].pc \in Before
  BY <1>1 DEF Before
<1>4. CASE Supported(server)
  <2>1. /\ task' = [task EXCEPT ![t].pc = "host", ![t].phase = "first"]
        /\ UNCHANGED <<m_mutex, m_checked>>
    BY <1>4 DEF GetMythVersion
  <2>2. Calls'
    <3>1. "host" \in Places \ {"idle"} /\ "first" \in Phases /\ task[t].pc # "done"
      BY <1>1 DEF Places, Phases, Before
    <3>2. QED
      BY <1>3, <2>1, <3>1, PlaceStep
  <2>3. Api'
    BY <1>1, <1>2, <2>1 DEF Api
  <2>4. QED
    BY <2>2, <2>3
<1>5. CASE ~Supported(server)
  BY <1>1, <1>2, <1>3, <1>5, InitFailedKeeps DEF GetMythVersion
<1>6. QED
  BY <1>4, <1>5

LEMMA CheckServerHostNameKeeps ==
  ASSUME IInv, NEW t \in Threads, CheckServerHostName2_0(t)
  PROVE  IInv'
<1> USE DEF IInv
<1>1. /\ task[t].pc = "host" /\ m_namedCache' = m_namedCache \cup {"self"} /\ m_protocol' = 0
      /\ task' = [task EXCEPT ![t].pc = "connection", ![t].phase = "first"]
      /\ UNCHANGED <<m_mutex, m_checked, m_serviceVersion, m_authToken, server, list>>
  BY DEF CheckServerHostName2_0, At
<1>2. Calls'
  <2>1. /\ "connection" \in Places \ {"idle"} /\ "first" \in Phases /\ task[t].pc \in Before
        /\ task[t].pc # "done"
    BY <1>1 DEF Places, Phases, Before
  <2>2. QED
    BY <1>1, <2>1, PlaceStep
<1>3. Api'
  BY <1>1 DEF Api
<1>4. QED
  BY <1>2, <1>3

LEMMA CheckVersionKeeps ==
  ASSUME IInv, NEW t \in Threads, CheckVersion2_0(t)
  PROVE  IInv'
<1> USE DEF IInv
<1> DEFINE five == <<"Capture", "Channel", "Guide", "Content", "Dvr">>
<1>1. /\ task[t].pc = "connection" /\ m_protocol' = Protocol[server]
      /\ task' = [task EXCEPT ![t].pc = "services", ![t].phase = "first", ![t].left = five]
      /\ UNCHANGED <<m_mutex, m_checked, m_serviceVersion, m_namedCache, m_authToken,
                     server, list>>
  BY DEF CheckVersion2_0, At
<1>2. five \in Seq(Services) /\ five # <<>>
  BY DEF Services
<1> HIDE DEF five
<1>3. task[t] \in Tasks(Results) /\ Sound(task[t])
  BY MeFacts
<1>4. PICK r : r = [task[t] EXCEPT !.pc = "services", !.phase = "first", !.left = five]
  OBVIOUS
<1>5. r \in Tasks(Results) /\ Kept(r, task[t]) /\ r.pc = "services" /\ r.left = five
  BY <1>2, <1>3, <1>4 DEF Tasks, Kept, Places, Phases, Before
<1>6. Sound(r)
  BY <1>1, <1>2, <1>3, <1>5, SoundKept DEF Before
<1>7. task' = [task EXCEPT ![t] = r]
  BY <1>1, <1>4
<1>8. Calls'
  BY <1>5, <1>6, <1>7, TaskStep
<1>9. Api'
  BY <1>1 DEF Api
<1>10. QED
  BY <1>8, <1>9

LEMMA GetServiceVersionKeeps ==
  ASSUME IInv, NEW t \in Threads, GetServiceVersion(t)
  PROVE  IInv'
<1> USE DEF IInv
<1> DEFINE id == Head(task[t].left)
           known == [m_serviceVersion EXCEPT ![id] = Version[server][id]]
<1>1. /\ task[t].pc = "services" /\ m_serviceVersion' = known
      /\ UNCHANGED <<m_protocol, m_namedCache, m_authToken, server, list>>
  BY DEF GetServiceVersion, At
<1>2. task[t] \in Tasks(Results) /\ Sound(task[t])
  BY MeFacts
<1>3. task[t].left \in Seq(Services) /\ task[t].left # <<>>
  BY <1>1, <1>2 DEF Tasks, Sound
<1>4. known \in [Services -> Nat]
  <2>1. id \in Services
    BY <1>3
  <2>2. Version[server][id] \in Nat
    BY <2>1, WSAPIAssumption DEF Api
  <2>3. QED
    BY <2>2 DEF Api
<1>5. CASE Len(task[t].left) > 1
  <2>1. /\ task' = [task EXCEPT ![t].left = Tail(@), ![t].phase = "first"]
        /\ UNCHANGED <<m_mutex, m_checked>>
    BY <1>5 DEF GetServiceVersion
  <2>2. PICK rest \in Seq(Services) : rest = Tail(task[t].left) /\ rest # <<>>
    <3>1. PICK q \in Seq(Services) : q = task[t].left
      BY <1>3
    <3>2. Len(q) \in Nat /\ Len(q) > 1 /\ q # <<>>
      BY <1>3, <1>5, <3>1, LenProperties
    <3>3. Tail(q) \in Seq(Services) /\ Len(Tail(q)) = Len(q) - 1
      BY <3>2, HeadTailProperties
    <3>4. Len(Tail(q)) # 0
      BY <3>2, <3>3
    <3>5. Tail(q) # <<>>
      <4>1. Len(<<>>) = 0
        OBVIOUS
      <4>2. QED
        BY <3>4, <4>1, Zenon
    <3>6. QED
      BY <3>1, <3>3, <3>5
  <2>3. PICK r : r = [task[t] EXCEPT !.left = rest, !.phase = "first"]
    OBVIOUS
  <2>4. r \in Tasks(Results) /\ Kept(r, task[t]) /\ r.pc = "services" /\ r.left = rest
    BY <1>1, <1>2, <2>2, <2>3 DEF Tasks, Kept, Phases
  <2>5. Sound(r)
    BY <1>1, <1>2, <2>2, <2>4, SoundKept
  <2>6. task' = [task EXCEPT ![t] = r]
    BY <2>1, <2>2, <2>3
  <2>7. Calls'
    BY <2>4, <2>5, <2>6, TaskStep
  <2>8. Api'
    BY <1>1, <1>4, <2>1 DEF Api
  <2>9. QED
    BY <2>7, <2>8
<1>6. CASE ~(Len(task[t].left) > 1)
  <2>1. m_checked' = TRUE /\ Unlock(t) /\ Dispatch(t, known)
    BY <1>6 DEF GetServiceVersion
  <2>2. Calls'
    BY <1>1, <2>1, DispatchStep DEF Before
  <2>3. Api'
    BY <1>1, <1>4, <2>1 DEF Api, Unlock
  <2>4. QED
    BY <2>2, <2>3
<1>7. QED
  BY <1>5, <1>6

LEMMA InitWSAPIKeeps ==
  ASSUME IInv, NEW t \in Threads, InitWSAPI(t)
  PROVE  IInv'
<1>1. CASE GetMythVersion(t) \/ CheckServerHostName2_0(t) \/ CheckVersion2_0(t)
           \/ GetServiceVersion(t)
  BY <1>1, GetMythVersionKeeps, CheckServerHostNameKeeps, CheckVersionKeeps,
     GetServiceVersionKeeps
<1>2. CASE /\ task[t].pc \in {"version", "host", "connection", "services"}
           /\ InitFailed(t)
           /\ UNCHANGED <<m_serviceVersion, m_protocol, m_namedCache, m_authToken, server, list>>
  <2>1. m_serviceVersion' \in [Services -> Nat]
    BY <1>2 DEF IInv, Api
  <2>2. task[t].pc \in Before
    BY <1>2 DEF Before
  <2>3. QED
    BY <1>2, <2>1, <2>2, InitFailedKeeps
<1>3. QED
  BY <1>1, <1>2 DEF InitWSAPI

----------------------------------------------------------------------------
(***************************************************************************)
(* Requests                                                                *)
(***************************************************************************)
LEMMA DivFacts ==
  ASSUME NEW f \in Nat, NEW d \in Nat \ {0}
  PROVE  f \div d \in Nat /\ f \div d <= f
OBVIOUS

\* The size of a page is bound by the limit and never negative.
LEMMA PageSizeFacts ==
  ASSUME NEW n \in Nat, NEW total \in Nat, NEW size \in Nat, n = 0 \/ total <= n
  PROVE  PageSize(n, total, size) \in Nat /\ PageSize(n, total, size) <= size
BY DEF PageSize

LEMMA BindKeeps ==
  ASSUME IInv, NEW t \in Threads, Bind(t)
  PROVE  IInv'
<1> USE DEF IInv
<1> DEFINE me == task[t]
<1>1. me.pc = "bind" /\ UNCHANGED <<api, m_authToken, server, list>>
  BY DEF Bind, At
<1>2. me \in Tasks(Results) /\ Sound(me)
  BY MeFacts
<1>3. me.cmd \in Kinds /\ me.n \in Nat /\ me.cmd.fetch \in Nat /\ me.cmd.days \in BOOLEAN
  BY <1>2, FetchAssumption DEF Tasks, Kinds, Shapes
<1>4. PICK v \in Nat, size \in Nat :
        /\ size <= me.cmd.fetch
        /\ task' = [task EXCEPT ![t].pc = "send", ![t].index = 0, ![t].total = 0,
                                ![t].ret = <<>>, ![t].from = {}, ![t].proto = v,
                                ![t].size = size]
  <2>1. PICK d \in IF me.cmd.days THEN Days ELSE {1} :
          task' = [task EXCEPT ![t].pc = "send", ![t].index = 0, ![t].total = 0,
                               ![t].ret = <<>>, ![t].from = {},
                               ![t].proto = IF me.cmd.bind THEN m_protocol ELSE 0,
                               ![t].size = PageSize(me.n, 0, FetchCount(me.cmd, d))]
    BY DEF Bind
  <2>2. d \in Nat \ {0}
    BY WSAPIAssumption
  <2>3. FetchCount(me.cmd, d) \in Nat /\ FetchCount(me.cmd, d) <= me.cmd.fetch
    BY <1>3, <2>2, DivFacts DEF FetchCount
  <2>4. PICK size \in Nat : size = PageSize(me.n, 0, FetchCount(me.cmd, d))
                            /\ size <= FetchCount(me.cmd, d)
    <3>1. PICK f \in Nat : f = FetchCount(me.cmd, d)
      BY <2>3
    <3>2. PICK n \in Nat : n = me.n
      BY <1>3
    <3>3. PageSize(n, 0, f) \in Nat /\ PageSize(n, 0, f) <= f
      BY PageSizeFacts
    <3>4. QED
      BY <3>1, <3>2, <3>3
  <2>5. PICK v \in Nat : v = IF me.cmd.bind THEN m_protocol ELSE 0
    BY WSAPIAssumption DEF Api
  <2>6. size <= me.cmd.fetch
    BY <1>3, <2>3, <2>4
  <2>7. QED
    BY <2>1, <2>4, <2>5, <2>6
<1>5. PICK r : r = [me EXCEPT !.pc = "send", !.index = 0, !.total = 0, !.ret = <<>>,
                              !.from = {}, !.proto = v, !.size = size]
  OBVIOUS
<1>6. /\ r \in Tasks({<<>>}) /\ r.pc = "send" /\ r.index = 0 /\ r.total = 0
      /\ r.from = {} /\ r.size = size /\ r.cmd = me.cmd /\ r.host = me.host
      /\ r.second = me.second /\ r.sent = me.sent
  BY <1>2, <1>5 DEF Tasks, Places
<1>7. Sound(r)
  BY <1>1, <1>2, <1>4, <1>6 DEF Sound, Before
<1>8. task' = [task EXCEPT ![t] = r]
  BY <1>4, <1>5
<1>9. Calls'
  BY <1>6, <1>7, <1>8, TaskStep
<1>10. QED
  BY <1>1, <1>9, ApiKept

\* A call that ends a request early: it returns, or goes on with the second list.
LEMMA LeaveStep ==
  ASSUME Calls, NEW t \in Threads, task[t].pc = "send", NEW did \in {0, 1},
         did = 1 => task[t].cmd.post, task[t].host = 0,
         task' = [task EXCEPT ![t].pc = After(t), ![t].second = task[t].cmd.more,
                              ![t].phase = "first", ![t].clean = FALSE, ![t].sent = did]
  PROVE  Calls'
<1> DEFINE me == task[t]
<1>1. me \in Tasks(Results) /\ Sound(me)
  BY MeFacts
<1>2. me.cmd \in Kinds /\ me.cmd.more \in BOOLEAN
  BY <1>1 DEF Tasks, Kinds, Shapes
<1>3. PICK p \in Places : p = After(t) /\ p \in {"check", "done"}
  BY DEF After, Places, Before
<1>4. me.cmd.more <=> p = "check"
  BY <1>3 DEF After
<1>5. PICK more \in BOOLEAN : more = me.cmd.more
  BY <1>2
<1>6. PICK r : r = [me EXCEPT !.pc = p, !.second = more, !.phase = "first",
                              !.clean = FALSE, !.sent = did]
  OBVIOUS
<1>7. did \in Nat /\ "first" \in Phases
  BY DEF Phases
<1>8. r \in Tasks(Results)
  BY <1>1, <1>6, <1>7 DEF Tasks
<1>9. /\ r.pc = p /\ r.second = more /\ r.sent = did
      /\ r.cmd = me.cmd /\ r.proto = me.proto /\ r.index = me.index /\ r.size = me.size
      /\ r.total = me.total /\ r.host = me.host /\ r.from = me.from
  BY <1>1, <1>6 DEF Tasks
<1>10. Sound(r)
  <2>1. me.cmd.more => me.cmd.fetch = FETCHSIZE /\ ~me.cmd.post
    BY <1>2, KindShape
  <2>2. me.from \subseteq {me.proto}
    BY <1>1 DEF Sound
  <2>3. did = 0 \/ (did = 1 /\ p = "done")
    BY <1>3, <1>4, <2>1
  <2>4. QED
    BY <1>1, <1>3, <1>4, <1>5, <1>9, <2>1, <2>2, <2>3 DEF Sound, Before
<1>11. task' = [task EXCEPT ![t] = r]
  BY <1>3, <1>5, <1>6
<1>12. QED
  BY <1>8, <1>10, <1>11, TaskStep

\* How Leave and what the backend may have done make up the call.
LEMMA LeaveForm ==
  ASSUME Calls, NEW t \in Threads, task[t].pc = "send", NEW did \in {0, 1}
  PROVE  /\ Leave(t) = [task EXCEPT ![t].pc = After(t), ![t].second = task[t].cmd.more,
                                    ![t].phase = "first", ![t].clean = FALSE, ![t].sent = 0]
         /\ [Leave(t) EXCEPT ![t].sent = @ + did]
              = [task EXCEPT ![t].pc = After(t), ![t].second = task[t].cmd.more,
                             ![t].phase = "first", ![t].clean = FALSE, ![t].sent = did]
<1> DEFINE L(m) == [m EXCEPT !.pc = After(t), !.second = task[t].cmd.more,
                             !.phase = "first", !.clean = FALSE]
           M(m, k) == [m EXCEPT !.pc = After(t), !.second = task[t].cmd.more,
                                !.phase = "first", !.clean = FALSE, !.sent = k]
<1>1. task \in [Threads -> Tasks(Results)] /\ task[t] \in Tasks(Results) /\ task[t].sent = 0
  BY MeFacts DEF Calls, Sound
<1>2. Leave(t) = [task EXCEPT ![t] = L(task[t])]
  BY DEF Leave
<1>3. [task EXCEPT ![t].pc = After(t), ![t].second = task[t].cmd.more,
                   ![t].phase = "first", ![t].clean = FALSE, ![t].sent = 0]
        = [task EXCEPT ![t] = M(task[t], 0)]
  OBVIOUS
<1>4. [task EXCEPT ![t].pc = After(t), ![t].second = task[t].cmd.more,
                   ![t].phase = "first", ![t].clean = FALSE, ![t].sent = did]
        = [task EXCEPT ![t] = M(task[t], did)]
  OBVIOUS
<1>5. L(task[t]) = M(task[t], 0) /\ L(task[t]).sent = 0
      /\ [L(task[t]) EXCEPT !.sent = did] = M(task[t], did)
  BY <1>1 DEF Tasks
<1> HIDE DEF L, M
<1>6. [Leave(t) EXCEPT ![t].sent = @ + did]
        = [task EXCEPT ![t] = [L(task[t]) EXCEPT !.sent = L(task[t]).sent + did]]
  BY <1>1, <1>2
<1>7. L(task[t]).sent + did = did
  BY <1>5
<1>8. QED
  BY <1>2, <1>3, <1>4, <1>5, <1>6, <1>7

LEMMA InvalidateServiceKeeps ==
  ASSUME IInv, NEW t \in Threads, InvalidateService(t)
  PROVE  IInv'
<1> USE DEF IInv
<1>1. /\ task[t].pc = "send" /\ task[t].cmd.check /\ m_checked' = FALSE /\ task' = Leave(t)
      /\ UNCHANGED <<m_mutex, m_serviceVersion, m_protocol, m_namedCache, m_authToken,
                     server, list>>
  BY DEF InvalidateService, OtherVersion, At
<1>2. task[t].host = 0
  BY <1>1, MeFacts, KindFacts DEF Sound, Tasks
<1>3. PICK did \in {0, 1} :
        /\ did = 0
        /\ task' = [task EXCEPT ![t].pc = After(t), ![t].second = task[t].cmd.more,
                                ![t].phase = "first", ![t].clean = FALSE, ![t].sent = did]
  BY <1>1, LeaveForm
<1>4. did = 1 => task[t].cmd.post
  BY <1>3
<1>5. Calls'
  <2> HIDE DEF IInv
  <2>1. Calls
    BY DEF IInv
  <2>2. QED
    BY <1>1, <1>2, <1>3, <1>4, <2>1, LeaveStep, Zenon
<1>6. Api'
  BY <1>1 DEF Api
<1>7. QED
  BY <1>5, <1>6

\* What is sent of a list is a sequence.
LEMMA PageFacts ==
  ASSUME Api, NEW index \in Nat, NEW size \in Nat
  PROVE  Len(Page(index, size)) \in Nat
<1>1. list \in Seq(Nat) /\ Len(list) \in Nat
  BY LenProperties DEF Api
<1>2. PICK last \in Nat :
        /\ last <= Len(list)
        /\ Page(index, size) = SubSeq(list, index + 1, last)
  <2>1. CASE size = 0 \/ index + size > Len(list)
    BY <1>1, <2>1 DEF Page
  <2>2. CASE ~(size = 0 \/ index + size > Len(list))
    BY <1>1, <2>2 DEF Page
  <2>3. QED
    BY <2>1, <2>2
<1>3. \A i \in (index + 1)..last : i \in 1..Len(list)
  BY <1>1, <1>2
<1>4. SubSeq(list, index + 1, last) \in Seq(Nat)
  BY <1>1, <1>2, <1>3, SubSeqProperties
<1>5. QED
  BY <1>2, <1>4, LenProperties

LEMMA GetListKeeps ==
  ASSUME IInv, NEW t \in Threads, GetList(t)
  PROVE  IInv'
<1> USE DEF IInv
<1> DEFINE me == task[t]
           page == Page(me.index, me.size)
           kept == Sift(me.cmd, page)
           again == Again(me, Len(page), me.total + Len(page))
           res == me.ret \o kept
<1>1. /\ me.pc = "send" /\ me.cmd.check /\ SameVersion(t)
      /\ UNCHANGED <<api, m_authToken, server, list>>
  BY DEF GetList, At
<1>2. me \in Tasks(Results) /\ Sound(me)
  BY MeFacts
<1>3. /\ me.index \in Nat /\ me.size \in Nat /\ me.total \in Nat /\ me.n \in Nat
      /\ me.cmd \in Kinds /\ me.proto \in Nat /\ me.from \in SUBSET Nat
      /\ me.second \in BOOLEAN
  BY <1>2 DEF Tasks
<1>4. me.cmd.more \in BOOLEAN /\ me.cmd.fetch \in Nat
      /\ (me.cmd.more => me.cmd.fetch = FETCHSIZE)
  BY <1>3, KindShape DEF Shapes
<1>5. PICK len \in Nat : len = Len(page)
  BY <1>3, PageFacts
<1>6. me.host = 0 /\ me.sent = 0 /\ me.from \subseteq {me.proto}
      /\ Protocol[server] = me.proto
  BY <1>1, <1>2, KindFacts DEF Sound, Tasks, SameVersion
<1>7. PICK total \in Nat, index \in Nat, size \in Nat, from \in SUBSET Nat,
           p \in Places, second \in BOOLEAN :
        /\ task' = [task EXCEPT ![t].ret = res, ![t].total = total, ![t].index = index,
                                ![t].size = size, ![t].from = from, ![t].pc = p,
                                ![t].second = second, ![t].phase = "first"]
        /\ index = me.index + len /\ total = me.total + len
        /\ size <= me.size /\ from \subseteq {me.proto}
        /\ \/ p = "send" /\ second = me.second
           \/ p = "done" /\ second = FALSE
           \/ p = "check" /\ second = TRUE /\ me.cmd.more
  <2>1. task' = [task EXCEPT ![t].ret = res, ![t].total = me.total + Len(page),
                             ![t].index = NextIndex(me, page, kept),
                             ![t].size = IF again
                                         THEN PageSize(me.n, me.total + Len(page), me.size)
                                         ELSE me.size,
                             ![t].from = me.from \cup {Protocol[server]},
                             ![t].pc = IF again THEN "send" ELSE After(t),
                             ![t].second = IF again THEN me.second ELSE me.cmd.more,
                             ![t].phase = "first"]
    BY DEF GetList, Calls
  <2>2. PICK index \in Nat : index = NextIndex(me, page, kept) /\ index = me.index + len
    BY <1>3, <1>5 DEF NextIndex
  <2>3. PICK total \in Nat : total = me.total + Len(page) /\ total = me.total + len
    BY <1>3, <1>5
  <2>4. PICK size \in Nat : /\ size <= me.size
                            /\ size = IF again
                                      THEN PageSize(me.n, me.total + Len(page), me.size)
                                      ELSE me.size
    <3>1. CASE again
      <4>1. me.n = 0 \/ total <= me.n
        BY <1>3, <2>3, <3>1 DEF Again
      <4>2. PageSize(me.n, total, me.size) \in Nat /\ PageSize(me.n, total, me.size) <= me.size
        BY <1>3, <4>1, PageSizeFacts
      <4>3. QED
        BY <2>3, <3>1, <4>2
    <3>2. CASE ~again
      BY <1>3, <3>2
    <3>3. QED
      BY <3>1, <3>2
  <2>5. PICK from \in SUBSET Nat : from = me.from \cup {Protocol[server]}
                                   /\ from \subseteq {me.proto}
    BY <1>3, <1>6
  <2>6. PICK p \in Places, second \in BOOLEAN :
          /\ p = IF again THEN "send" ELSE After(t)
          /\ second = IF again THEN me.second ELSE me.cmd.more
          /\ \/ p = "send" /\ second = me.second
             \/ p = "done" /\ second = FALSE
             \/ p = "check" /\ second = TRUE /\ me.cmd.more
    <3>1. "send" \in Places /\ "check" \in Places /\ "done" \in Places
      BY DEF Places, Before
    <3>2. CASE again
      BY <1>3, <3>1, <3>2
    <3>3. CASE ~again /\ me.cmd.more
      <4>1. After(t) = "check"
        BY <3>3 DEF After
      <4>2. QED
        BY <1>4, <3>1, <3>3, <4>1
    <3>4. CASE ~again /\ ~me.cmd.more
      <4>1. After(t) = "done"
        BY <3>4 DEF After
      <4>2. QED
        BY <1>4, <3>1, <3>4, <4>1
    <3>5. QED
      BY <1>4, <3>2, <3>3, <3>4
  <2> HIDE DEF again, res, kept, page
  <2>7. task' = [task EXCEPT ![t].ret = res, ![t].total = total, ![t].index = index,
                             ![t].size = size, ![t].from = from, ![t].pc = p,
                             ![t].second = second, ![t].phase = "first"]
    BY <2>1, <2>2, <2>3, <2>4, <2>5, <2>6
  <2>8. /\ index = me.index + len /\ total = me.total + len
        /\ size <= me.size /\ from \subseteq {me.proto}
        /\ \/ p = "send" /\ second = me.second
           \/ p = "done" /\ second = FALSE
           \/ p = "check" /\ second = TRUE /\ me.cmd.more
    BY <2>2, <2>3, <2>4, <2>5, <2>6
  <2>9. QED
    BY <2>7, <2>8, Zenon
<1> HIDE DEF again, res, kept, page
<1>8. PICK r : r = [me EXCEPT !.ret = res, !.total = total, !.index = index, !.size = size,
                              !.from = from, !.pc = p, !.second = second, !.phase = "first"]
  OBVIOUS
<1>9. r \in Tasks({res})
  BY <1>2, <1>8 DEF Tasks, Phases
<1>10. /\ r.pc = p /\ r.second = second /\ r.size = size /\ r.index = index
       /\ r.total = total /\ r.from = from /\ r.cmd = me.cmd /\ r.proto = me.proto
       /\ r.host = me.host /\ r.sent = me.sent
  BY <1>2, <1>8 DEF Tasks
<1>11. Sound(r)
  <2>1. me.size <= me.cmd.fetch /\ me.index <= me.total
        /\ (me.second => me.cmd.fetch = FETCHSIZE)
    BY <1>2 DEF Sound
  <2>2. size <= me.cmd.fetch /\ index <= total
    <3>1. size <= me.size /\ index = me.index + len /\ total = me.total + len
      BY <1>7
    <3>2. QED
      BY <1>3, <1>4, <2>1, <3>1
  <2>3. second => me.cmd.fetch = FETCHSIZE
    BY <1>4, <1>7, <2>1
  <2>4. p \in Before => second
    BY <1>7 DEF Before
  <2>5. p # "services"
    BY <1>7
  <2>6. QED
    BY <1>6, <1>7, <1>10, <2>2, <2>3, <2>4, <2>5 DEF Sound
<1>12. task' = [task EXCEPT ![t] = r]
  BY <1>7, <1>8
<1>13. Calls'
  BY <1>9, <1>11, <1>12, TaskStep
<1>14. QED
  BY <1>1, <1>13, ApiKept

LEMMA GetOneKeeps ==
  ASSUME IInv, NEW t \in Threads, GetOne(t)
  PROVE  IInv'
<1> USE DEF IInv
<1> DEFINE me == task[t]
<1>1. /\ me.pc = "send" /\ ~me.cmd.check /\ me.host = 0
      /\ UNCHANGED <<api, m_authToken, server, list>>
  BY DEF GetOne, At
<1>2. me \in Tasks(Results) /\ Sound(me)
  BY MeFacts
<1>3. me.sent = 0 /\ me.from \in SUBSET Nat
  BY <1>1, <1>2 DEF Sound, Tasks
<1>4. PICK from \in SUBSET Nat, k \in {0, 1} :
        task' = [task EXCEPT ![t].pc = "done", ![t].phase = "first", ![t].from = from,
                             ![t].sent = k]
  <2>1. task' = [task EXCEPT ![t].pc = "done", ![t].phase = "first",
                             ![t].from = me.from \cup {Protocol[server]},
                             ![t].sent = me.sent + IF me.cmd.post THEN 1 ELSE 0]
    BY DEF GetOne, Calls
  <2>2. PICK from \in SUBSET Nat : from = me.from \cup {Protocol[server]}
    BY <1>3, WSAPIAssumption DEF Api
  <2>3. PICK k \in {0, 1} : k = me.sent + IF me.cmd.post THEN 1 ELSE 0
    BY <1>3
  <2>4. QED
    BY <2>1, <2>2, <2>3
<1>5. PICK r : r = [me EXCEPT !.pc = "done", !.phase = "first", !.from = from, !.sent = k]
  OBVIOUS
<1>6. k \in Nat /\ "done" \in Places /\ "first" \in Phases
  BY DEF Places, Phases
<1>7. r \in Tasks(Results)
  BY <1>2, <1>5, <1>6 DEF Tasks
<1>8. /\ r.pc = "done" /\ r.sent = k /\ r.cmd = me.cmd /\ r.index = me.index
      /\ r.size = me.size /\ r.total = me.total /\ r.host = me.host /\ r.second = me.second
  BY <1>2, <1>5 DEF Tasks
<1>9. Sound(r)
  BY <1>1, <1>2, <1>8 DEF Sound, Before
<1>10. task' = [task EXCEPT ![t] = r]
  BY <1>4, <1>5
<1>11. Calls'
  BY <1>7, <1>9, <1>10, TaskStep
<1>12. QED
  BY <1>1, <1>11, ApiKept

LEMMA SendFailsKeeps ==
  ASSUME IInv, NEW t \in Threads, SendFails(t)
  PROVE  IInv'
<1> USE DEF IInv
<1>1. /\ task[t].pc = "send" /\ task[t].host = 0
      /\ UNCHANGED <<api, m_authToken, server, list>>
  BY DEF SendFails, At
<1>2. PICK did \in {0, 1} : /\ did = 1 => task[t].cmd.post
                            /\ task' = [Leave(t) EXCEPT ![t].sent = @ + did]
  <2>1. PICK did \in IF task[t].cmd.post /\ Answered(t) THEN {0, 1} ELSE {0} :
          task' = [Leave(t) EXCEPT ![t].sent = @ + did]
    BY DEF SendFails
  <2>2. did \in {0, 1} /\ (did = 1 => task[t].cmd.post)
    OBVIOUS
  <2>3. QED
    BY <2>1, <2>2
<1>3. task' = [task EXCEPT ![t].pc = After(t), ![t].second = task[t].cmd.more,
                           ![t].phase = "first", ![t].clean = FALSE, ![t].sent = did]
  BY <1>1, <1>2, LeaveForm
<1>4. Calls'
  <2> HIDE DEF IInv
  <2>1. Calls
    BY DEF IInv
  <2>2. QED
    BY <1>1, <1>2, <1>3, <2>1, LeaveStep, Zenon
<1>5. QED
  BY <1>1, <1>4, ApiKept

----------------------------------------------------------------------------
(***************************************************************************)
(* The names of hosts, the calls and the environment                       *)
(***************************************************************************)
\* The thread that calls nothing.
LEMMA IdleFacts == Idle \in Tasks({<<>>}) /\ Sound(Idle)
<1>1. <<>> \in Seq(Services) /\ Value \in Kinds /\ Value.fetch = 0
  BY EmptySeq, KindFacts
<1>2. "idle" \in Places /\ "first" \in Phases
  BY DEF Places, Before, Phases
<1>3. Idle \in Tasks({<<>>})
  BY <1>1, <1>2 DEF Idle, Tasks
<1>4. Sound(Idle)
  BY <1>1 DEF Idle, Sound
<1>5. QED
  BY <1>3, <1>4

\* A call that goes to another place and another name of a host.
LEMMA HostStep ==
  ASSUME Calls, NEW t \in Threads, task[t].pc \in {"idle", "unresolved"},
         NEW h \in 0..2, h > 0 => task[t].cmd = Value /\ ~task[t].second,
         task[t].pc = "unresolved" => h > 0,
         task' = [task EXCEPT ![t].pc = "check", ![t].host = h]
  PROVE  Calls'
<1> DEFINE me == task[t]
<1>1. me \in Tasks(Results) /\ Sound(me)
  BY MeFacts
<1>2. PICK r : r = [me EXCEPT !.pc = "check", !.host = h]
  OBVIOUS
<1>3. "check" \in Places
  BY DEF Places, Before
<1>4. r \in Tasks(Results)
  BY <1>1, <1>2, <1>3 DEF Tasks
<1>5. /\ r.pc = "check" /\ r.host = h /\ r.cmd = me.cmd /\ r.proto = me.proto
      /\ r.index = me.index /\ r.size = me.size /\ r.total = me.total
      /\ r.second = me.second /\ r.from = me.from /\ r.sent = me.sent
  BY <1>1, <1>2 DEF Tasks
<1>6. ~me.second => me.size = 0
  <2>1. CASE me.pc = "idle"
    BY <1>1, <2>1 DEF Sound, Before
  <2>2. CASE me.pc = "unresolved"
    <3>1. me.cmd.fetch = 0 /\ me.size \in Nat
      BY <1>1, <2>2, KindFacts DEF Tasks
    <3>2. QED
      BY <1>1, <3>1 DEF Sound
  <2>3. QED
    BY <2>1, <2>2
<1>7. Sound(r)
  BY <1>1, <1>5, <1>6 DEF Sound
<1>8. task' = [task EXCEPT ![t] = r]
  BY <1>2
<1>9. QED
  BY <1>4, <1>7, <1>8, TaskStep

LEMMA CallKeeps ==
  ASSUME IInv, NEW t \in Threads, Call(t)
  PROVE  IInv'
<1> USE DEF IInv
<1>1. /\ task[t].pc = "idle" /\ task' = [task EXCEPT ![t].pc = "check"]
      /\ UNCHANGED <<api, m_authToken, server, list>>
  BY DEF Call, At
<1>2. task[t] \in Tasks(Results) /\ Sound(task[t])
  BY MeFacts
<1>3. PICK r : r = [task[t] EXCEPT !.pc = "check"]
  OBVIOUS
<1>4. r \in Tasks(Results) /\ Kept(r, task[t]) /\ r.pc = "check"
  BY <1>2, <1>3 DEF Tasks, Kept, Places, Before
<1>5. Sound(r)
  <2>1. task[t].pc \in Before /\ r.pc # "idle" /\ r.pc # "services" /\ task[t].pc # "done"
    BY <1>1, <1>4 DEF Before
  <2>2. QED
    BY <1>2, <1>4, <2>1, SoundKept
<1>6. task' = [task EXCEPT ![t] = r]
  BY <1>1, <1>3
<1>7. Calls'
  BY <1>4, <1>5, <1>6, TaskStep
<1>8. QED
  BY <1>1, <1>7, ApiKept

LEMMA ResolveHostNameKeeps ==
  ASSUME IInv, NEW t \in Threads, ResolveHostName(t)
  PROVE  IInv'
<1> USE DEF IInv
<1>1. /\ task[t].pc = "idle" /\ m_mutex' = t
      /\ task' = [task EXCEPT ![t].pc = "check", ![t].host = 2]
      /\ UNCHANGED <<m_checked, m_serviceVersion, m_protocol, m_namedCache, m_authToken,
                     server, list>>
  BY DEF ResolveHostName, At
<1>2. task[t].cmd = Value /\ ~task[t].second
  BY <1>1, MeFacts DEF Sound
<1>3. PICK h \in 0..2 : h = 2
  OBVIOUS
<1>4. Calls'
  BY <1>1, <1>2, <1>3, HostStep
<1>5. Api'
  BY <1>1 DEF Api
<1>6. QED
  BY <1>4, <1>5

LEMMA NextSettingKeeps ==
  ASSUME IInv, NEW t \in Threads, NextSetting(t)
  PROVE  IInv'
<1> USE DEF IInv
<1>1. /\ task[t].pc = "unresolved"
      /\ UNCHANGED <<m_checked, m_serviceVersion, m_protocol, m_namedCache, m_authToken,
                     server, list>>
  BY DEF NextSetting, At
<1>2. task[t] \in Tasks(Results) /\ Sound(task[t])
  BY MeFacts
<1>3. CASE task[t].host > 1
  <2>1. task' = [task EXCEPT ![t].pc = "check", ![t].host = task[t].host - 1]
        /\ UNCHANGED m_mutex
    BY <1>3 DEF NextSetting, Calls
  <2>2. task[t].host \in 0..2
    BY <1>2 DEF Tasks
  <2>3. PICK h \in 0..2 : h = task[t].host - 1 /\ h > 0
    BY <1>3, <2>2
  <2>4. task[t].cmd = Value /\ ~task[t].second
    BY <1>2, <1>3, <2>2 DEF Sound
  <2>5. task' = [task EXCEPT ![t].pc = "check", ![t].host = h]
    BY <2>1, <2>3
  <2>6. Calls'
    BY <1>1, <2>3, <2>4, <2>5, HostStep
  <2>7. Api'
    BY <1>1, <2>1 DEF Api
  <2>8. QED
    BY <2>6, <2>7
<1>4. CASE ~(task[t].host > 1)
  <2>1. task' = [task EXCEPT ![t] = Idle] /\ m_mutex' = NoThread
    BY <1>4 DEF NextSetting
  <2>2. Calls'
    BY <2>1, IdleFacts, TaskStep
  <2>3. Api'
    BY <1>1, <2>1 DEF Api
  <2>4. QED
    BY <2>2, <2>3
<1>5. QED
  BY <1>3, <1>4

LEMMA ResolvedKeeps ==
  ASSUME IInv, NEW t \in Threads, Resolved(t) \/ SettingLost(t) \/ Return(t)
  PROVE  IInv'
<1> USE DEF IInv
<1>1. /\ UNCHANGED <<m_checked, m_serviceVersion, m_protocol, m_authToken, server, list>>
      /\ m_mutex' \in {m_mutex, NoThread}
      /\ m_namedCache' \subseteq m_namedCache \cup {"other"}
  BY DEF Resolved, SettingLost, Return, api
<1>2. Api'
  BY <1>1 DEF Api
<1>3. CASE task' = [task EXCEPT ![t] = Idle]
  <2>1. Calls'
    BY <1>3, IdleFacts, TaskStep
  <2>2. QED
    BY <1>2, <2>1
<1>4. CASE /\ task[t].pc = "send"
           /\ task' = [task EXCEPT ![t].pc = "unresolved", ![t].phase = "first"]
  <2>1. /\ "unresolved" \in Places \ {"idle"} /\ "first" \in Phases
        /\ "unresolved" \notin Before /\ task[t].pc # "done"
    BY <1>4 DEF Places, Phases, Before
  <2>2. Calls'
    BY <1>4, <2>1, PlaceStep
  <2>3. QED
    BY <1>2, <2>2
<1>5. QED
  BY <1>3, <1>4 DEF Resolved, SettingLost, Return, At

LEMMA RestartKeeps ==
  ASSUME IInv, Restart
  PROVE  IInv'
<1> USE DEF IInv
<1>1. /\ server' \in Releases /\ m_authToken' \in {"none", "good", "stale"}
      /\ UNCHANGED <<api, list, task>>
  BY DEF Restart, Api
<1>2. Api'
  BY <1>1 DEF Api, api
<1>3. Calls'
  BY <1>1 DEF Calls, Results
<1>4. QED
  BY <1>2, <1>3

LEMMA ChangeListKeeps ==
  ASSUME IInv, ChangeList
  PROVE  IInv'
<1> USE DEF IInv
<1>1. /\ UNCHANGED <<api, m_authToken, server>>
      /\ task' = [t \in Threads |-> [task[t] EXCEPT !.clean = FALSE]]
  BY DEF ChangeList
<1>2. list' \in Seq(Nat)
  <2>1. list \in Seq(Nat)
    BY DEF Api
  <2>2. CASE list' = Append(list, 0)
    BY <2>1, <2>2, AppendProperties
  <2>3. CASE list # <<>> /\ list' = Tail(list)
    BY <2>1, <2>3, HeadTailProperties
  <2>4. QED
    BY <2>2, <2>3 DEF ChangeList
<1>3. Api'
  BY <1>1, <1>2 DEF Api, api
<1>4. \A t \in Threads : task'[t] \in Tasks(Results') /\ Sound(task'[t])
  <2> TAKE t \in Threads
  <2>1. task[t] \in Tasks(Results) /\ Sound(task[t])
    BY MeFacts
  <2>2. task'[t] = [task[t] EXCEPT !.clean = FALSE]
    BY <1>1
  <2>3. /\ task'[t] \in Tasks(Results) /\ Kept(task'[t], task[t])
        /\ task'[t].pc = task[t].pc /\ task'[t].left = task[t].left
    BY <2>1, <2>2 DEF Tasks, Kept
  <2>4. task[t].pc = "services" => task[t].left # <<>>
    BY <2>1 DEF Sound
  <2>5. Sound(task'[t])
    BY <2>1, <2>3, <2>4, SoundKept
  <2>6. task'[t].ret \in Results'
    BY DEF Results
  <2>7. QED
    BY <2>3, <2>5, <2>6, AnyResult
<1>5. Calls'
  <2>1. task' = [t \in Threads |-> task'[t]]
    BY <1>1
  <2>2. QED
    BY <1>4, <2>1 DEF Calls
<1>6. QED
  BY <1>3, <1>5

----------------------------------------------------------------------------
(***************************************************************************)
(* Which elements are kept                                                 *)
(***************************************************************************)
\* Induction over the natural numbers, for a set.
LEMMA Induction ==
  ASSUME NEW S, 0 \in S, \A n \in Nat : n \in S => n + 1 \in S
  PROVE  Nat \subseteq S
<1>1. SUFFICES ASSUME Nat \ S # {} PROVE FALSE
  OBVIOUS
<1>2. PICK n \in Nat \ S : \A m \in Nat \ S : ~(<<m, n>> \in OpToRel(<, Nat))
  <2> DEFINE T == Nat \ S
  <2> HIDE DEF T
  <2>1. T # {} /\ T \subseteq Nat
    BY <1>1 DEF T
  <2>2. \E n \in T : \A m \in T : ~(<<m, n>> \in OpToRel(<, Nat))
    BY <2>1, NatLessThanWellFounded, WFMin
  <2>3. QED
    BY <2>2 DEF T
<1>3. n # 0 /\ n - 1 \in Nat /\ n - 1 < n
  OBVIOUS
<1>4. n - 1 \notin S
  BY <1>3
<1>5. <<n - 1, n>> \in OpToRel(<, Nat)
  BY <1>3, Zenon DEF OpToRel
<1>6. QED
  BY <1>2, <1>3, <1>4, <1>5

\* One element more: it is kept or passed over.
Keep(f, s, i) == IF s[i] \in Hidden THEN f[i - 1] ELSE Append(f[i - 1], s[i])

\* f[i] are the elements that are kept of the first i, for every i up to m.
Keeps(f, s, m) ==
  /\ f[0] = <<>>
  /\ \A i \in 1..m : f[i] = Keep(f, s, i)

\* What the definition of Visible says of the function it is made of.
IsKept(f, s) ==
  f = [i \in 0..Len(s) |->
         IF i = 0 THEN <<>>
         ELSE IF s[i] \in Hidden THEN f[i - 1] ELSE Append(f[i - 1], s[i])]

\* There is such a function up to any m.
LEMMA KeepsExists ==
  ASSUME NEW s, NEW m \in Nat
  PROVE  \E f : Keeps(f, s, m)
<1> DEFINE S == {k \in Nat : \E f : Keeps(f, s, k)}
<1>1. 0 \in S
  <2>1. Keeps([i \in {0} |-> <<>>], s, 0)
    BY DEF Keeps
  <2>2. QED
    BY <2>1
<1>2. ASSUME NEW k \in Nat, k \in S PROVE k + 1 \in S
  <2>1. PICK f : Keeps(f, s, k)
    BY <1>2
  <2>2. PICK v : v = IF s[k + 1] \in Hidden THEN f[k] ELSE Append(f[k], s[k + 1])
    OBVIOUS
  <2>3. PICK g : g = [i \in 0..(k + 1) |-> IF i = k + 1 THEN v ELSE f[i]]
    OBVIOUS
  <2>4. g[k + 1] = v /\ \A i \in 0..k : g[i] = f[i]
    BY <2>3
  <2>5. g[0] = <<>>
    BY <2>1, <2>4 DEF Keeps
  <2>6. ASSUME NEW i \in 1..k PROVE g[i] = Keep(g, s, i)
    <3>1. f[i] = Keep(f, s, i)
      BY <2>1 DEF Keeps
    <3>2. g[i] = f[i] /\ g[i - 1] = f[i - 1]
      BY <2>4
    <3>3. QED
      BY <3>1, <3>2 DEF Keep
  <2>7. g[k + 1] = Keep(g, s, k + 1)
    <3>1. (k + 1) - 1 = k /\ g[k] = f[k]
      BY <2>4
    <3>2. QED
      BY <2>2, <2>4, <3>1 DEF Keep
  <2>8. \A i \in 1..(k + 1) : i \in 1..k \/ i = k + 1
    OBVIOUS
  <2>9. Keeps(g, s, k + 1)
    BY <2>5, <2>6, <2>7, <2>8 DEF Keeps
  <2>10. QED
    BY <2>9
<1> HIDE DEF S
<1>3. m \in S
  BY <1>1, <1>2, Induction
<1>4. QED
  BY <1>3 DEF S

\* Visible is the last value of such a function.
LEMMA VisibleDef ==
  ASSUME NEW s \in Seq(Nat)
  PROVE  \E f : Keeps(f, s, Len(s)) /\ Visible(s) = f[Len(s)]
<1> DEFINE C == CHOOSE g : IsKept(g, s)
<1>1. Len(s) \in Nat
  BY LenProperties
<1>2. PICK h : Keeps(h, s, Len(s))
  BY <1>1, KeepsExists
<1>3. PICK f : f = [i \in 0..Len(s) |-> h[i]]
  OBVIOUS
<1>4. IsKept(f, s)
  <2>1. ASSUME NEW i \in 0..Len(s)
        PROVE  h[i] = IF i = 0 THEN <<>>
                      ELSE IF s[i] \in Hidden THEN f[i - 1] ELSE Append(f[i - 1], s[i])
    <3>1. CASE i = 0
      BY <1>2, <3>1 DEF Keeps
    <3>2. CASE i # 0
      <4>1. i \in 1..Len(s) /\ i - 1 \in 0..Len(s)
        BY <1>1, <3>2
      <4>2. f[i - 1] = h[i - 1]
        BY <1>3, <4>1
      <4>3. h[i] = Keep(h, s, i)
        BY <1>2, <4>1 DEF Keeps
      <4>4. QED
        BY <3>2, <4>2, <4>3 DEF Keep
    <3>3. QED
      BY <3>1, <3>2
  <2>2. QED
    BY <1>3, <2>1 DEF IsKept
<1>5. IsKept(C, s)
  BY <1>4, Zenon
<1>6. Visible(s) = C[Len(s)]
  BY Zenon DEF Visible, IsKept
<1>7. PICK g : g = C
  OBVIOUS
<1> HIDE DEF C
<1>8. IsKept(g, s) /\ Visible(s) = g[Len(s)]
  BY <1>5, <1>6, <1>7
<1>9. Keeps(g, s, Len(s))
  <2>1. 0 \in 0..Len(s) /\ \A i \in 1..Len(s) : i \in 0..Len(s) /\ i # 0
    BY <1>1
  <2>2. g[0] = <<>>
    BY <1>8, <2>1 DEF IsKept
  <2>3. ASSUME NEW i \in 1..Len(s) PROVE g[i] = Keep(g, s, i)
    BY <1>8, <2>1 DEF IsKept, Keep
  <2>4. QED
    BY <2>2, <2>3 DEF Keeps
<1>10. QED
  BY <1>8, <1>9

\* What is kept up to any element is a sequence.
LEMMA KeepsType ==
  ASSUME NEW s \in Seq(Nat), NEW f, Keeps(f, s, Len(s)), NEW k \in 0..Len(s)
  PROVE  f[k] \in Seq(Nat)
<1> DEFINE S == {i \in Nat : i <= Len(s) => f[i] \in Seq(Nat)}
<1>1. Len(s) \in Nat
  BY LenProperties
<1>2. 0 \in S
  BY EmptySeq DEF Keeps
<1>3. ASSUME NEW i \in Nat, i \in S PROVE i + 1 \in S
  <2>1. SUFFICES ASSUME i + 1 <= Len(s) PROVE f[i + 1] \in Seq(Nat)
    BY <1>3
  <2>2. i + 1 \in 1..Len(s) /\ (i + 1) - 1 = i /\ i <= Len(s)
    BY <1>1, <2>1
  <2>3. f[i] \in Seq(Nat) /\ s[i + 1] \in Nat
    BY <1>3, <2>2, ElementOfSeq
  <2>4. f[i + 1] = Keep(f, s, i + 1)
    BY <2>2 DEF Keeps
  <2>5. f[i + 1] = IF s[i + 1] \in Hidden THEN f[i] ELSE Append(f[i], s[i + 1])
    BY <2>2, <2>4 DEF Keep
  <2>6. QED
    BY <2>3, <2>5, AppendProperties
<1>4. k \in Nat /\ k <= Len(s)
  BY <1>1
<1> HIDE DEF S
<1>5. k \in S
  BY <1>2, <1>3, <1>4, Induction
<1>6. QED
  BY <1>4, <1>5 DEF S

\* Two such functions of sequences that begin alike begin alike.
LEMMA KeepsUnique ==
  ASSUME NEW s, NEW c, NEW f, NEW g, NEW m \in Nat, Keeps(f, s, m), Keeps(g, c, m),
         \A i \in 1..m : c[i] = s[i]
  PROVE  g[m] = f[m]
<1> DEFINE S == {i \in Nat : i <= m => g[i] = f[i]}
<1>1. 0 \in S
  BY DEF Keeps
<1>2. ASSUME NEW i \in Nat, i \in S PROVE i + 1 \in S
  <2>1. SUFFICES ASSUME i + 1 <= m PROVE g[i + 1] = f[i + 1]
    BY <1>2
  <2>2. i + 1 \in 1..m /\ (i + 1) - 1 = i /\ g[i] = f[i] /\ c[i + 1] = s[i + 1]
    BY <1>2, <2>1
  <2>3. f[i + 1] = Keep(f, s, i + 1) /\ g[i + 1] = Keep(g, c, i + 1)
    BY <2>2 DEF Keeps
  <2>4. QED
    BY <2>2, <2>3 DEF Keep
<1> HIDE DEF S
<1>3. m \in S
  BY <1>1, <1>2, Induction
<1>4. QED
  BY <1>3 DEF S

\* An element appended to two sequences is appended to the second.
LEMMA AppendConcat ==
  ASSUME NEW u \in Seq(Nat), NEW v \in Seq(Nat), NEW e \in Nat
  PROVE  Append(u \o v, e) = u \o Append(v, e)
<1>1. u \o v \in Seq(Nat)
  BY ConcatProperties
<1>2. PICK w \in Seq(Nat) : w = <<e>>
  <2>1. <<e>> \in Seq(Nat)
    OBVIOUS
  <2>2. QED
    BY <2>1
<1>3. Append(u \o v, e) = (u \o v) \o w /\ Append(v, e) = v \o w
  BY <1>1, <1>2, AppendIsConcat
<1>4. (u \o v) \o w = u \o (v \o w)
  BY ConcatAssociative
<1>5. QED
  BY <1>3, <1>4

\* What is kept of two pages is what is kept of the first and then of the second.
LEMMA VisibleConcat ==
  ASSUME NEW a \in Seq(Nat), NEW b \in Seq(Nat)
  PROVE  Visible(a \o b) = Visible(a) \o Visible(b)
<1>1. PICK c \in Seq(Nat) : c = a \o b
  BY ConcatProperties
<1>2. PICK l \in Nat, k \in Nat : l = Len(a) /\ k = Len(b) /\ Len(c) = l + k
  BY <1>1, LenProperties, ConcatProperties
<1>3. /\ \A i \in 1..l : c[i] = a[i]
      /\ \A j \in 1..k : c[l + j] = b[j]
  <2>1. \A i \in 1..l : i \in 1..Len(c) /\ i <= Len(a)
    BY <1>2
  <2>2. \A i \in 1..Len(c) : c[i] = IF i <= Len(a) THEN a[i] ELSE b[i - Len(a)]
    BY <1>1, ConcatProperties
  <2>3. \A j \in 1..k : l + j \in 1..Len(c) /\ ~(l + j <= Len(a)) /\ (l + j) - Len(a) = j
    BY <1>2
  <2>4. \A i \in 1..l : c[i] = a[i]
    BY <2>1, <2>2
  <2>5. \A j \in 1..k : c[l + j] = b[j]
    BY <2>2, <2>3
  <2>6. QED
    BY <2>4, <2>5
<1>4. PICK f : Keeps(f, a, l) /\ Visible(a) = f[l]
  BY <1>2, VisibleDef
<1>5. PICK g : Keeps(g, b, k) /\ Visible(b) = g[k]
  BY <1>2, VisibleDef
<1>6. PICK h : Keeps(h, c, l + k) /\ Visible(c) = h[l + k]
  BY <1>2, VisibleDef
<1>7. h[l] = f[l]
  <2>1. \A i \in 1..l : i \in 1..(l + k)
    OBVIOUS
  <2>2. Keeps(h, c, l)
    BY <1>6, <2>1 DEF Keeps
  <2>3. QED
    BY <1>3, <1>4, <2>2, KeepsUnique
<1>8. f[l] \in Seq(Nat) /\ \A j \in 0..k : g[j] \in Seq(Nat)
  <2>1. l \in 0..l
    OBVIOUS
  <2>2. QED
    BY <1>2, <1>4, <1>5, <2>1, KeepsType
<1> DEFINE P(j) == j <= k => h[l + j] = f[l] \o g[j]
           S == {j \in Nat : P(j)}
<1>9. P(0)
  <2>1. l + 0 = l /\ g[0] = <<>>
    BY <1>5 DEF Keeps
  <2>2. f[l] \o <<>> = f[l]
    BY <1>8, ConcatEmptySeq
  <2>3. QED
    BY <1>7, <2>1, <2>2
<1>10. ASSUME NEW j \in Nat, j <= k => h[l + j] = f[l] \o g[j], j + 1 <= k
       PROVE  h[l + (j + 1)] = f[l] \o g[j + 1]
  <2>1. /\ j + 1 \in 1..k /\ (j + 1) - 1 = j /\ j \in 0..k /\ j <= k
        /\ l + (j + 1) \in 1..(l + k) /\ (l + (j + 1)) - 1 = l + j
    BY <1>10
  <2>2. h[l + j] = f[l] \o g[j] /\ c[l + (j + 1)] = b[j + 1]
    BY <1>3, <1>10, <2>1
  <2>3. g[j + 1] = IF b[j + 1] \in Hidden THEN g[j] ELSE Append(g[j], b[j + 1])
    BY <1>5, <2>1 DEF Keeps, Keep
  <2>4. h[l + (j + 1)] = Keep(h, c, l + (j + 1))
    BY <1>6, <2>1 DEF Keeps
  <2>5. h[l + (j + 1)] = IF b[j + 1] \in Hidden THEN f[l] \o g[j]
                         ELSE Append(f[l] \o g[j], b[j + 1])
    BY <2>1, <2>2, <2>4 DEF Keep
  <2>6. b[j + 1] \in Nat /\ g[j] \in Seq(Nat)
    BY <1>2, <1>8, <2>1, ElementOfSeq
  <2>7. Append(f[l] \o g[j], b[j + 1]) = f[l] \o Append(g[j], b[j + 1])
    BY <1>8, <2>6, AppendConcat
  <2>8. QED
    BY <2>3, <2>5, <2>7
<1>11. ASSUME NEW j \in Nat, P(j) PROVE P(j + 1)
  BY <1>10, <1>11
<1>12. P(k)
  <2> HIDE DEF P
  <2>1. 0 \in S /\ \A j \in Nat : j \in S => j + 1 \in S
    BY <1>9, <1>11
  <2> HIDE DEF S
  <2>2. k \in S
    BY <2>1, Induction
  <2>3. QED
    BY <2>2 DEF S
<1>13. h[l + k] = f[l] \o g[k]
  <2>1. k <= k
    OBVIOUS
  <2>2. QED
    BY <1>12, <2>1, Zenon
<1>14. QED
  BY <1>1, <1>4, <1>5, <1>6, <1>13

\* What is kept of two pages, also when all of it is.
LEMMA SiftConcat ==
  ASSUME NEW m, NEW a \in Seq(Nat), NEW b \in Seq(Nat)
  PROVE  Sift(m, a \o b) = Sift(m, a) \o Sift(m, b)
BY VisibleConcat DEF Sift

\* Nothing is kept of nothing.
LEMMA SiftEmpty ==
  ASSUME NEW m
  PROVE  Sift(m, <<>>) = <<>>
<1>1. <<>> \in Seq(Nat) /\ Len(<<>>) = 0
  BY EmptySeq
<1>2. PICK f : Keeps(f, <<>>, 0) /\ Visible(<<>>) = f[0]
  BY <1>1, VisibleDef
<1>3. QED
  BY <1>2 DEF Keeps, Sift

----------------------------------------------------------------------------
(***************************************************************************)
(* A list that is fetched by pages                                         *)
(***************************************************************************)
\* Where a page ends that starts after total elements of len.
PageEnd(total, size, len) == IF size = 0 \/ total + size > len THEN len ELSE total + size

\* A page up to m follows the total elements that were received before it.
Follows(l, total, m) ==
  /\ m \in Nat /\ total <= m /\ m <= Len(l)
  /\ SubSeq(l, 1, total) \in Seq(Nat) /\ SubSeq(l, total + 1, m) \in Seq(Nat)
  /\ Len(SubSeq(l, total + 1, m)) = m - total
  /\ SubSeq(l, 1, total) \o SubSeq(l, total + 1, m) = SubSeq(l, 1, m)

LEMMA PageFollows ==
  ASSUME NEW l \in Seq(Nat), NEW total \in Nat, NEW size \in Nat, total <= Len(l)
  PROVE  Follows(l, total, PageEnd(total, size, Len(l)))
<1> DEFINE m == PageEnd(total, size, Len(l))
<1>1. PICK len \in Nat : len = Len(l)
  BY LenProperties
<1>2. m \in Nat /\ total <= m /\ m <= len
  BY <1>1 DEF PageEnd
<1> HIDE DEF m
<1>3. /\ 1 \in 1..(Len(l) + 1) /\ total \in (1 - 1)..Len(l) /\ m \in total..Len(l)
      /\ \A i \in (total + 1)..m : i \in 1..Len(l)
      /\ \A i \in 1..total : i \in 1..Len(l)
  BY <1>1, <1>2
<1>4. SubSeq(l, 1, total) \o SubSeq(l, total + 1, m) = SubSeq(l, 1, m)
  BY <1>3, ConcatAdjacentSubSeq
<1>5. SubSeq(l, 1, total) \in Seq(Nat)
  BY <1>3, SubSeqProperties
<1>6. /\ SubSeq(l, total + 1, m) \in Seq(Nat)
      /\ Len(SubSeq(l, total + 1, m)) = IF total + 1 <= m THEN m - (total + 1) + 1 ELSE 0
  BY <1>2, <1>3, SubSeqProperties
<1>7. Len(SubSeq(l, total + 1, m)) = m - total
  BY <1>2, <1>6
<1>8. Follows(l, total, m)
  BY <1>1, <1>2, <1>4, <1>5, <1>6, <1>7 DEF Follows
<1>9. QED
  BY <1>8 DEF m

\* Another page is asked for within the limit, and for something.
LEMMA PageGoesOn ==
  ASSUME NEW n \in Nat, NEW m \in Nat, NEW size \in Nat, n = 0 \/ n > m
  PROVE  /\ n > 0 => m < n /\ PageSize(n, m, size) <= n - m
         /\ size > 0 => PageSize(n, m, size) > 0
BY DEF PageSize

\* The page up to m, asked for within the limit, is the last one.
LastPage(n, total, size, len, fetch, m) ==
  /\ m = PageEnd(total, size, len) /\ total <= len
  /\ n > 0 => total < n /\ size <= n - total
  /\ n > 0 => size > 0
  /\ fetch = 0 => size = 0 /\ n = 0
  /\ ~(fetch > 0 /\ m - total = size /\ (n = 0 \/ n > m))

\* It ends with the list or at the limit, whichever comes first.
LEMMA PageIsLast ==
  ASSUME NEW n \in Nat, NEW total \in Nat, NEW size \in Nat, NEW len \in Nat,
         NEW fetch \in Nat, NEW m \in Nat, LastPage(n, total, size, len, fetch, m)
  PROVE  m = IF n > 0 /\ n < len THEN n ELSE len
<1> USE DEF LastPage
<1>1. CASE fetch = 0
  BY <1>1 DEF PageEnd
<1>2. CASE fetch > 0 /\ m - total # size
  <2>1. m = len /\ (size = 0 \/ total + size > len)
    BY <1>2 DEF PageEnd
  <2>2. QED
    BY <2>1
<1>3. CASE fetch > 0 /\ m - total = size
  <2>1. n > 0 /\ n <= m
    BY <1>3
  <2>2. m <= n /\ m <= len
    BY <1>3, <2>1 DEF PageEnd
  <2>3. QED
    BY <2>1, <2>2
<1>4. QED
  BY <1>1, <1>2, <1>3

\* The call of t goes on to r with the same list.
LEMMA FetchStep ==
  ASSUME Calls, Fetch, NEW t \in Threads, NEW r, task' = [task EXCEPT ![t] = r],
         list' = list, Fetched(r, list)
  PROVE  Fetch'
<1>1. task \in [Threads -> Tasks(Results)]
  BY DEF Calls
<1>2. task'[t] = r /\ \A u \in Threads \ {t} : task'[u] = task[u]
  BY <1>1
<1>3. ASSUME NEW u \in Threads PROVE Fetched(task'[u], list')
  BY <1>2 DEF Fetch
<1>4. QED
  BY <1>3 DEF Fetch

\* The call of t is in no list: nothing is said of it.
LEMMA QuietStep ==
  ASSUME Calls, Fetch, NEW t \in Threads, NEW r, task' = [task EXCEPT ![t] = r],
         list' = list, r.cmd = task[t].cmd, r.n = task[t].n,
         r.pc \notin {"send", "done"} \/ ~r.clean \/ ~r.cmd.check
  PROVE  Fetch'
<1>1. Fetched(task[t], list)
  BY DEF Fetch
<1>2. ~r.cmd.limit => r.n = 0
  BY <1>1 DEF Fetched
<1>3. Fetched(r, list)
  BY <1>2 DEF Fetched
<1>4. QED
  BY <1>3, FetchStep

\* A request fails, or is answered by another version.
LEMMA QuietLeave ==
  ASSUME Calls, Fetch, NEW t \in Threads, NEW did, list' = list,
         task' = [task EXCEPT ![t].pc = After(t), ![t].second = task[t].cmd.more,
                              ![t].phase = "first", ![t].clean = FALSE, ![t].sent = did]
  PROVE  Fetch'
<1>1. task[t] \in Tasks(Results)
  BY MeFacts
<1>2. PICK r : r = [task[t] EXCEPT !.pc = After(t), !.second = task[t].cmd.more,
                                   !.phase = "first", !.clean = FALSE, !.sent = did]
  OBVIOUS
<1>3. r.clean = FALSE /\ r.cmd = task[t].cmd /\ r.n = task[t].n
  BY <1>1, <1>2 DEF Tasks
<1>4. task' = [task EXCEPT ![t] = r]
  BY <1>2
<1>5. QED
  BY <1>3, <1>4, QuietStep

\* Only Execute makes progress.
LEMMA ExecuteFetches ==
  ASSUME IInv, Fetch, NEW t \in Threads, Unauthorized(t) \/ LoginUser(t)
  PROVE  Fetch'
<1>1. task[t] \in Tasks(Results) /\ Calls
  BY MeFacts DEF IInv
<1>2. PICK f : task' = [task EXCEPT ![t].phase = f] /\ list' = list
  BY DEF Unauthorized, LoginUser
<1>3. PICK r : r = [task[t] EXCEPT !.phase = f]
  OBVIOUS
<1>4. /\ r.cmd = task[t].cmd /\ r.n = task[t].n /\ r.pc = task[t].pc
      /\ r.clean = task[t].clean /\ r.index = task[t].index /\ r.total = task[t].total
      /\ r.ret = task[t].ret /\ r.size = task[t].size
  BY <1>1, <1>3 DEF Tasks
<1>5. Fetched(task[t], list)
  BY DEF Fetch
<1>6. Fetched(r, list)
  BY <1>4, <1>5 DEF Fetched, Fetching, Asked
<1>7. task' = [task EXCEPT ![t] = r]
  BY <1>2, <1>3
<1>8. QED
  BY <1>1, <1>2, <1>6, <1>7, FetchStep

\* A variant is picked: one without a limit has none.
LEMMA DispatchFetches ==
  ASSUME Calls, Fetch, NEW t \in Threads, NEW wsv, Dispatch(t, wsv), list' = list
  PROVE  Fetch'
<1>1. task[t] \in Tasks(Results)
  BY MeFacts
<1>2. CASE task' = [task EXCEPT ![t].pc = IF task[t].host > 0 THEN "unresolved" ELSE "done",
                                ![t].left = <<>>, ![t].phase = "first", ![t].clean = FALSE]
  <2>1. PICK r : r = [task[t] EXCEPT !.pc = IF task[t].host > 0 THEN "unresolved" ELSE "done",
                                     !.left = <<>>, !.phase = "first", !.clean = FALSE]
    OBVIOUS
  <2>2. r.clean = FALSE /\ r.cmd = task[t].cmd /\ r.n = task[t].n
    BY <1>1, <2>1 DEF Tasks
  <2>3. task' = [task EXCEPT ![t] = r]
    BY <1>2, <2>1
  <2>4. QED
    BY <2>2, <2>3, QuietStep
<1>3. ASSUME NEW c, NEW n, ~c.limit => n = 0,
             task' = [task EXCEPT ![t].pc = "bind", ![t].cmd = c, ![t].n = n,
                                  ![t].left = <<>>, ![t].phase = "first"]
      PROVE  Fetch'
  <2>1. PICK r : r = [task[t] EXCEPT !.pc = "bind", !.cmd = c, !.n = n,
                                     !.left = <<>>, !.phase = "first"]
    OBVIOUS
  <2>2. r.pc = "bind" /\ r.cmd = c /\ r.n = n
    BY <1>1, <2>1 DEF Tasks
  <2>3. Fetched(r, list)
    BY <1>3, <2>2 DEF Fetched
  <2>4. task' = [task EXCEPT ![t] = r]
    BY <1>3, <2>1
  <2>5. QED
    BY <2>3, <2>4, FetchStep
<1>4. QED
  BY <1>2, <1>3 DEF Dispatch

LEMMA CheckServiceFetches ==
  ASSUME IInv, Fetch, NEW t \in Threads, CheckService(t)
  PROVE  Fetch'
<1>1. Calls /\ task[t] \in Tasks(Results) /\ list' = list
  BY MeFacts DEF IInv, CheckService
<1>2. CASE m_checked
  BY <1>1, <1>2, DispatchFetches DEF CheckService
<1>3. CASE ~m_checked
  <2>1. task' = [task EXCEPT ![t].pc = "version"]
    BY <1>3 DEF CheckService
  <2>2. PICK r : r = [task[t] EXCEPT !.pc = "version"]
    OBVIOUS
  <2>3. r.pc = "version" /\ r.cmd = task[t].cmd /\ r.n = task[t].n
    BY <1>1, <2>2 DEF Tasks
  <2>4. task' = [task EXCEPT ![t] = r]
    BY <2>1, <2>2
  <2>5. QED
    BY <1>1, <2>3, <2>4, QuietStep
<1>4. QED
  BY <1>2, <1>3

\* The place and the progress of Execute change.
LEMMA QuietPlace ==
  ASSUME Calls, Fetch, NEW t \in Threads, NEW p, NEW f, p \notin {"send", "done"},
         list' = list, task' = [task EXCEPT ![t].pc = p, ![t].phase = f]
  PROVE  Fetch'
<1>1. task[t] \in Tasks(Results)
  BY MeFacts
<1>2. PICK r : r = [task[t] EXCEPT !.pc = p, !.phase = f]
  OBVIOUS
<1>3. r.pc = p /\ r.cmd = task[t].cmd /\ r.n = task[t].n
  BY <1>1, <1>2 DEF Tasks
<1>4. task' = [task EXCEPT ![t] = r]
  BY <1>2
<1>5. QED
  BY <1>3, <1>4, QuietStep

LEMMA InitWSAPIFetches ==
  ASSUME IInv, Fetch, NEW t \in Threads, InitWSAPI(t)
  PROVE  Fetch'
<1>1. Calls /\ task[t] \in Tasks(Results)
  BY MeFacts DEF IInv
<1>2. list' = list
  BY DEF InitWSAPI, GetMythVersion, CheckServerHostName2_0, CheckVersion2_0,
     GetServiceVersion
<1>3. ASSUME InitFailed(t) PROVE Fetch'
  BY <1>1, <1>2, <1>3, DispatchFetches DEF InitFailed
<1>4. CASE GetMythVersion(t)
  <2>1. task' = [task EXCEPT ![t].pc = "host", ![t].phase = "first"] \/ InitFailed(t)
    BY <1>4 DEF GetMythVersion
  <2>2. QED
    BY <1>1, <1>2, <1>3, <2>1, QuietPlace
<1>5. CASE CheckServerHostName2_0(t)
  <2>1. task' = [task EXCEPT ![t].pc = "connection", ![t].phase = "first"]
    BY <1>5 DEF CheckServerHostName2_0
  <2>2. "connection" \notin {"send", "done"}
    OBVIOUS
  <2>3. QED
    BY <1>1, <1>2, <2>1, <2>2, QuietPlace, Zenon
<1>6. CASE CheckVersion2_0(t)
  <2>1. PICK x : task' = [task EXCEPT ![t].pc = "services", ![t].phase = "first",
                                      ![t].left = x]
    BY <1>6 DEF CheckVersion2_0
  <2>2. PICK r : r = [task[t] EXCEPT !.pc = "services", !.phase = "first", !.left = x]
    OBVIOUS
  <2>3. r.pc = "services" /\ r.cmd = task[t].cmd /\ r.n = task[t].n
    BY <1>1, <2>2 DEF Tasks
  <2>4. task' = [task EXCEPT ![t] = r]
    BY <2>1, <2>2
  <2>5. QED
    BY <1>1, <1>2, <2>3, <2>4, QuietStep
<1>7. CASE GetServiceVersion(t)
  <2>1. task[t].pc = "services"
    BY <1>7 DEF GetServiceVersion, At
  <2>2. CASE Len(task[t].left) > 1
    <3>1. task' = [task EXCEPT ![t].left = Tail(@), ![t].phase = "first"]
      BY <1>7, <2>2 DEF GetServiceVersion
    <3>2. PICK r : r = [task[t] EXCEPT !.left = Tail(@), !.phase = "first"]
      OBVIOUS
    <3>3. r.pc = "services" /\ r.cmd = task[t].cmd /\ r.n = task[t].n
      BY <1>1, <2>1, <3>2 DEF Tasks
    <3>4. task' = [task EXCEPT ![t] = r]
      BY <3>1, <3>2
    <3>5. QED
      BY <1>1, <1>2, <3>3, <3>4, QuietStep
  <2>3. CASE ~(Len(task[t].left) > 1)
    <3>1. PICK wsv : Dispatch(t, wsv)
      BY <1>7, <2>3 DEF GetServiceVersion
    <3>2. QED
      BY <1>1, <1>2, <3>1, DispatchFetches
  <2>4. QED
    BY <2>2, <2>3
<1>8. QED
  BY <1>3, <1>4, <1>5, <1>6, <1>7 DEF InitWSAPI

\* The first page is asked for.
LEMMA BindFetches ==
  ASSUME IInv, Fetch, NEW t \in Threads, Bind(t)
  PROVE  Fetch'
<1> DEFINE me == task[t]
<1>1. Calls /\ me \in Tasks(Results) /\ list' = list
  BY MeFacts DEF IInv, Bind
<1>2. list \in Seq(Nat) /\ Len(list) \in Nat
  BY LenProperties DEF IInv, Api
<1>3. PICK c \in Kinds, n \in Nat : c = me.cmd /\ n = me.n
  BY <1>1 DEF Tasks
<1>4. PICK d, v :
        /\ d \in IF c.days THEN Days ELSE {1}
        /\ task' = [task EXCEPT ![t].pc = "send", ![t].index = 0, ![t].total = 0,
                                ![t].ret = <<>>, ![t].from = {}, ![t].proto = v,
                                ![t].size = PageSize(n, 0, FetchCount(c, d))]
  BY <1>3 DEF Bind
<1>5. PICK f : f = FetchCount(c, d)
  OBVIOUS
<1>6. f \in Nat /\ (~c.days => f = c.fetch)
  <2>1. d \in Nat \ {0}
    BY <1>4, WSAPIAssumption
  <2>2. c.fetch \in Nat /\ c.days \in BOOLEAN
    BY KindShape DEF Shapes
  <2>3. QED
    BY <1>5, <2>1, <2>2, DivFacts DEF FetchCount
<1>7. PICK r : r = [me EXCEPT !.pc = "send", !.index = 0, !.total = 0, !.ret = <<>>,
                              !.from = {}, !.proto = v, !.size = PageSize(n, 0, f)]
  OBVIOUS
<1>8. /\ r.pc = "send" /\ r.index = 0 /\ r.total = 0 /\ r.ret = <<>>
      /\ r.size = PageSize(n, 0, f) /\ r.cmd = c /\ r.n = n
  BY <1>1, <1>3, <1>7 DEF Tasks
<1>9. ~c.limit => n = 0
  BY <1>3 DEF Fetch, Fetched
<1>10. Fetching(r, list)
  <2>1. SubSeq(list, 1, 0) = <<>>
    BY <1>2, SubSeqEmpty
  <2>2. <<>> = Sift(c, SubSeq(list, 1, 0))
    BY <2>1, SiftEmpty
  <2>3. n > 0 => 0 < n /\ PageSize(n, 0, f) <= n - 0
    BY <1>6 DEF PageSize
  <2>4. ASSUME ~c.days, c.fetch > 0 PROVE PageSize(n, 0, f) > 0
    <3>1. f = c.fetch
      BY <1>6, <2>4
    <3>2. f > 0
      BY <2>4, <3>1
    <3>3. QED
      BY <1>6, <3>2 DEF PageSize
  <2>5. 0 <= Len(list)
    BY <1>2
  <2>6. QED
    BY <1>8, <2>2, <2>3, <2>4, <2>5 DEF Fetching
<1>11. Fetched(r, list)
  BY <1>8, <1>9, <1>10 DEF Fetched
<1>12. task' = [task EXCEPT ![t] = r]
  BY <1>4, <1>5, <1>7
<1>13. QED
  BY <1>1, <1>11, <1>12, FetchStep

\* A page is received.
LEMMA GetListFetches ==
  ASSUME IInv, Fetch, NEW t \in Threads, GetList(t)
  PROVE  Fetch'
<1> DEFINE me == task[t]
<1>1. Calls /\ me \in Tasks(Results) /\ Sound(me) /\ list' = list /\ me.pc = "send"
      /\ me.cmd.check
  BY MeFacts DEF IInv, GetList, At
<1>2. PICK l \in Seq(Nat) : l = list
  BY DEF IInv, Api
<1>3. PICK c \in Kinds, n \in Nat, total \in Nat, index \in Nat, size \in Nat :
        c = me.cmd /\ n = me.n /\ total = me.total /\ index = me.index /\ size = me.size
  BY <1>1 DEF Tasks
<1>4. PICK page : page = Page(index, size)
  OBVIOUS
<1>5. PICK again : again = Again(me, Len(page), total + Len(page))
  OBVIOUS
<1>6. task' = [task EXCEPT ![t].ret = me.ret \o Sift(c, page), ![t].total = total + Len(page),
                           ![t].index = NextIndex(me, page, Sift(c, page)),
                           ![t].size = IF again THEN PageSize(n, total + Len(page), size)
                                       ELSE size,
                           ![t].from = me.from \cup {Protocol[server]},
                           ![t].pc = IF again THEN "send" ELSE After(t),
                           ![t].second = IF again THEN me.second ELSE me.cmd.more,
                           ![t].phase = "first"]
  BY <1>3, <1>4, <1>5 DEF GetList, Calls
<1>7. PICK r : r = [me EXCEPT !.ret = me.ret \o Sift(c, page), !.total = total + Len(page),
                              !.index = NextIndex(me, page, Sift(c, page)),
                              !.size = IF again THEN PageSize(n, total + Len(page), size)
                                       ELSE size,
                              !.from = me.from \cup {Protocol[server]},
                              !.pc = IF again THEN "send" ELSE After(t),
                              !.second = IF again THEN me.second ELSE me.cmd.more,
                              !.phase = "first"]
  OBVIOUS
<1>8. /\ r.ret = me.ret \o Sift(c, page) /\ r.total = total + Len(page)
      /\ r.index = index + Len(page)
      /\ r.size = IF again THEN PageSize(n, total + Len(page), size) ELSE size
      /\ r.pc = IF again THEN "send" ELSE After(t)
      /\ r.clean = me.clean /\ r.cmd = c /\ r.n = n
  BY <1>1, <1>3, <1>7 DEF Tasks, NextIndex
<1>9. task' = [task EXCEPT ![t] = r]
  BY <1>6, <1>7
<1>10. Fetched(me, list)
  BY DEF Fetch
<1>11. ~c.limit => n = 0
  BY <1>3, <1>10 DEF Fetched
<1>12. SUFFICES ASSUME me.clean PROVE Fetched(r, list)
  <2>1. CASE me.clean
    BY <1>1, <1>9, <1>12, <2>1, FetchStep
  <2>2. CASE ~me.clean
    BY <1>1, <1>3, <1>8, <1>9, <2>2, QuietStep
  <2>3. QED
    BY <2>1, <2>2
<1>13. /\ index = total /\ total <= Len(l)
       /\ me.ret = Sift(c, SubSeq(l, 1, total))
       /\ n > 0 => total < n /\ size <= n - total
       /\ ~c.days /\ c.fetch > 0 => size > 0
  BY <1>1, <1>2, <1>3, <1>10, <1>12 DEF Fetched, Fetching
<1>14. PICK m : m = PageEnd(total, size, Len(l))
  OBVIOUS
<1>15. page = SubSeq(l, total + 1, m)
  BY <1>2, <1>4, <1>13, <1>14 DEF Page, PageEnd
<1>16. /\ m \in Nat /\ total <= m /\ m <= Len(l)
       /\ SubSeq(l, 1, total) \in Seq(Nat) /\ SubSeq(l, total + 1, m) \in Seq(Nat)
       /\ Len(SubSeq(l, total + 1, m)) = m - total
       /\ SubSeq(l, 1, total) \o SubSeq(l, total + 1, m) = SubSeq(l, 1, m)
  <2>1. total <= Len(l)
    BY <1>13
  <2>2. Follows(l, total, PageEnd(total, size, Len(l)))
    BY <2>1, PageFollows
  <2>3. Follows(l, total, m)
    BY <1>14, <2>2
  <2>4. QED
    BY <2>3, Zenon DEF Follows
<1>17. Len(page) = m - total /\ total + Len(page) = m
  <2>1. Len(page) = m - total
    BY <1>15, <1>16
  <2>2. total + (m - total) = m
    BY <1>16
  <2>3. QED
    BY <2>1, <2>2
<1>18. r.ret = Sift(c, SubSeq(l, 1, m)) /\ r.total = m /\ r.index = m
  <2>1. Sift(c, SubSeq(l, 1, m)) = Sift(c, SubSeq(l, 1, total)) \o Sift(c, page)
    <3>1. PICK a \in Seq(Nat), b \in Seq(Nat) :
            a = SubSeq(l, 1, total) /\ b = page /\ a \o b = SubSeq(l, 1, m)
      BY <1>15, <1>16
    <3>2. Sift(c, a \o b) = Sift(c, a) \o Sift(c, b)
      BY SiftConcat
    <3>3. QED
      BY <3>1, <3>2
  <2>2. QED
    BY <1>8, <1>13, <1>17, <2>1
<1>19. PICK fetch \in Nat : fetch = c.fetch
  BY KindShape
<1>20. again <=> fetch > 0 /\ m - total = size /\ (n = 0 \/ n > m)
  BY <1>3, <1>5, <1>17, <1>19 DEF Again
<1>21. n > 0 => size > 0
  <2>1. n > 0 => c.limit
    BY <1>11
  <2>2. c.limit => fetch = FETCHSIZE /\ ~c.days
    BY <1>19, KindShape
  <2>3. FETCHSIZE > 0
    BY FetchAssumption
  <2>4. QED
    BY <1>13, <1>19, <2>1, <2>2, <2>3
<1>22. fetch = 0 => size = 0 /\ n = 0
  <2>1. size <= fetch
    BY <1>1, <1>3, <1>19 DEF Sound
  <2>2. fetch = 0 => size = 0
    BY <2>1
  <2>3. QED
    BY <1>21, <2>2
<1>23. CASE again
  <2>1. r.pc = "send" /\ r.size = PageSize(n, m, size)
    BY <1>8, <1>17, <1>23
  <2>2. n = 0 \/ n > m
    BY <1>20, <1>23
  <2>3. /\ n > 0 => m < n /\ PageSize(n, m, size) <= n - m
        /\ size > 0 => PageSize(n, m, size) > 0
    BY <1>16, <2>2, PageGoesOn
  <2>4. Fetching(r, l)
    BY <1>8, <1>13, <1>16, <1>18, <2>1, <2>3 DEF Fetching
  <2>5. QED
    BY <1>2, <1>8, <1>11, <2>1, <2>4 DEF Fetched
<1>24. CASE ~again
  <2>1. r.pc \in {"check", "done"}
    BY <1>8, <1>24 DEF After
  <2>2. PICK len \in Nat : len = Len(l)
    BY LenProperties
  <2>3. m = IF n > 0 /\ n < len THEN n ELSE len
    <3>1. /\ m \in Nat /\ m = PageEnd(total, size, len) /\ total <= len
          /\ n > 0 => total < n /\ size <= n - total
      BY <1>13, <1>14, <1>16, <2>2
    <3>2. ~(fetch > 0 /\ m - total = size /\ (n = 0 \/ n > m))
      BY <1>20, <1>24
    <3>3. LastPage(n, total, size, len, fetch, m)
      BY <1>21, <1>22, <3>1, <3>2, Zenon DEF LastPage
    <3>4. QED
      BY <3>1, <3>3, PageIsLast
  <2>4. SubSeq(l, 1, Len(l)) = l
    BY SubSeqFull
  <2>5. SubSeq(l, 1, m) = Asked(r, l)
    BY <1>8, <2>2, <2>3, <2>4 DEF Asked
  <2>6. r.ret = Sift(r.cmd, Asked(r, l))
    BY <1>8, <1>18, <2>5
  <2>7. QED
    BY <1>2, <1>8, <1>11, <2>1, <2>6 DEF Fetched
<1>25. QED
  BY <1>20, <1>23, <1>24

\* The calls that fetch no list, and the names of hosts.
LEMMA OtherFetches ==
  ASSUME IInv, Fetch, NEW t \in Threads,
         \/ InvalidateService(t) \/ GetOne(t) \/ SendFails(t)
         \/ Resolved(t) \/ SettingLost(t) \/ NextSetting(t) \/ Return(t)
         \/ Call(t) \/ ResolveHostName(t)
  PROVE  Fetch'
<1>1. Calls /\ task[t] \in Tasks(Results)
  BY MeFacts DEF IInv
<1>2. list' = list
  BY DEF InvalidateService, GetOne, SendFails, Resolved, SettingLost, NextSetting, Return,
     Call, ResolveHostName
<1>3. CASE InvalidateService(t)
  <2>1. task[t].pc = "send" /\ task' = Leave(t) /\ 0 \in {0, 1}
    BY <1>3 DEF InvalidateService, OtherVersion, At
  <2>2. task' = [task EXCEPT ![t].pc = After(t), ![t].second = task[t].cmd.more,
                             ![t].phase = "first", ![t].clean = FALSE, ![t].sent = 0]
    BY <1>1, <2>1, LeaveForm
  <2>3. QED
    BY <1>1, <1>2, <2>2, QuietLeave
<1>4. CASE SendFails(t)
  <2>1. PICK did \in {0, 1} : task' = [Leave(t) EXCEPT ![t].sent = @ + did]
    BY <1>4 DEF SendFails
  <2>2. task[t].pc = "send"
    BY <1>4 DEF SendFails, At
  <2>3. task' = [task EXCEPT ![t].pc = After(t), ![t].second = task[t].cmd.more,
                             ![t].phase = "first", ![t].clean = FALSE, ![t].sent = did]
    BY <1>1, <2>1, <2>2, LeaveForm
  <2>4. QED
    BY <1>1, <1>2, <2>3, QuietLeave
<1>5. CASE GetOne(t)
  <2>1. PICK from, k : task' = [task EXCEPT ![t].pc = "done", ![t].phase = "first",
                                            ![t].from = from, ![t].sent = k]
    BY <1>1, <1>5 DEF GetOne, Calls
  <2>2. ~task[t].cmd.check
    BY <1>5 DEF GetOne
  <2>3. PICK r : r = [task[t] EXCEPT !.pc = "done", !.phase = "first", !.from = from,
                                     !.sent = k]
    OBVIOUS
  <2>4. r.cmd = task[t].cmd /\ r.n = task[t].n
    BY <1>1, <2>3 DEF Tasks
  <2>5. task' = [task EXCEPT ![t] = r]
    BY <2>1, <2>3
  <2>6. QED
    BY <1>1, <1>2, <2>2, <2>4, <2>5, QuietStep
<1>6. ASSUME task' = [task EXCEPT ![t] = Idle] PROVE Fetch'
  <2>1. Fetched(Idle, list)
    BY DEF Fetched, Idle
  <2>2. QED
    BY <1>1, <1>2, <1>6, <2>1, FetchStep
<1>7. ASSUME task' = [task EXCEPT ![t].pc = "unresolved", ![t].phase = "first"]
      PROVE  Fetch'
  <2>1. "unresolved" \notin {"send", "done"}
    OBVIOUS
  <2>2. QED
    BY <1>1, <1>2, <1>7, <2>1, QuietPlace, Zenon
<1>8. ASSUME NEW h, task' = [task EXCEPT ![t].pc = "check", ![t].host = h] PROVE Fetch'
  <2>1. PICK r : r = [task[t] EXCEPT !.pc = "check", !.host = h]
    OBVIOUS
  <2>2. r.pc = "check" /\ r.cmd = task[t].cmd /\ r.n = task[t].n
    BY <1>1, <2>1 DEF Tasks
  <2>3. task' = [task EXCEPT ![t] = r]
    BY <1>8, <2>1
  <2>4. QED
    BY <1>1, <1>2, <2>2, <2>3, QuietStep
<1>9. CASE Resolved(t) \/ SettingLost(t) \/ Return(t)
  <2>1. \/ task' = [task EXCEPT ![t] = Idle]
        \/ task' = [task EXCEPT ![t].pc = "unresolved", ![t].phase = "first"]
    BY <1>9 DEF Resolved, SettingLost, Return
  <2>2. QED
    BY <1>6, <1>7, <2>1
<1>10. CASE NextSetting(t)
  <2>1. \/ task' = [task EXCEPT ![t] = Idle]
        \/ \E h : task' = [task EXCEPT ![t].pc = "check", ![t].host = h]
    BY <1>1, <1>10 DEF NextSetting, Calls
  <2>2. QED
    BY <1>6, <1>8, <2>1
<1>11. CASE ResolveHostName(t)
  BY <1>8, <1>11 DEF ResolveHostName
<1>12. CASE Call(t)
  <2>1. task' = [task EXCEPT ![t].pc = "check"]
    BY <1>12 DEF Call
  <2>2. PICK r : r = [task[t] EXCEPT !.pc = "check"]
    OBVIOUS
  <2>3. r.pc = "check" /\ r.cmd = task[t].cmd /\ r.n = task[t].n
    BY <1>1, <2>2 DEF Tasks
  <2>4. task' = [task EXCEPT ![t] = r]
    BY <2>1, <2>2
  <2>5. QED
    BY <1>1, <1>2, <2>3, <2>4, QuietStep
<1>13. QED
  BY <1>3, <1>4, <1>5, <1>9, <1>10, <1>11, <1>12

\* The backend is restarted, or its list changes, which every call remembers.
LEMMA EnvironmentFetches ==
  ASSUME IInv, Fetch, Restart \/ ChangeList
  PROVE  Fetch'
<1>1. CASE Restart
  BY <1>1 DEF Restart, Fetch
<1>2. CASE ChangeList
  <2> SUFFICES ASSUME NEW t \in Threads PROVE Fetched(task'[t], list')
    BY DEF Fetch
  <2>1. task[t] \in Tasks(Results) /\ Fetched(task[t], list)
    BY MeFacts DEF IInv, Fetch
  <2>2. task'[t] = [task[t] EXCEPT !.clean = FALSE]
    BY <1>2 DEF ChangeList
  <2>3. PICK r : r = task'[t] /\ r.clean = FALSE /\ r.cmd = task[t].cmd /\ r.n = task[t].n
    BY <2>1, <2>2 DEF Tasks
  <2>4. ~r.cmd.limit => r.n = 0
    BY <2>1, <2>3 DEF Fetched
  <2>5. PICK l : l = list'
    OBVIOUS
  <2>6. Fetched(r, l)
    BY <2>3, <2>4 DEF Fetched
  <2>7. QED
    BY <2>3, <2>5, <2>6
<1>3. QED
  BY <1>1, <1>2

----------------------------------------------------------------------------
(***************************************************************************)
(* The versions of the client and those of the backend                     *)
(***************************************************************************)
\* The call of t goes on to r.  The mutex, the check and the version change only
\* when no other thread holds the mutex, and the versions become current only
\* when no other thread is calm or asks for them.
LEMMA VersionsStep ==
  ASSUME Calls, Versions, NEW t \in Threads, NEW r, task' = [task EXCEPT ![t] = r],
         server' = server, Known', Versed(t, r)', calm' \subseteq calm \cup {t},
         m_mutex' = m_mutex \/ m_mutex \in {t, NoThread},
         m_checked' => m_checked \/ m_mutex = t,
         m_protocol' = m_protocol \/ m_mutex = t,
         current' => \/ current
                     \/ /\ calm' \subseteq {t}
                        /\ \A u \in Threads \ {t} : task[u].pc \notin Asking
  PROVE  Versions'
<1>1. task'[t] = r /\ \A u \in Threads \ {t} : task'[u] = task[u]
  BY DEF Calls
<1>2. ASSUME NEW u \in Threads \ {t}, NEW x, x = task[u]
      PROVE  Versed(u, x)'
  <2>1. Versed(u, x) /\ u # NoThread /\ u # t
    BY <1>2, WSAPIAssumption DEF Versions
  <2>2. Holds(x) => m_mutex' = u /\ m_mutex # t
    BY <2>1 DEF Versed
  <2>3. x.pc \in Asking => Holds(x)
    BY DEF Holds
  <2>4. x.pc \in Asking => ~m_checked'
    BY <2>1, <2>2, <2>3 DEF Versed
  <2>5. current' /\ x.pc = "services" => m_protocol' = Protocol[server]
    <3>1. x.pc = "services" => x.pc \in Asking
      BY DEF Asking
    <3>2. x.pc \in Asking /\ current' => current
      BY <1>2
    <3>3. QED
      BY <2>1, <2>2, <2>3, <3>1, <3>2 DEF Versed
  <2>6. current' /\ u \in calm' => current /\ u \in calm
    BY <2>1
  <2>7. QED
    BY <2>1, <2>2, <2>4, <2>5, <2>6 DEF Versed
<1>3. ASSUME NEW u \in Threads PROVE Versed(u, task[u])'
  <2>1. PICK x : x = task'[u]
    OBVIOUS
  <2>2. Versed(u, x)'
    BY <1>1, <1>2, <2>1
  <2>3. QED
    BY <2>1, <2>2 DEF Versed, Holds
<1>4. QED
  BY <1>3 DEF Versions

\* A step of t that changes nothing of the versions and binds nothing.
LEMMA QuietVersions ==
  ASSUME Calls, Versions, NEW t \in Threads, NEW r, task' = [task EXCEPT ![t] = r],
         UNCHANGED <<m_mutex, m_checked, m_protocol, server, current, calm>>,
         Holds(r) => Holds(task[t]),
         r.pc \in Asking => task[t].pc \in Asking,
         r.pc = "services" => task[t].pc = "services",
         r.pc = "send" => task[t].pc = "send",
         r.cmd = task[t].cmd, r.proto = task[t].proto, r.from = task[t].from
  PROVE  Versions'
<1>1. Known'
  BY DEF Versions, Known
<1>2. Versed(t, r)'
  BY DEF Versions, Versed, Holds
<1>3. QED
  BY <1>1, <1>2, VersionsStep

\* The call of t ends; when it gives the mutex up it had it.
LEMMA IdleVersions ==
  ASSUME Calls, Versions, NEW t \in Threads, task' = [task EXCEPT ![t] = Idle],
         UNCHANGED <<m_checked, m_protocol, server, current, calm>>,
         m_mutex' = m_mutex \/ (m_mutex = t /\ m_mutex' = NoThread)
  PROVE  Versions'
<1>1. Known'
  BY DEF Versions, Known
<1>2. Idle.pc = "idle" /\ Idle.host = 0 /\ ~Idle.cmd.bind
  BY DEF Idle, Value
<1>3. ~Holds(Idle) /\ Idle.pc \notin Asking
  BY <1>2 DEF Holds, Asking
<1>4. Versed(t, Idle)'
  <2>1. PICK r : r = Idle
    OBVIOUS
  <2>2. Versed(t, r)'
    BY <1>2, <1>3, <2>1 DEF Versed, Holds
  <2>3. QED
    BY <2>1, <2>2
<1>5. QED
  BY <1>1, <1>4, VersionsStep

\* A variant is picked with the versions known, or none is after InitWSAPI failed.
LEMMA DispatchVersions ==
  ASSUME Calls, Versions, NEW t \in Threads, NEW wsv, task[t].pc \in Before,
         Dispatch(t, wsv), UNCHANGED <<m_protocol, server, current>>,
         m_mutex' = m_mutex \/ (m_mutex = t /\ Unlock(t)),
         m_checked' = m_checked \/ m_mutex = t,
         m_checked => m_checked',
         wsv # NoService => m_checked',
         current /\ m_checked' => m_protocol = Protocol[server]
  PROVE  Versions'
<1> DEFINE me == task[t]
<1>1. me \in Tasks(Results) /\ Sound(me)
  BY MeFacts
<1>2. me.pc # "done"
  BY DEF Before
<1>3. me.from \subseteq {me.proto}
  BY <1>1, <1>2 DEF Sound
<1>4. Known'
  BY DEF Versions, Known, Dispatch
<1>5. PICK r : /\ task' = [task EXCEPT ![t] = r]
               /\ r.proto = me.proto /\ r.from = me.from /\ r.host = me.host
               /\ r.pc \in {"unresolved", "done", "bind"}
               /\ r.pc = "unresolved" => me.host > 0
  <2>1. CASE task' = [task EXCEPT ![t].pc = IF task[t].host > 0 THEN "unresolved" ELSE "done",
                                  ![t].left = <<>>, ![t].phase = "first", ![t].clean = FALSE]
    <3>1. PICK p : p = (IF task[t].host > 0 THEN "unresolved" ELSE "done")
      OBVIOUS
    <3>2. PICK r : r = [task[t] EXCEPT !.pc = p, !.left = <<>>, !.phase = "first",
                                       !.clean = FALSE]
      OBVIOUS
    <3>3. r.proto = me.proto /\ r.from = me.from /\ r.host = me.host /\ r.pc = p
      BY <1>1, <3>2 DEF Tasks
    <3>4. task' = [task EXCEPT ![t] = r]
      BY <2>1, <3>1, <3>2
    <3>5. QED
      BY <3>1, <3>3, <3>4
  <2>2. ASSUME NEW c, NEW n,
               task' = [task EXCEPT ![t].pc = "bind", ![t].cmd = c, ![t].n = n,
                                    ![t].left = <<>>, ![t].phase = "first"]
        PROVE  \E r : /\ task' = [task EXCEPT ![t] = r]
                      /\ r.proto = me.proto /\ r.from = me.from /\ r.host = me.host
                      /\ r.pc \in {"unresolved", "done", "bind"}
                      /\ r.pc = "unresolved" => me.host > 0
    <3>1. PICK r : r = [task[t] EXCEPT !.pc = "bind", !.cmd = c, !.n = n,
                                       !.left = <<>>, !.phase = "first"]
      OBVIOUS
    <3>2. r.proto = me.proto /\ r.from = me.from /\ r.host = me.host /\ r.pc = "bind"
      BY <1>1, <3>1 DEF Tasks
    <3>3. task' = [task EXCEPT ![t] = r]
      BY <2>2, <3>1
    <3>4. QED
      BY <3>2, <3>3
  <2>3. QED
    BY <2>1, <2>2 DEF Dispatch
<1>6. r.pc \notin Asking /\ r.pc \notin {"services", "send"}
  BY <1>5 DEF Asking
<1>7. Holds(r) => m_mutex' = t
  <2>1. Holds(r) => me.host > 0
    BY <1>5, <1>6 DEF Holds
  <2>2. me.host > 0 => m_mutex = t
    BY DEF Versions, Versed, Holds
  <2>3. QED
    BY <2>1, <2>2 DEF Unlock
<1>8. Versed(t, r)'
  BY <1>3, <1>5, <1>6, <1>7 DEF Versed, Holds
<1>9. calm' \subseteq calm \cup {t}
  BY DEF Dispatch
<1>10. /\ m_mutex' = m_mutex \/ m_mutex \in {t, NoThread}
       /\ m_checked' => m_checked \/ m_mutex = t
       /\ m_protocol' = m_protocol \/ m_mutex = t
       /\ server' = server
       /\ current' => \/ current
                      \/ /\ calm' \subseteq {t}
                         /\ \A u \in Threads \ {t} : task[u].pc \notin Asking
  OBVIOUS
<1>11. task' = [task EXCEPT ![t] = r]
  BY <1>5
<1>12. QED
  BY <1>4, <1>8, <1>9, <1>10, <1>11, VersionsStep, Zenon

LEMMA CheckServiceVersions ==
  ASSUME IInv, Versions, NEW t \in Threads, CheckService(t)
  PROVE  Versions'
<1>1. Calls /\ task[t] \in Tasks(Results) /\ m_checked \in BOOLEAN
  BY MeFacts DEF IInv, Api
<1>2. /\ task[t].pc = "check" /\ m_mutex \in {NoThread, t}
      /\ UNCHANGED <<m_checked, m_protocol, server>> /\ current' = (current \/ ~m_checked)
  BY DEF CheckService, At
<1>3. CASE m_checked
  <2>1. Dispatch(t, m_serviceVersion) /\ UNCHANGED m_mutex
    BY <1>3 DEF CheckService
  <2>2. current' = current
    BY <1>2, <1>3 DEF Versions, Known
  <2>3. current /\ m_checked => m_protocol = Protocol[server]
    BY DEF Versions, Known
  <2>4. task[t].pc \in Before
    BY <1>2 DEF Before
  <2>5. QED
    BY <1>1, <1>2, <1>3, <2>1, <2>2, <2>3, <2>4, DispatchVersions
<1>4. CASE ~m_checked
  <2>1. m_mutex' = t /\ task' = [task EXCEPT ![t].pc = "version"] /\ calm' = calm
    BY <1>4 DEF CheckService
  <2>2. calm = {}
    BY <1>4 DEF Versions, Known
  <2>3. PICK r : r = [task[t] EXCEPT !.pc = "version"]
    OBVIOUS
  <2>4. r.pc = "version" /\ task' = [task EXCEPT ![t] = r]
    BY <1>1, <2>1, <2>3 DEF Tasks
  <2>5. Known'
    BY <1>2, <1>4, <2>1, <2>2 DEF Known, Versions
  <2>6. Versed(t, r)'
    BY <1>2, <1>4, <2>1, <2>2, <2>4 DEF Versed, Holds
  <2>7. \A u \in Threads \ {t} : task[u].pc \notin Asking
    BY <1>2, WSAPIAssumption DEF Versions, Versed, Holds
  <2>8. QED
    BY <1>1, <1>2, <2>1, <2>2, <2>4, <2>5, <2>6, <2>7, VersionsStep
<1>5. QED
  BY <1>3, <1>4

LEMMA InitFailedVersions ==
  ASSUME Calls, Versions, NEW t \in Threads, task[t].pc \in Asking, InitFailed(t),
         UNCHANGED <<m_protocol, server, current>>
  PROVE  Versions'
<1>1. ~m_checked /\ m_mutex = t
  BY DEF Versions, Versed, Holds
<1>2. task[t].pc \in Before
  BY DEF Asking, Before
<1>3. m_checked' = FALSE /\ Unlock(t) /\ Dispatch(t, NoService)
  BY DEF InitFailed
<1>4. QED
  BY <1>1, <1>2, <1>3, DispatchVersions

LEMMA InitWSAPIVersions ==
  ASSUME IInv, Versions, NEW t \in Threads, InitWSAPI(t)
  PROVE  Versions'
<1>1. Calls /\ task[t] \in Tasks(Results)
  BY MeFacts DEF IInv
<1>2. task[t].pc \in Asking
  BY DEF InitWSAPI, GetMythVersion, CheckServerHostName2_0, CheckVersion2_0,
     GetServiceVersion, At, Asking
<1>3. ~m_checked /\ m_mutex = t
  BY <1>2 DEF Versions, Versed, Holds
<1>4. CASE GetMythVersion(t)
  <2>1. task[t].pc = "version" /\ UNCHANGED <<m_protocol, server, current>>
    BY <1>4 DEF GetMythVersion, At
  <2>2. CASE Supported(server)
    <3>1. /\ task' = [task EXCEPT ![t].pc = "host", ![t].phase = "first"]
          /\ UNCHANGED <<m_mutex, m_checked, calm>>
      BY <1>4, <2>2 DEF GetMythVersion
    <3>2. PICK r : r = [task[t] EXCEPT !.pc = "host", !.phase = "first"]
      OBVIOUS
    <3>3. /\ r.pc = "host" /\ r.cmd = task[t].cmd /\ r.proto = task[t].proto
          /\ r.from = task[t].from
      BY <1>1, <3>2 DEF Tasks
    <3>4. task' = [task EXCEPT ![t] = r]
      BY <3>1, <3>2
    <3>5. Holds(task[t])
      BY <1>2 DEF Holds
    <3>6. QED
      BY <1>1, <1>2, <2>1, <3>1, <3>3, <3>4, <3>5, QuietVersions
  <2>3. CASE ~Supported(server)
    BY <1>1, <1>2, <1>4, <2>1, <2>3, InitFailedVersions DEF GetMythVersion
  <2>4. QED
    BY <2>2, <2>3
<1>5. CASE CheckServerHostName2_0(t)
  <2>1. /\ task' = [task EXCEPT ![t].pc = "connection", ![t].phase = "first"]
        /\ UNCHANGED <<m_mutex, m_checked, server, current, calm>>
    BY <1>5 DEF CheckServerHostName2_0, history
  <2>2. PICK r : r = [task[t] EXCEPT !.pc = "connection", !.phase = "first"]
    OBVIOUS
  <2>3. /\ r.pc = "connection" /\ r.cmd = task[t].cmd /\ r.proto = task[t].proto
        /\ r.from = task[t].from
    BY <1>1, <2>2 DEF Tasks
  <2>4. task' = [task EXCEPT ![t] = r]
    BY <2>1, <2>2
  <2>5. Known'
    BY <1>3, <2>1 DEF Versions, Known
  <2>6. Versed(t, r)'
    BY <1>3, <2>1, <2>3 DEF Versions, Versed
  <2>7. QED
    BY <1>1, <1>3, <2>1, <2>4, <2>5, <2>6, VersionsStep
<1>6. CASE CheckVersion2_0(t)
  <2>1. PICK x : task' = [task EXCEPT ![t].pc = "services", ![t].phase = "first",
                                      ![t].left = x]
    BY <1>6 DEF CheckVersion2_0
  <2>2. m_protocol' = Protocol[server] /\ UNCHANGED <<m_mutex, m_checked, server, current, calm>>
    BY <1>6 DEF CheckVersion2_0, history
  <2>3. PICK r : r = [task[t] EXCEPT !.pc = "services", !.phase = "first", !.left = x]
    OBVIOUS
  <2>4. /\ r.pc = "services" /\ r.cmd = task[t].cmd /\ r.proto = task[t].proto
        /\ r.from = task[t].from
    BY <1>1, <2>3 DEF Tasks
  <2>5. task' = [task EXCEPT ![t] = r]
    BY <2>1, <2>3
  <2>6. Known'
    BY <1>3, <2>2 DEF Versions, Known
  <2>7. Versed(t, r)'
    BY <1>3, <2>2, <2>4 DEF Versions, Versed
  <2>8. QED
    BY <1>1, <1>3, <2>2, <2>5, <2>6, <2>7, VersionsStep
<1>7. CASE GetServiceVersion(t)
  <2>1. task[t].pc = "services" /\ UNCHANGED <<m_protocol, server, current>>
    BY <1>7 DEF GetServiceVersion, At
  <2>2. CASE Len(task[t].left) > 1
    <3>1. PICK x : task' = [task EXCEPT ![t].left = x, ![t].phase = "first"]
      BY <1>1, <1>7, <2>2 DEF GetServiceVersion, Calls
    <3>2. UNCHANGED <<m_mutex, m_checked, calm>>
      BY <1>7, <2>2 DEF GetServiceVersion
    <3>3. PICK r : r = [task[t] EXCEPT !.left = x, !.phase = "first"]
      OBVIOUS
    <3>4. /\ r.pc = task[t].pc /\ r.cmd = task[t].cmd /\ r.proto = task[t].proto
          /\ r.from = task[t].from
      BY <1>1, <3>3 DEF Tasks
    <3>5. task' = [task EXCEPT ![t] = r]
      BY <3>1, <3>3
    <3>6. Holds(task[t])
      BY <1>2 DEF Holds
    <3>7. QED
      BY <1>1, <2>1, <3>2, <3>4, <3>5, <3>6, QuietVersions
  <2>3. CASE ~(Len(task[t].left) > 1)
    <3>1. PICK wsv : m_checked' = TRUE /\ Unlock(t) /\ Dispatch(t, wsv)
      BY <1>7, <2>3 DEF GetServiceVersion
    <3>2. current => m_protocol = Protocol[server]
      BY <2>1 DEF Versions, Versed
    <3>3. task[t].pc \in Before
      BY <2>1 DEF Before
    <3>4. QED
      BY <1>1, <1>3, <2>1, <3>1, <3>2, <3>3, DispatchVersions
  <2>4. QED
    BY <2>2, <2>3
<1>8. CASE InitFailed(t) /\ UNCHANGED <<m_protocol, server, current>>
  BY <1>1, <1>2, <1>8, InitFailedVersions
<1>9. QED
  BY <1>4, <1>5, <1>6, <1>7, <1>8 DEF InitWSAPI

\* The version is read when the service was checked: it is that of the backend
\* unless there was a restart or an alarm in between.
LEMMA BindVersions ==
  ASSUME IInv, Versions, NEW t \in Threads, Bind(t)
  PROVE  Versions'
<1> DEFINE me == task[t]
           v == IF me.cmd.bind THEN m_protocol ELSE 0
<1>1. Calls /\ me \in Tasks(Results)
  BY MeFacts DEF IInv
<1>2. UNCHANGED <<m_mutex, m_checked, m_protocol, server, current, calm>>
  BY DEF Bind, api, history
<1>3. PICK size :
        task' = [task EXCEPT ![t].pc = "send", ![t].index = 0, ![t].total = 0,
                             ![t].ret = <<>>, ![t].from = {}, ![t].proto = v,
                             ![t].size = size]
  BY DEF Bind
<1>4. PICK r : r = [me EXCEPT !.pc = "send", !.index = 0, !.total = 0, !.ret = <<>>,
                              !.from = {}, !.proto = v, !.size = size]
  OBVIOUS
<1>5. r.pc = "send" /\ r.from = {} /\ r.proto = v /\ r.cmd = me.cmd /\ r.host = me.host
  BY <1>1, <1>4 DEF Tasks
<1>6. task' = [task EXCEPT ![t] = r]
  BY <1>3, <1>4
<1>7. Known'
  BY <1>2 DEF Versions, Known
<1>8. Versed(t, r)'
  <2>1. Holds(r) => m_mutex = t
    BY <1>5 DEF Versions, Versed, Holds, Asking
  <2>2. current /\ t \in calm => m_protocol = Protocol[server]
    BY DEF Versions, Known
  <2>3. r.pc \notin Asking
    BY <1>5 DEF Asking
  <2>4. r.cmd.bind => r.proto = m_protocol
    BY <1>5
  <2>5. QED
    BY <1>2, <1>5, <2>1, <2>2, <2>3, <2>4 DEF Versed, Holds
<1>9. QED
  BY <1>1, <1>2, <1>6, <1>7, <1>8, VersionsStep

\* A request that ends early leaves what was received alone.
LEMMA LeaveVersions ==
  ASSUME Calls, Versions, NEW t \in Threads, task[t].pc = "send", NEW did,
         task' = [task EXCEPT ![t].pc = After(t), ![t].second = task[t].cmd.more,
                              ![t].phase = "first", ![t].clean = FALSE, ![t].sent = did]
  PROVE  \E r : /\ task' = [task EXCEPT ![t] = r]
                /\ Holds(r) => Holds(task[t])
                /\ r.pc \notin Asking /\ r.pc \notin {"services", "send"}
                /\ r.cmd = task[t].cmd /\ r.proto = task[t].proto /\ r.from = task[t].from
<1>1. task[t] \in Tasks(Results)
  BY MeFacts
<1>2. PICK r : r = [task[t] EXCEPT !.pc = After(t), !.second = task[t].cmd.more,
                                   !.phase = "first", !.clean = FALSE, !.sent = did]
  OBVIOUS
<1>3. /\ r.pc = After(t) /\ r.cmd = task[t].cmd /\ r.proto = task[t].proto
      /\ r.from = task[t].from /\ r.host = task[t].host
  BY <1>1, <1>2 DEF Tasks
<1>4. task' = [task EXCEPT ![t] = r]
  BY <1>2
<1>5. r.pc \notin Asking /\ r.pc \notin {"services", "send", "unresolved"}
  BY <1>3 DEF After, Asking
<1>6. Holds(r) => Holds(task[t])
  BY <1>3, <1>5 DEF Holds
<1>7. QED
  BY <1>3, <1>4, <1>5, <1>6

\* The alarm: from now on the versions are current, unless another thread is
\* asking for them.
LEMMA InvalidateServiceVersions ==
  ASSUME IInv, Versions, NEW t \in Threads, InvalidateService(t)
  PROVE  Versions'
<1>1. Calls /\ 0 \in {0, 1}
  BY DEF IInv
<1>2. /\ task[t].pc = "send" /\ m_checked' = FALSE /\ task' = Leave(t) /\ calm' = {}
      /\ current' = (current \/ ~Initializing) /\ UNCHANGED <<m_mutex, m_protocol, server>>
  BY DEF InvalidateService, OtherVersion, At
<1>3. task' = [task EXCEPT ![t].pc = After(t), ![t].second = task[t].cmd.more,
                           ![t].phase = "first", ![t].clean = FALSE, ![t].sent = 0]
  BY <1>1, <1>2, LeaveForm
<1>4. PICK r : /\ task' = [task EXCEPT ![t] = r]
               /\ Holds(r) => Holds(task[t])
               /\ r.pc \notin Asking /\ r.pc \notin {"services", "send"}
               /\ r.cmd = task[t].cmd /\ r.proto = task[t].proto /\ r.from = task[t].from
  BY <1>1, <1>2, <1>3, LeaveVersions
<1>5. Known'
  BY <1>2 DEF Known
<1>6. Versed(t, r)'
  BY <1>2, <1>4 DEF Versions, Versed, Holds
<1>7. ~Initializing => \A u \in Threads \ {t} : task[u].pc \notin Asking
  BY DEF Initializing, Asking
<1>8. QED
  BY <1>1, <1>2, <1>4, <1>5, <1>6, <1>7, VersionsStep

LEMMA SendFailsVersions ==
  ASSUME IInv, Versions, NEW t \in Threads, SendFails(t)
  PROVE  Versions'
<1>1. Calls
  BY DEF IInv
<1>2. /\ task[t].pc = "send"
      /\ UNCHANGED <<m_mutex, m_checked, m_protocol, server, current, calm>>
  BY DEF SendFails, At, api, history
<1>3. PICK did \in {0, 1} : task' = [Leave(t) EXCEPT ![t].sent = @ + did]
  BY DEF SendFails
<1>4. task' = [task EXCEPT ![t].pc = After(t), ![t].second = task[t].cmd.more,
                           ![t].phase = "first", ![t].clean = FALSE, ![t].sent = did]
  BY <1>1, <1>2, <1>3, LeaveForm
<1>5. PICK r : /\ task' = [task EXCEPT ![t] = r]
               /\ Holds(r) => Holds(task[t])
               /\ r.pc \notin Asking /\ r.pc \notin {"services", "send"}
               /\ r.cmd = task[t].cmd /\ r.proto = task[t].proto /\ r.from = task[t].from
  BY <1>1, <1>2, <1>4, LeaveVersions
<1>6. QED
  BY <1>1, <1>2, <1>5, QuietVersions

\* A page is received: its version was looked at.
LEMMA GetListVersions ==
  ASSUME IInv, Versions, NEW t \in Threads, GetList(t)
  PROVE  Versions'
<1> DEFINE me == task[t]
<1>1. Calls /\ me \in Tasks(Results) /\ Sound(me)
  BY MeFacts DEF IInv
<1>2. /\ me.pc = "send" /\ me.cmd.check /\ SameVersion(t)
      /\ UNCHANGED <<m_mutex, m_checked, m_protocol, server, current, calm>>
  BY DEF GetList, At, api, history
<1>3. me.from \subseteq {me.proto} /\ Protocol[server] = me.proto
  BY <1>1, <1>2 DEF Sound, SameVersion
<1>4. PICK res, total, index, size, p, second :
        /\ task' = [task EXCEPT ![t].ret = res, ![t].total = total, ![t].index = index,
                                ![t].size = size,
                                ![t].from = me.from \cup {Protocol[server]}, ![t].pc = p,
                                ![t].second = second, ![t].phase = "first"]
        /\ p \in {"send", "check", "done"}
  <2> DEFINE page == Page(me.index, me.size)
             kept == Sift(me.cmd, page)
             again == Again(me, Len(page), me.total + Len(page))
  <2>1. task' = [task EXCEPT ![t].ret = me.ret \o kept, ![t].total = me.total + Len(page),
                             ![t].index = NextIndex(me, page, kept),
                             ![t].size = IF again
                                         THEN PageSize(me.n, me.total + Len(page), me.size)
                                         ELSE me.size,
                             ![t].from = me.from \cup {Protocol[server]},
                             ![t].pc = IF again THEN "send" ELSE After(t),
                             ![t].second = IF again THEN me.second ELSE me.cmd.more,
                             ![t].phase = "first"]
    BY <1>1 DEF GetList, Calls
  <2>2. (IF again THEN "send" ELSE After(t)) \in {"send", "check", "done"}
    BY DEF After
  <2> HIDE DEF again, kept, page
  <2>3. QED
    BY <2>1, <2>2, Zenon
<1>5. PICK r : r = [me EXCEPT !.ret = res, !.total = total, !.index = index, !.size = size,
                              !.from = me.from \cup {Protocol[server]}, !.pc = p,
                              !.second = second, !.phase = "first"]
  OBVIOUS
<1>6. /\ r.pc = p /\ r.from = me.from \cup {Protocol[server]} /\ r.cmd = me.cmd
      /\ r.proto = me.proto /\ r.host = me.host
  BY <1>1, <1>5 DEF Tasks
<1>7. task' = [task EXCEPT ![t] = r]
  BY <1>4, <1>5
<1>8. Known'
  BY <1>2 DEF Versions, Known
<1>9. Versed(t, r)'
  <2>1. r.pc \notin Asking \cup {"services", "unresolved"}
    BY <1>4, <1>6 DEF Asking
  <2>2. Holds(r) => m_mutex = t
    BY <1>6, <2>1 DEF Versions, Versed, Holds
  <2>3. r.from \subseteq {r.proto} /\ r.proto = Protocol[server]
    BY <1>3, <1>6
  <2>4. QED
    BY <1>2, <2>1, <2>2, <2>3 DEF Versed, Holds
<1>10. QED
  BY <1>1, <1>2, <1>7, <1>8, <1>9, VersionsStep

\* One answer is received: nobody looks at its version.
LEMMA GetOneVersions ==
  ASSUME IInv, Versions, NEW t \in Threads, GetOne(t)
  PROVE  Versions'
<1> DEFINE me == task[t]
<1>1. Calls /\ me \in Tasks(Results)
  BY MeFacts DEF IInv
<1>2. /\ me.pc = "send"
      /\ UNCHANGED <<m_mutex, m_checked, m_protocol, server, current, calm>>
  BY DEF GetOne, At, api, history
<1>3. PICK k : task' = [task EXCEPT ![t].pc = "done", ![t].phase = "first",
                                    ![t].from = me.from \cup {Protocol[server]},
                                    ![t].sent = k]
  BY <1>1 DEF GetOne, Calls
<1>4. PICK r : r = [me EXCEPT !.pc = "done", !.phase = "first",
                              !.from = me.from \cup {Protocol[server]}, !.sent = k]
  OBVIOUS
<1>5. /\ r.pc = "done" /\ r.from = me.from \cup {Protocol[server]} /\ r.cmd = me.cmd
      /\ r.proto = me.proto /\ r.host = me.host
  BY <1>1, <1>4 DEF Tasks
<1>6. task' = [task EXCEPT ![t] = r]
  BY <1>3, <1>4
<1>7. Known'
  BY <1>2 DEF Versions, Known
<1>8. Versed(t, r)'
  <2>1. r.pc \notin Asking \cup {"services", "unresolved", "send"}
    BY <1>5 DEF Asking
  <2>2. Holds(r) => m_mutex = t
    BY <1>5, <2>1 DEF Versions, Versed, Holds
  <2>3. current /\ t \in calm /\ r.cmd.bind => r.from \subseteq {r.proto}
    BY <1>2, <1>5 DEF Versions, Versed
  <2>4. QED
    BY <1>2, <2>1, <2>2, <2>3 DEF Versed, Holds
<1>9. QED
  BY <1>1, <1>2, <1>6, <1>7, <1>8, VersionsStep

LEMMA ExecuteVersions ==
  ASSUME IInv, Versions, NEW t \in Threads, Unauthorized(t) \/ LoginUser(t)
  PROVE  Versions'
<1>1. Calls /\ task[t] \in Tasks(Results)
  BY MeFacts DEF IInv
<1>2. PICK f : task' = [task EXCEPT ![t].phase = f]
  BY DEF Unauthorized, LoginUser
<1>3. UNCHANGED <<m_mutex, m_checked, m_protocol, server, current, calm>>
  BY DEF Unauthorized, LoginUser, api, history
<1>4. PICK r : r = [task[t] EXCEPT !.phase = f]
  OBVIOUS
<1>5. /\ r.pc = task[t].pc /\ r.cmd = task[t].cmd /\ r.proto = task[t].proto
      /\ r.from = task[t].from /\ r.host = task[t].host
  BY <1>1, <1>4 DEF Tasks
<1>6. Holds(r) => Holds(task[t])
  BY <1>5 DEF Holds
<1>7. task' = [task EXCEPT ![t] = r]
  BY <1>2, <1>4
<1>8. QED
  BY <1>1, <1>3, <1>5, <1>6, <1>7, QuietVersions

\* The host name and the calls: the mutex is given up by the thread that has it.
LEMMA HostVersions ==
  ASSUME IInv, Versions, NEW t \in Threads,
         \/ Resolved(t) \/ SettingLost(t) \/ NextSetting(t) \/ Return(t)
         \/ Call(t) \/ ResolveHostName(t)
  PROVE  Versions'
<1>1. Calls /\ task[t] \in Tasks(Results)
  BY MeFacts DEF IInv
<1>2. UNCHANGED <<m_checked, m_protocol, server, current, calm>>
  BY DEF Resolved, SettingLost, NextSetting, Return, Call, ResolveHostName, api, history
<1>3. ASSUME task' = [task EXCEPT ![t] = Idle],
             m_mutex' = m_mutex \/ (Holds(task[t]) /\ m_mutex' = NoThread)
      PROVE  Versions'
  <2>1. Holds(task[t]) => m_mutex = t
    BY DEF Versions, Versed
  <2>2. QED
    BY <1>1, <1>2, <1>3, <2>1, IdleVersions
<1>4. ASSUME task' = [task EXCEPT ![t].pc = "unresolved", ![t].phase = "first"],
             task[t].host > 0, m_mutex' = m_mutex
      PROVE  Versions'
  <2>1. PICK r : r = [task[t] EXCEPT !.pc = "unresolved", !.phase = "first"]
    OBVIOUS
  <2>2. /\ r.pc = "unresolved" /\ r.cmd = task[t].cmd /\ r.proto = task[t].proto
        /\ r.from = task[t].from
    BY <1>1, <2>1 DEF Tasks
  <2>3. task' = [task EXCEPT ![t] = r] /\ Holds(task[t]) /\ r.pc \notin Asking
    BY <1>4, <2>1, <2>2 DEF Holds, Asking
  <2>4. QED
    BY <1>1, <1>2, <1>4, <2>2, <2>3, QuietVersions
<1>5. ASSUME NEW h, task' = [task EXCEPT ![t].pc = "check", ![t].host = h],
             m_mutex' = t, m_mutex \in {t, NoThread}
      PROVE  Versions'
  <2>1. PICK r : r = [task[t] EXCEPT !.pc = "check", !.host = h]
    OBVIOUS
  <2>2. /\ r.pc = "check" /\ r.cmd = task[t].cmd /\ r.proto = task[t].proto
        /\ r.from = task[t].from
    BY <1>1, <2>1 DEF Tasks
  <2>3. task' = [task EXCEPT ![t] = r] /\ r.pc \notin Asking
    BY <1>5, <2>1, <2>2 DEF Asking
  <2>4. Known'
    BY <1>2 DEF Versions, Known
  <2>5. Versed(t, r)'
    BY <1>2, <1>5, <2>2, <2>3 DEF Versions, Versed, Holds
  <2>6. QED
    BY <1>1, <1>2, <1>5, <2>3, <2>4, <2>5, VersionsStep
<1>6. CASE Resolved(t)
  <2>1. task[t].host > 0
    BY <1>6 DEF Resolved
  <2>2. Holds(task[t])
    BY <2>1 DEF Holds
  <2>3. \/ task' = [task EXCEPT ![t] = Idle] /\ m_mutex' = NoThread
        \/ /\ task' = [task EXCEPT ![t].pc = "unresolved", ![t].phase = "first"]
           /\ m_mutex' = m_mutex
    BY <1>6 DEF Resolved
  <2>4. QED
    BY <1>3, <1>4, <2>1, <2>2, <2>3
<1>7. CASE SettingLost(t)
  <2>1. /\ task' = [task EXCEPT ![t].pc = "unresolved", ![t].phase = "first"]
        /\ m_mutex' = m_mutex /\ task[t].host > 0
    BY <1>7 DEF SettingLost, api
  <2>2. QED
    BY <1>4, <2>1
<1>8. CASE NextSetting(t)
  <2>1. Holds(task[t])
    BY <1>8 DEF NextSetting, At, Holds
  <2>2. m_mutex = t
    BY <2>1 DEF Versions, Versed
  <2>3. \/ task' = [task EXCEPT ![t] = Idle] /\ m_mutex' = NoThread
        \/ \E h : task' = [task EXCEPT ![t].pc = "check", ![t].host = h] /\ m_mutex' = m_mutex
    BY <1>1, <1>8 DEF NextSetting, Calls
  <2>4. QED
    BY <1>3, <1>5, <2>1, <2>2, <2>3
<1>9. CASE ResolveHostName(t)
  <2>1. /\ task' = [task EXCEPT ![t].pc = "check", ![t].host = 2]
        /\ m_mutex' = t /\ m_mutex = NoThread
    BY <1>9 DEF ResolveHostName
  <2>2. QED
    BY <1>5, <2>1
<1>10. CASE Return(t)
  <2>1. task' = [task EXCEPT ![t] = Idle] /\ m_mutex' = m_mutex
    BY <1>10 DEF Return, api
  <2>2. QED
    BY <1>3, <2>1
<1>11. CASE Call(t)
  <2>1. task' = [task EXCEPT ![t].pc = "check"] /\ m_mutex' = m_mutex /\ task[t].pc = "idle"
    BY <1>11 DEF Call, api, At
  <2>2. PICK r : r = [task[t] EXCEPT !.pc = "check"]
    OBVIOUS
  <2>3. /\ r.pc = "check" /\ r.cmd = task[t].cmd /\ r.proto = task[t].proto
        /\ r.from = task[t].from /\ r.host = task[t].host
    BY <1>1, <2>2 DEF Tasks
  <2>4. task' = [task EXCEPT ![t] = r] /\ r.pc \notin Asking
    BY <2>1, <2>2, <2>3 DEF Asking
  <2>5. Holds(r) => Holds(task[t])
    BY <2>3, <2>4 DEF Holds
  <2>6. QED
    BY <1>1, <1>2, <2>1, <2>3, <2>4, <2>5, QuietVersions
<1>12. QED
  BY <1>6, <1>7, <1>8, <1>9, <1>10, <1>11

\* After a restart nothing is said of the versions until they are current again.
LEMMA EnvironmentVersions ==
  ASSUME IInv, Versions, Restart \/ ChangeList
  PROVE  Versions'
<1>1. CASE Restart
  <2>1. /\ current' = FALSE /\ calm' = {} /\ UNCHANGED <<m_mutex, m_checked, task>>
    BY <1>1 DEF Restart, api
  <2>2. Known'
    BY <2>1 DEF Known
  <2>3. ASSUME NEW u \in Threads PROVE Versed(u, task[u])'
    <3>1. Versed(u, task[u]) /\ task'[u] = task[u]
      BY <2>1 DEF Versions
    <3>2. QED
      BY <2>1, <3>1 DEF Versed, Holds
  <2>4. QED
    BY <2>2, <2>3 DEF Versions
<1>2. CASE ChangeList
  <2>1. UNCHANGED <<m_mutex, m_checked, m_protocol, server, current, calm>>
    BY <1>2 DEF ChangeList, api, history
  <2>2. Known'
    BY <2>1 DEF Versions, Known
  <2>3. ASSUME NEW u \in Threads PROVE Versed(u, task[u])'
    <3>1. task[u] \in Tasks(Results) /\ Versed(u, task[u])
      BY MeFacts DEF IInv, Versions
    <3>2. task'[u] = [task[u] EXCEPT !.clean = FALSE]
      BY <1>2 DEF ChangeList
    <3>3. PICK r : /\ r = task'[u] /\ r.pc = task[u].pc /\ r.cmd = task[u].cmd
                   /\ r.proto = task[u].proto /\ r.from = task[u].from
                   /\ r.host = task[u].host
      BY <3>1, <3>2 DEF Tasks
    <3>4. QED
      BY <2>1, <3>1, <3>3 DEF Versed, Holds
  <2>4. QED
    BY <2>2, <2>3 DEF Versions
<1>3. QED
  BY <1>1, <1>2

----------------------------------------------------------------------------
(***************************************************************************)
(* The theorems                                                            *)
(***************************************************************************)
LEMMA InitHolds == Init => IInv
<1> SUFFICES ASSUME Init PROVE IInv
  OBVIOUS
<1>1. Api
  <2>1. server \in Releases /\ m_checked \in BOOLEAN /\ m_mutex = NoThread
        /\ m_authToken = "none" /\ list \in Seq(Nat)
    BY WSAPIAssumption DEF Init
  <2>2. NoService \in [Services -> Nat] /\ Version[server] \in [Services -> Nat]
    BY <2>1, WSAPIAssumption DEF NoService
  <2>3. m_serviceVersion \in [Services -> Nat]
    BY <2>2 DEF Init
  <2>4. m_protocol \in {0} \cup {Protocol[r] : r \in Releases}
    BY <2>1 DEF Init
  <2>5. m_namedCache \subseteq {"self", "other"}
    BY DEF Init
  <2>6. QED
    BY <2>1, <2>3, <2>4, <2>5 DEF Api
<1>2. Calls
  <2>1. task = [t \in Threads |-> Idle]
    BY DEF Init
  <2>2. \A t \in Threads : task[t] = Idle /\ Idle.ret \in Results
    BY <2>1 DEF Results
  <2>3. \A t \in Threads : Idle \in Tasks(Results)
    BY <2>2, IdleFacts, AnyResult
  <2>4. QED
    BY <2>1, <2>2, <2>3, IdleFacts DEF Calls
<1>3. QED
  BY <1>1, <1>2 DEF IInv

LEMMA StutterKeeps ==
  ASSUME IInv, UNCHANGED vars
  PROVE  IInv'
BY DEF IInv, Api, Calls, Results, vars, api

\* The inductive invariant, for any threads, releases, lists, limits and sizes
\* of a page: what Sound says of every call of WSAPI.
THEOREM InductiveInvariant == Spec => []IInv
<1>1. IInv /\ [Next]_vars => IInv'
  <2> SUFFICES ASSUME IInv, [Next]_vars PROVE IInv'
    OBVIOUS
  <2>1. CASE UNCHANGED vars
    BY <2>1, StutterKeeps
  <2>2. CASE Restart \/ ChangeList
    BY <2>2, RestartKeeps, ChangeListKeeps
  <2>3. ASSUME NEW t \in Threads, Call(t) \/ ResolveHostName(t)
        PROVE  IInv'
    BY <2>3, CallKeeps, ResolveHostNameKeeps
  <2>4. ASSUME NEW t \in Threads, Step(t)
        PROVE  IInv'
    BY <2>4, ExecuteKeeps, CheckServiceKeeps, InitWSAPIKeeps, BindKeeps,
       InvalidateServiceKeeps, GetListKeeps, GetOneKeeps, SendFailsKeeps, ResolvedKeeps,
       NextSettingKeeps DEF Step
  <2>5. QED
    BY <2>1, <2>2, <2>3, <2>4 DEF Next
<1>2. QED
  BY <1>1, InitHolds, PTL DEF Spec

LEMMA InitVersions == Init => Versions
<1> SUFFICES ASSUME Init PROVE Versions
  OBVIOUS
<1>1. Known
  BY DEF Init, Known
<1>2. Idle.pc = "idle" /\ Idle.host = 0 /\ ~Idle.cmd.bind
  BY DEF Idle, Value
<1>3. ~Holds(Idle) /\ Idle.pc \notin Asking
  BY <1>2 DEF Holds, Asking
<1>4. ASSUME NEW u \in Threads PROVE Versed(u, task[u])
  <2>1. task[u] = Idle
    BY DEF Init
  <2>2. QED
    BY <1>2, <1>3, <2>1 DEF Versed
<1>5. QED
  BY <1>1, <1>4 DEF Versions

\* The second invariant: what the versions of the client have to do with the
\* running backend, for any threads, releases and calls.
THEOREM VersionsInvariant == Spec => []Versions
<1>1. IInv /\ Versions /\ [Next]_vars => Versions'
  <2> SUFFICES ASSUME IInv, Versions, [Next]_vars PROVE Versions'
    OBVIOUS
  <2>1. CASE UNCHANGED vars
    <3>1. UNCHANGED <<m_mutex, m_checked, m_protocol, server, current, calm, task>>
      BY <2>1 DEF vars, api, history
    <3>2. Known'
      BY <3>1 DEF Versions, Known
    <3>3. ASSUME NEW u \in Threads PROVE Versed(u, task[u])'
      BY <3>1 DEF Versions, Versed, Holds
    <3>4. QED
      BY <3>2, <3>3 DEF Versions
  <2>2. CASE Restart \/ ChangeList
    BY <2>2, EnvironmentVersions
  <2>3. ASSUME NEW t \in Threads, Call(t) \/ ResolveHostName(t)
        PROVE  Versions'
    BY <2>3, HostVersions
  <2>4. ASSUME NEW t \in Threads, Step(t)
        PROVE  Versions'
    BY <2>4, ExecuteVersions, CheckServiceVersions, InitWSAPIVersions, BindVersions,
       InvalidateServiceVersions, GetListVersions, GetOneVersions, SendFailsVersions,
       HostVersions DEF Step
  <2>5. QED
    BY <2>1, <2>2, <2>3, <2>4 DEF Next
<1>2. QED
  BY <1>1, InitVersions, InductiveInvariant, PTL DEF Spec

\* The types, and with them that the size of a page (the limit less what was
\* received) stays between zero and the fetch size of the variant.
THEOREM TypeCorrect == Spec => []TypeOK
<1>1. IInv /\ Versions => TypeOK
  <2> SUFFICES ASSUME IInv, Versions PROVE TypeOK
    OBVIOUS
  <2>1. \A t \in Threads :
          /\ task[t].size \in 0..task[t].cmd.fetch
          /\ task[t].index <= task[t].total
          /\ task[t].host \in 0..2 /\ task[t].phase \in Phases
    <3> TAKE t \in Threads
    <3>1. task[t] \in Tasks(Results) /\ Sound(task[t])
      BY MeFacts DEF IInv
    <3>2. task[t].cmd.fetch \in Nat /\ task[t].size \in Nat
      BY <3>1, FetchAssumption DEF Tasks, Kinds, Shapes
    <3>3. task[t].size <= task[t].cmd.fetch /\ task[t].index <= task[t].total
      BY <3>1 DEF Sound
    <3>4. task[t].host \in 0..2 /\ task[t].phase \in Phases
      BY <3>1 DEF Tasks
    <3>5. QED
      BY <3>2, <3>3, <3>4
  <2>2. QED
    BY <2>1 DEF IInv, Api, Versions, Known, TypeOK, Phases
<1>2. QED
  BY <1>1, InductiveInvariant, VersionsInvariant, PTL

\* Whatever a call receives is bound by the version of the backend that sent it,
\* checked or not, once the versions of the client are current, unless a restart
\* or an alarm comes between the check of the service and the answer.
THEOREM AlwaysBoundByItsVersion == Spec => []BoundByItsVersion
<1>1. Versions => BoundByItsVersion
  BY DEF Versions, Versed, BoundByItsVersion
<1>2. QED
  BY <1>1, VersionsInvariant, PTL

\* The second attempt of Query::Execute never makes the backend do twice what a
\* call posts.
THEOREM AlwaysPostedOnce == Spec => []PostedOnce
<1>1. IInv => PostedOnce
  BY DEF IInv, Calls, Sound, PostedOnce
<1>2. QED
  BY <1>1, InductiveInvariant, PTL

\* A list that is fetched with nothing lost and no change of it is complete and in
\* order up to the limit, for any list, limit, days and sizes of a page: page by
\* page the beginning of the list was kept, and the last page ends it.
THEOREM AlwaysCompleteList == Spec => []CompleteList
<1>1. Init => Fetch
  BY DEF Init, Fetch, Fetched, Idle
<1>2. IInv /\ Fetch /\ [Next]_vars => Fetch'
  <2> SUFFICES ASSUME IInv, Fetch, [Next]_vars PROVE Fetch'
    OBVIOUS
  <2>1. CASE UNCHANGED vars
    BY <2>1 DEF vars, Fetch
  <2>2. CASE Restart \/ ChangeList
    BY <2>2, EnvironmentFetches
  <2>3. ASSUME NEW t \in Threads, Call(t) \/ ResolveHostName(t)
        PROVE  Fetch'
    BY <2>3, OtherFetches
  <2>4. ASSUME NEW t \in Threads, Step(t)
        PROVE  Fetch'
    BY <2>4, ExecuteFetches, CheckServiceFetches, InitWSAPIFetches, BindFetches,
       GetListFetches, OtherFetches DEF Step
  <2>5. QED
    BY <2>1, <2>2, <2>3, <2>4 DEF Next
<1>3. Fetch => CompleteList
  <2> SUFFICES ASSUME Fetch, NEW t \in Threads, At(t, "done"), task[t].clean,
                      task[t].cmd.check
               PROVE  task[t].ret = Sift(task[t].cmd, Asked(task[t], list))
    BY DEF CompleteList, Asked
  <2>1. Fetched(task[t], list)
    BY DEF Fetch
  <2>2. QED
    BY <2>1 DEF Fetched, At
<1>4. QED
  BY <1>1, <1>2, <1>3, InductiveInvariant, PTL DEF Spec

=============================================================================
