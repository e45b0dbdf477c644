------------------------------- MODULE WSAPI -------------------------------
(***************************************************************************)
(* The client of the web services (cppmyth/src/mythwsapi.{h,cpp}).         *)
(* Threads share one WSAPI: the versions of the services and of the        *)
(* protocol, found by InitWSAPI under the mutex and thrown away by an      *)
(* answer of another version, and the token of the login.  A call checks   *)
(* its service under the mutex, gives the mutex up, reads the version of   *)
(* the protocol and sends its requests.  Meanwhile the backend may be      *)
(* restarted as another release, its list may change, requests and         *)
(* answers may be lost.                                                    *)
(***************************************************************************)
EXTENDS Sequences, FiniteSets, WSCommands

CONSTANTS
  Threads, NoThread,
  Releases,                  \* what the backend may be, external:
  Protocol, Version, Secure, \*   its protocol, ranks of services, wants a login
  Lists, Hidden,             \* the lists it may start with, elements not visible
  Limits, Days,              \* bound: limits and thirds of days that are asked for
  MaxCalls, MaxFault         \* bound: calls; losses, restarts and changes

ASSUME WSAPIAssumption ==
  /\ NoThread \notin Threads
  /\ Protocol \in [Releases -> Nat \ {0}]
  /\ Version \in [Releases -> [Services -> Nat]]
  /\ Secure \in [Releases -> BOOLEAN]
  /\ Lists \subseteq Seq(Nat)
  /\ Limits \subseteq Nat /\ Days \subseteq Nat \ {0}
  /\ MaxCalls \in Nat /\ MaxFault \in Nat

VARIABLES
  m_mutex,           \* the thread that holds it
  m_checked,
  m_serviceVersion,  \* the rank of every service
  m_protocol,        \* m_version.protocol
  m_namedCache,      \* the hosts whose address is known
  m_authToken,       \* "none", "good" or "stale": what the backend thinks of it
  server, list,      \* the release that runs and its list
  task,              \* per thread: the call it is in
  current, calm,     \* history, see below
  budget

api == <<m_mutex, m_checked, m_serviceVersion, m_protocol, m_namedCache>>
history == <<current, calm>>
vars == <<api, m_authToken, server, list, task, history, budget>>

\* A thread: where it is, the variant it calls, the version it
\* read, the index, size and limit of its pages, what it got; phase is the
\* progress of Execute, left are the services to check, host the names still to
\* be tried.  History: from, the versions that answered; sent, how often the
\* backend did what was posted; clean, nothing was lost or changed.
\* History of all: current, the versions the client uses next were asked of the
\* backend that runs, or will be asked of it first; calm, the threads that found
\* their service checked and since when there was no restart and no alarm.
Idle == [pc |-> "idle", cmd |-> Value, proto |-> 0, index |-> 0,
         size |-> 0, n |-> 0, total |-> 0, ret |-> <<>>, phase |-> "first",
         left |-> <<>>, host |-> 0, second |-> FALSE, from |-> {}, sent |-> 0,
         clean |-> TRUE]

NoService == [id \in Services |-> 0]

Supported(r) ==
  Version[r]["Myth"] <= MYTH_API_VERSION_MAX_RANKING /\ Version[r]["Myth"] >= Ranking(2, 0)

\* The constructor has run InitWSAPI, when no user was given yet: it fails on a
\* backend that wants a login.
Init ==
  /\ m_mutex = NoThread
  /\ server \in Releases
  /\ m_checked = (Supported(server) /\ ~Secure[server])
  /\ m_serviceVersion = IF m_checked THEN Version[server] ELSE NoService
  /\ m_protocol = IF m_checked THEN Protocol[server] ELSE 0
  /\ m_namedCache = IF m_checked THEN {"self"} ELSE {}
  /\ m_authToken = "none"
  /\ list \in Lists
  /\ task = [t \in Threads |-> Idle]
  /\ current = TRUE /\ calm = {}
  /\ budget = [call |-> MaxCalls, fault |-> MaxFault]

Spend(b) == budget[b] > 0 /\ budget' = [budget EXCEPT ![b] = @ - 1]
At(t, place) == task[t].pc = place

----------------------------------------------------------------------------
(***************************************************************************)
(* Query::Execute: an answer that wants a login is followed by a login and *)
(* one more attempt.                                                       *)
(***************************************************************************)
Accepted == ~Secure[server] \/ m_authToken = "good"
InRequest(t) == task[t].pc \in {"version", "host", "connection", "services", "send"}

Unauthorized(t) ==
  /\ InRequest(t) /\ task[t].phase = "first" /\ ~Accepted
  /\ task' = [task EXCEPT ![t].phase = "login"]
  /\ UNCHANGED <<api, m_authToken, server, list, history, budget>>

\* A login that fails may have left an empty token behind.
LoginUser(t) ==
  /\ task[t].phase = "login"
  /\ \/ /\ m_authToken' = "good"
        /\ task' = [task EXCEPT ![t].phase = "again"]
        /\ UNCHANGED budget
     \/ /\ Spend("fault")
        /\ m_authToken' \in {m_authToken, "none"}
        /\ task' = [task EXCEPT ![t].phase = "refused"]
  /\ UNCHANGED <<api, server, list, history>>

Answered(t) == InRequest(t) /\ task[t].phase \in {"first", "again"} /\ Accepted
Refused(t) ==
  /\ InRequest(t)
  /\ task[t].phase = "refused" \/ (task[t].phase = "again" /\ ~Accepted)
  /\ UNCHANGED budget
Lost(t) == Answered(t) /\ Spend("fault")

----------------------------------------------------------------------------
(***************************************************************************)
(* CheckService and InitWSAPI                                              *)
(***************************************************************************)
\* The mutex is recursive: ResolveHostName holds it around its calls.
Unlock(t) == m_mutex' = IF task[t].host > 0 THEN t ELSE NoThread

\* What a call runs once it has the rank of its service; without a variant it
\* returns at once.  One that resolves a host name goes on to the next setting.
\* Which service the call is of makes no difference before.
Variants(t, wsv) ==
  IF task[t].host > 0 THEN {GetHostSetting(wsv["Myth"])}
  ELSE IF task[t].second THEN {GetRecordedList(wsv["Dvr"])}
  ELSE {Commands(id, wsv[id]) : id \in Services}

Dispatch(t, wsv) ==
  /\ calm' = IF wsv = NoService THEN calm \ {t} ELSE calm \cup {t}
  /\ \E cs \in Variants(t, wsv) :
       \/ /\ cs = {}
          /\ task' = [task EXCEPT ![t].pc = IF task[t].host > 0 THEN "unresolved" ELSE "done",
                                  ![t].left = <<>>, ![t].phase = "first", ![t].clean = FALSE]
       \/ \E c \in cs :
            \E n \in IF ~c.limit THEN {0} ELSE IF task[t].second THEN Limits \ {0} ELSE Limits :
              task' = [task EXCEPT ![t].pc = "bind", ![t].cmd = c, ![t].n = n,
                                   ![t].left = <<>>, ![t].phase = "first"]

CheckService(t) ==
  /\ At(t, "check")
  /\ m_mutex \in {NoThread, t}
  /\ \/ /\ m_checked
        /\ Dispatch(t, m_serviceVersion)
        /\ UNCHANGED <<m_mutex, m_serviceVersion>>
     \/ /\ ~m_checked
        /\ m_mutex' = t
        /\ m_serviceVersion' = NoService
        /\ task' = [task EXCEPT ![t].pc = "version"]
        /\ UNCHANGED calm
  /\ current' = (current \/ ~m_checked)
  /\ UNCHANGED <<m_checked, m_protocol, m_namedCache, m_authToken, server, list, budget>>

\* InitWSAPI gives up: the mutex is left and the call has no service.
InitFailed(t) ==
  /\ m_checked' = FALSE
  /\ Unlock(t)
  /\ Dispatch(t, NoService)

GetMythVersion(t) ==
  /\ At(t, "version") /\ Answered(t)
  /\ m_serviceVersion' = [m_serviceVersion EXCEPT !["Myth"] = Version[server]["Myth"]]
  /\ IF Supported(server)
       THEN /\ task' = [task EXCEPT ![t].pc = "host", ![t].phase = "first"]
            /\ UNCHANGED <<m_mutex, m_checked, calm>>
       ELSE InitFailed(t)
  /\ UNCHANGED <<m_protocol, m_namedCache, m_authToken, server, list, current, budget>>

\* The version is cleared before it is asked for.
CheckServerHostName2_0(t) ==
  /\ At(t, "host") /\ Answered(t)
  /\ m_namedCache' = m_namedCache \cup {"self"}
  /\ m_protocol' = 0
  /\ task' = [task EXCEPT ![t].pc = "connection", ![t].phase = "first"]
  /\ UNCHANGED <<m_mutex, m_checked, m_serviceVersion, m_authToken, server, list,
                 history, budget>>

CheckVersion2_0(t) ==
  /\ At(t, "connection") /\ Answered(t)
  /\ m_protocol' = Protocol[server]
  /\ task' = [task EXCEPT ![t].pc = "services", ![t].phase = "first",
                          ![t].left = <<"Capture", "Channel", "Guide", "Content", "Dvr">>]
  /\ UNCHANGED <<m_mutex, m_checked, m_serviceVersion, m_namedCache, m_authToken,
                 server, list, history, budget>>

GetServiceVersion(t) ==
  LET id == Head(task[t].left)
      known == [m_serviceVersion EXCEPT ![id] = Version[server][id]]
  IN
  /\ At(t, "services") /\ Answered(t)
  /\ m_serviceVersion' = known
  /\ IF Len(task[t].left) > 1
       THEN /\ task' = [task EXCEPT ![t].left = Tail(@), ![t].phase = "first"]
            /\ UNCHANGED <<m_mutex, m_checked, calm>>
       ELSE /\ m_checked' = TRUE
            /\ Unlock(t)
            /\ Dispatch(t, known)
  /\ UNCHANGED <<m_protocol, m_namedCache, m_authToken, server, list, current, budget>>

\* A request of InitWSAPI has no valid answer.  The version is cleared when it
\* is the host name that was got before.
InitWSAPI(t) ==
  \/ GetMythVersion(t)
  \/ CheckServerHostName2_0(t)
  \/ CheckVersion2_0(t)
  \/ GetServiceVersion(t)
  \/ /\ task[t].pc \in {"version", "host", "connection", "services"}
     /\ Refused(t) \/ Lost(t)
     /\ InitFailed(t)
     /\ UNCHANGED <<m_serviceVersion, m_protocol, m_namedCache, m_authToken, server, list,
                    current>>

----------------------------------------------------------------------------
(***************************************************************************)
(* Requests                                                                *)
(***************************************************************************)
\* Mutant: the packet size is the rest of the limit, however large.
PageSizeUnbound(n, total, size) == IF n > 0 THEN n - total ELSE size

\* Adjust the packet size.
PageSize(n, total, size) == IF n > 0 /\ size > n - total THEN n - total ELSE size

FetchCount(c, d) == IF c.days THEN c.fetch \div d ELSE c.fetch

\* The first lines of a variant: the version is read without the mutex.
Bind(t) ==
  /\ At(t, "bind")
  /\ \E d \in IF task[t].cmd.days THEN Days ELSE {1} :
       LET c == task[t].cmd IN
       task' = [task EXCEPT ![t].pc = "send", ![t].index = 0, ![t].total = 0, ![t].ret = <<>>,
                            ![t].from = {},
                            ![t].proto = IF c.bind THEN m_protocol ELSE 0,
                            ![t].size = PageSize(task[t].n, 0, FetchCount(c, d))]
  /\ UNCHANGED <<api, m_authToken, server, list, history, budget>>

\* What the backend sends of its list; Count 0 asks for all of it.
Page(index, size) ==
  SubSeq(list, index + 1, IF size = 0 \/ index + size > Len(list) THEN Len(list) ELSE index + size)

\* The elements that are kept, one after the other.
Visible(s) ==
  LET kept[i \in 0..Len(s)] ==
        IF i = 0 THEN <<>>
        ELSE IF s[i] \in Hidden THEN kept[i - 1] ELSE Append(kept[i - 1], s[i])
  IN  kept[Len(s)]
Sift(c, s) == IF c.sift THEN Visible(s) ELSE s

\* GetUpcomingList1_5 goes on with the recordings, and checks the service again.
After(t) == IF task[t].cmd.more THEN "check" ELSE "done"
Leave(t) == [task EXCEPT ![t].pc = After(t), ![t].second = task[t].cmd.more,
                         ![t].phase = "first", ![t].clean = FALSE]

\* The list has the version that was read.
SameVersion(t) == ~task[t].cmd.check \/ Protocol[server] = task[t].proto

\* Mutant: a short page does not end the list.
AgainWhenShort(me, count, total) ==
  me.cmd.fetch > 0 /\ count <= me.size /\ (me.n = 0 \/ me.n > total)
\* A full page is followed by the next one, up to the limit.
Again(me, count, total) ==
  me.cmd.fetch > 0 /\ count = me.size /\ (me.n = 0 \/ me.n > total)

\* Mutant: the index moves by what was kept.
NextIndexKept(me, page, kept) == me.index + Len(kept)
\* The next index moves by all elements of the page, kept or not.
NextIndex(me, page, kept) == me.index + Len(page)

\* An answer of another version, or one without the list: its version is 0.
OtherVersion(t) ==
  /\ At(t, "send") /\ task[t].cmd.check
  /\ \/ Answered(t) /\ ~SameVersion(t) /\ UNCHANGED budget
     \/ Lost(t) /\ task[t].proto # 0

Initializing == \E u \in Threads : task[u].pc \in {"version", "host", "connection", "services"}

\* Mutant: no alarm.
InvalidateServiceNot(t) ==
  /\ OtherVersion(t)
  /\ task' = Leave(t)
  /\ current' = (current \/ ~Initializing) /\ calm' = {}
  /\ UNCHANGED <<api, m_authToken, server, list>>

\* The alarm, without the mutex: the next check asks for all versions anew.  While
\* another thread asks for them it has no effect.
InvalidateService(t) ==
  /\ OtherVersion(t)
  /\ m_checked' = FALSE
  /\ task' = Leave(t)
  /\ current' = (current \/ ~Initializing) /\ calm' = {}
  /\ UNCHANGED <<m_mutex, m_serviceVersion, m_protocol, m_namedCache, m_authToken,
                 server, list>>

GetList(t) ==
  LET me == task[t]
      page == Page(me.index, me.size)
      kept == Sift(me.cmd, page)
      total == me.total + Len(page)
      again == Again(me, Len(page), total)
  IN
  /\ At(t, "send") /\ Answered(t)
  /\ me.cmd.check /\ SameVersion(t)
  /\ task' = [task EXCEPT ![t].ret = @ \o kept, ![t].total = total,
                          ![t].index = NextIndex(me, page, kept),
                          ![t].size = IF again THEN PageSize(me.n, total, @) ELSE @,
                          ![t].from = @ \cup {Protocol[server]},
                          ![t].pc = IF again THEN "send" ELSE After(t),
                          ![t].second = IF again THEN @ ELSE me.cmd.more,
                          ![t].phase = "first"]
  /\ UNCHANGED <<api, m_authToken, server, list, history, budget>>

\* One request: a value, an object, a stream, or something done by the backend.
GetOne(t) ==
  /\ At(t, "send") /\ Answered(t)
  /\ ~task[t].cmd.check /\ task[t].host = 0
  /\ task' = [task EXCEPT ![t].pc = "done", ![t].phase = "first",
                          ![t].from = @ \cup {Protocol[server]},
                          ![t].sent = @ + IF task[t].cmd.post THEN 1 ELSE 0]
  /\ UNCHANGED <<api, m_authToken, server, list, history, budget>>

\* Mutant: a request without answer is sent once more.
SendFailsAgain(t) ==
  /\ At(t, "send") /\ task[t].host = 0
  /\ Refused(t) \/ Lost(t)
  /\ \E did \in IF task[t].cmd.post THEN {0, 1} ELSE {0} :
       task' = [task EXCEPT ![t].sent = @ + did, ![t].phase = "first"]
  /\ UNCHANGED <<api, m_authToken, server, list, history>>

\* No valid answer: the call returns what it has.  The backend may have done
\* what was posted.
SendFails(t) ==
  /\ At(t, "send") /\ task[t].host = 0
  /\ Refused(t) \/ Lost(t)
  /\ \E did \in IF task[t].cmd.post /\ Answered(t) THEN {0, 1} ELSE {0} :
       task' = [Leave(t) EXCEPT ![t].sent = @ + did]
  /\ UNCHANGED <<api, m_authToken, server, list, history>>

----------------------------------------------------------------------------
(***************************************************************************)
(* ResolveHostName: two settings of the host, the first one with a value.  *)
(***************************************************************************)
ResolveHostName(t) ==
  /\ At(t, "idle") /\ m_mutex = NoThread
  /\ "other" \notin m_namedCache
  /\ Spend("call")
  /\ m_mutex' = t
  /\ task' = [task EXCEPT ![t].pc = "check", ![t].host = 2]
  /\ UNCHANGED <<m_checked, m_serviceVersion, m_protocol, m_namedCache, m_authToken,
                 server, list, history>>

Resolved(t) ==
  /\ At(t, "send") /\ task[t].host > 0 /\ Answered(t)
  /\ \/ /\ m_namedCache' = m_namedCache \cup {"other"}
        /\ m_mutex' = NoThread
        /\ task' = [task EXCEPT ![t] = Idle]
     \/ /\ task' = [task EXCEPT ![t].pc = "unresolved", ![t].phase = "first"]
        /\ UNCHANGED <<m_namedCache, m_mutex>>
  /\ UNCHANGED <<m_checked, m_serviceVersion, m_protocol, m_authToken, server, list,
                 history, budget>>

SettingLost(t) ==
  /\ At(t, "send") /\ task[t].host > 0
  /\ Refused(t) \/ Lost(t)
  /\ task' = [task EXCEPT ![t].pc = "unresolved", ![t].phase = "first"]
  /\ UNCHANGED <<api, m_authToken, server, list, history>>

NextSetting(t) ==
  /\ At(t, "unresolved")
  /\ IF task[t].host > 1
       THEN /\ task' = [task EXCEPT ![t].pc = "check", ![t].host = @ - 1]
            /\ UNCHANGED m_mutex
       ELSE /\ task' = [task EXCEPT ![t] = Idle]
            /\ m_mutex' = NoThread
  /\ UNCHANGED <<m_checked, m_serviceVersion, m_protocol, m_namedCache, m_authToken,
                 server, list, history, budget>>

----------------------------------------------------------------------------
Call(t) ==
  /\ At(t, "idle")
  /\ Spend("call")
  /\ task' = [task EXCEPT ![t].pc = "check"]
  /\ UNCHANGED <<api, m_authToken, server, list, history>>

Return(t) ==
  /\ At(t, "done")
  /\ task' = [task EXCEPT ![t] = Idle]
  /\ UNCHANGED <<api, m_authToken, server, list, history, budget>>

Step(t) ==
  \/ Unauthorized(t) \/ LoginUser(t) \/ CheckService(t) \/ InitWSAPI(t)
  \/ Bind(t) \/ InvalidateService(t) \/ GetList(t) \/ GetOne(t) \/ SendFails(t)
  \/ Resolved(t) \/ SettingLost(t) \/ NextSetting(t) \/ Return(t)

\* The backend is restarted as another release; it forgets who logged in.
Restart ==
  /\ Spend("fault")
  /\ server' \in Releases \ {server}
  /\ m_authToken' = IF m_authToken = "good" THEN "stale" ELSE m_authToken
  /\ current' = FALSE /\ calm' = {}
  /\ UNCHANGED <<api, list, task>>

\* An element is added at the end or removed from the front.
ChangeList ==
  /\ Spend("fault")
  /\ \/ list' = Append(list, 0)
     \/ list # <<>> /\ list' = Tail(list)
  /\ task' = [t \in Threads |-> [task[t] EXCEPT !.clean = FALSE]]
  /\ UNCHANGED <<api, m_authToken, server, history>>

Next ==
  \/ \E t \in Threads : Call(t) \/ ResolveHostName(t) \/ Step(t)
  \/ Restart
  \/ ChangeList

\* A request ends within its time-out, so a thread in a call goes on.
Spec == Init /\ [][Next]_vars /\ \A t \in Threads : WF_vars(Step(t))

----------------------------------------------------------------------------
(***************************************************************************)
(* Properties                                                              *)
(***************************************************************************)
\* Types.  The size of a page never exceeds the fetch sizes and is a natural
\* number: the limit minus what was received does not wrap around
\* (mythwsapi.cpp:1290).
TypeOK ==
  /\ m_mutex \in Threads \cup {NoThread}
  /\ m_checked \in BOOLEAN
  /\ m_serviceVersion \in [Services -> Nat]
  /\ m_protocol \in {0} \cup {Protocol[r] : r \in Releases}
  /\ m_namedCache \subseteq {"self", "other"}
  /\ m_authToken \in {"none", "good", "stale"}
  /\ server \in Releases
  /\ current \in BOOLEAN /\ calm \subseteq Threads
  /\ \A t \in Threads :
       /\ task[t].size \in 0..task[t].cmd.fetch
       /\ task[t].index <= task[t].total
       /\ task[t].host \in 0..2 /\ task[t].phase \in {"first", "login", "again", "refused"}

\* Whatever is received, a list or an object, with or without a version of its
\* own, was sent by a backend of the version whose bindings are used for it, once
\* the versions that the client has are those of the running backend.  After a
\* restart they are from the first answer that tells another version ("List has
\* ProtoVer. Check it or sound alarm", mythwsapi.cpp:771), unless another thread
\* is asking for them just then.  A call is excepted when the restart or an alarm
\* comes between its check of the service and its answer: the version is read
\* without the mutex and may be cleared (mythwsapi.cpp:256, 635).
BoundByItsVersion ==
  \A t \in Threads :
    (current /\ t \in calm /\ task[t].cmd.bind) => task[t].from \subseteq {task[t].proto}

\* A list that was fetched with nothing lost and no change of it has every element
\* once and in order, up to the limit: whatever the page size, an empty last page,
\* a limit within a page, elements that are passed over (mythwsapi.cpp:795, 1364).
CompleteList ==
  \A t \in Threads :
    LET me == task[t]
        asked == IF me.n > 0 /\ me.n < Len(list) THEN SubSeq(list, 1, me.n) ELSE list
    IN  (At(t, "done") /\ me.clean /\ me.cmd.check)
          => me.ret = Sift(me.cmd, asked)

\* The backend does what a call posts at most once: the second attempt follows
\* only an answer that refused the first (mythwsapi.cpp:128).
PostedOnce == \A t \in Threads : task[t].sent <= 1

\* Every call returns, except the guide of so many days that its page is empty
\* (FETCHSIZE divided by the days is 0, mythwsapi.cpp:1096) from a backend that
\* has no channel: 0 elements received are 0 elements asked for, without end.
EndlessGuide(t) ==
  At(t, "send") /\ task[t].cmd.days /\ task[t].size = 0 /\ list = <<>>
CallsReturn ==
  \A t \in Threads : ~At(t, "idle") ~> (At(t, "idle") \/ EndlessGuide(t))

=============================================================================
