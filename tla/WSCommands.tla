----------------------------- MODULE WSCommands -----------------------------
(***************************************************************************)
(* What the calls of the web service API ask of the backend and how they   *)
(* take the answer (cppmyth/src/mythwsapi.{h,cpp}).  Every call checks the *)
(* version of its service, picks the variant of that version and runs it.  *)
(* Variants differ in                                                      *)
(*   bind   the version of the protocol is read at the first line, for the *)
(*          binding of what is received or the coding of what is sent,     *)
(*   check  the answer tells its version, which must be the one read,      *)
(*   fetch  the elements a page holds (0: one request, not a page),        *)
(*   days   the page is divided by the days that are asked for,            *)
(*   limit  the caller may limit the number of elements,                   *)
(*   sift   elements that are not valid or not visible are passed over,    *)
(*   post   the request changes the backend,                               *)
(*   more   the list of recordings is asked for afterwards.                *)
(* Paths, parameters and the fields of the elements are data.              *)
(***************************************************************************)
EXTENDS Naturals

CONSTANTS FETCHSIZE, FETCHSIZE_L

ASSUME FetchAssumption == FETCHSIZE \in Nat \ {0} /\ FETCHSIZE_L \in Nat \ {0}

Value == [bind |-> FALSE, check |-> FALSE, fetch |-> 0, days |-> FALSE,
          limit |-> FALSE, sift |-> FALSE, post |-> FALSE, more |-> FALSE]
Bound == [Value EXCEPT !.bind = TRUE]
Checked == [Bound EXCEPT !.check = TRUE]
Pages(size) == [Checked EXCEPT !.fetch = size]
Post == [Value EXCEPT !.post = TRUE]
BoundPost == [Bound EXCEPT !.post = TRUE]

GetSetting2_0 == Value
GetSetting5_0 == Value
GetSettings2_0 == Value
GetSettings5_0 == Value
PutSetting2_0 == Post
GetCaptureCardList1_4 == Bound
GetVideoSourceList1_2 == Bound
GetChannelList1_2 == [Pages(FETCHSIZE) EXCEPT !.sift = TRUE]
GetChannelList1_5 == [Checked EXCEPT !.sift = TRUE]
GetChannel1_2 == Bound
GetProgramGuide1_0 == Checked
GetProgramGuideOf1_0 == Checked  \* of one channel
GetProgramGuide2_2 == [Pages(FETCHSIZE) EXCEPT !.days = TRUE]
GetProgramList2_2 == Pages(FETCHSIZE_L)
GetRecordedList1_5 == [Pages(FETCHSIZE) EXCEPT !.limit = TRUE]
GetRecorded1_5 == Bound
GetRecorded6_0 == Bound
DeleteRecording2_1 == Post
DeleteRecording6_0 == Post
UnDeleteRecording2_1 == Post
UnDeleteRecording6_0 == Post
UpdateRecordedWatchedStatus4_5 == Post
UpdateRecordedWatchedStatus6_0 == Post
GetRecordedCommBreak6_1 == Bound
GetRecordedCutList6_1 == Bound
SetSavedBookmark6_2 == Post
GetSavedBookmark6_2 == Value
GetRecordScheduleList1_5 == Pages(FETCHSIZE)
GetRecordSchedule1_5 == Bound
AddRecordSchedule1_5 == BoundPost
AddRecordSchedule1_7 == BoundPost
UpdateRecordSchedule1_7 == BoundPost
DisableRecordSchedule1_5 == Post
EnableRecordSchedule1_5 == Post
RemoveRecordSchedule1_5 == Post
GetUpcomingList2_2 == Pages(FETCHSIZE)
GetUpcomingList1_5 == [GetUpcomingList2_2 EXCEPT !.more = TRUE]
GetConflictList1_5 == Pages(FETCHSIZE)
GetExpiringList1_5 == Pages(FETCHSIZE)
GetRecGroupList1_5 == Value
GetFile1_32 == Value
GetChannelIcon1_32 == Value
GetPreviewImage1_32 == Value
GetRecordingArtwork1_32 == Value
GetRecordingArtworkList1_32 == Bound

----------------------------------------------------------------------------
\* The rank of version major.minor of a service.
Ranking(major, minor) == ((major % 65536) * 65536) + (minor % 65536)
MYTH_API_VERSION_MAX_RANKING == Ranking(5, 65535)

\* The newest variant that a service of rank wsv has: none below its first.
Since(variants, wsv) ==
  LET known == {r \in DOMAIN variants : r <= wsv}
  IN  {variants[r] : r \in {r \in known : \A q \in known : q <= r}}
From(major, minor, variant) == [r \in {Ranking(major, minor)} |-> variant]
Either(old, new) ==
  [r \in DOMAIN old \cup DOMAIN new |-> IF r \in DOMAIN new THEN new[r] ELSE old[r]]

GetHostSetting(wsv) == Since(Either(From(2, 0, GetSetting2_0), From(5, 0, GetSetting5_0)), wsv)
GetHostSettings(wsv) == Since(Either(From(2, 0, GetSettings2_0), From(5, 0, GetSettings5_0)), wsv)
PutSetting(wsv) == Since(From(2, 0, PutSetting2_0), wsv)
GetCaptureCardList(wsv) == Since(From(1, 4, GetCaptureCardList1_4), wsv)
GetVideoSourceList(wsv) == Since(From(1, 2, GetVideoSourceList1_2), wsv)
GetChannelList(wsv) == Since(Either(From(1, 2, GetChannelList1_2), From(1, 5, GetChannelList1_5)), wsv)
GetChannel(wsv) == Since(From(1, 2, GetChannel1_2), wsv)
GetProgramGuideOf(wsv) == Since(Either(From(1, 0, GetProgramGuideOf1_0), From(2, 2, GetProgramList2_2)), wsv)
GetProgramGuide(wsv) == Since(Either(From(1, 0, GetProgramGuide1_0), From(2, 2, GetProgramGuide2_2)), wsv)
GetRecordedList(wsv) == Since(From(1, 5, GetRecordedList1_5), wsv)
GetRecordedAt(wsv) == Since(From(1, 5, GetRecorded1_5), wsv)
GetRecorded(wsv) == Since(From(6, 0, GetRecorded6_0), wsv)
UpdateRecordedWatchedStatusAt(wsv) == Since(From(4, 5, UpdateRecordedWatchedStatus4_5), wsv)
UpdateRecordedWatchedStatus(wsv) == Since(From(6, 0, UpdateRecordedWatchedStatus6_0), wsv)
DeleteRecordingAt(wsv) == Since(From(2, 1, DeleteRecording2_1), wsv)
DeleteRecording(wsv) == Since(From(6, 0, DeleteRecording6_0), wsv)
UnDeleteRecordingAt(wsv) == Since(From(2, 1, UnDeleteRecording2_1), wsv)
UnDeleteRecording(wsv) == Since(From(6, 0, UnDeleteRecording6_0), wsv)
GetRecordScheduleList(wsv) == Since(From(1, 5, GetRecordScheduleList1_5), wsv)
GetRecordSchedule(wsv) == Since(From(1, 5, GetRecordSchedule1_5), wsv)
AddRecordSchedule(wsv) == Since(Either(From(1, 5, AddRecordSchedule1_5), From(1, 7, AddRecordSchedule1_7)), wsv)
UpdateRecordSchedule(wsv) == Since(From(1, 7, UpdateRecordSchedule1_7), wsv)
DisableRecordSchedule(wsv) == Since(From(1, 5, DisableRecordSchedule1_5), wsv)
EnableRecordSchedule(wsv) == Since(From(1, 5, EnableRecordSchedule1_5), wsv)
RemoveRecordSchedule(wsv) == Since(From(1, 5, RemoveRecordSchedule1_5), wsv)
GetUpcomingList(wsv) == Since(Either(From(1, 5, GetUpcomingList1_5), From(2, 2, GetUpcomingList2_2)), wsv)
GetConflictList(wsv) == Since(From(1, 5, GetConflictList1_5), wsv)
GetExpiringList(wsv) == Since(From(1, 5, GetExpiringList1_5), wsv)
GetRecGroupList(wsv) == Since(From(1, 5, GetRecGroupList1_5), wsv)
GetFile(wsv) == Since(From(1, 32, GetFile1_32), wsv)
GetChannelIcon(wsv) == Since(From(1, 32, GetChannelIcon1_32), wsv)
GetPreviewImage(wsv) == Since(From(1, 32, GetPreviewImage1_32), wsv)
GetRecordingArtwork(wsv) == Since(From(1, 32, GetRecordingArtwork1_32), wsv)
GetRecordingArtworkList(wsv) == Since(From(1, 32, GetRecordingArtworkList1_32), wsv)
GetRecordedCommBreak(wsv) == Since(From(6, 1, GetRecordedCommBreak6_1), wsv)
GetRecordedCutList(wsv) == Since(From(6, 1, GetRecordedCutList6_1), wsv)
SetSavedBookmark(wsv) == Since(From(6, 2, SetSavedBookmark6_2), wsv)
GetSavedBookmark(wsv) == Since(From(6, 2, GetSavedBookmark6_2), wsv)

Services == {"Myth", "Capture", "Channel", "Guide", "Content", "Dvr"}

\* The variants that calls to a service of this rank run.
Commands(id, wsv) ==
  CASE id = "Myth" -> UNION {GetHostSetting(wsv), GetHostSettings(wsv), PutSetting(wsv)}
    [] id = "Capture" -> GetCaptureCardList(wsv)
    [] id = "Channel" -> UNION {GetVideoSourceList(wsv), GetChannelList(wsv), GetChannel(wsv)}
    [] id = "Guide" -> UNION {GetProgramGuideOf(wsv), GetProgramGuide(wsv)}
    [] id = "Content" ->
         UNION {GetFile(wsv), GetChannelIcon(wsv), GetPreviewImage(wsv),
                GetRecordingArtwork(wsv), GetRecordingArtworkList(wsv)}
    [] id = "Dvr" ->
         UNION {GetRecordedList(wsv), GetRecordedAt(wsv), GetRecorded(wsv),
                UpdateRecordedWatchedStatusAt(wsv), UpdateRecordedWatchedStatus(wsv),
                DeleteRecordingAt(wsv), DeleteRecording(wsv), UnDeleteRecordingAt(wsv),
                UnDeleteRecording(wsv), GetRecordScheduleList(wsv), GetRecordSchedule(wsv),
                AddRecordSchedule(wsv), UpdateRecordSchedule(wsv),
                DisableRecordSchedule(wsv), EnableRecordSchedule(wsv),
                RemoveRecordSchedule(wsv), GetUpcomingList(wsv), GetConflictList(wsv),
                GetExpiringList(wsv), GetRecGroupList(wsv), GetRecordedCommBreak(wsv),
                GetRecordedCutList(wsv), SetSavedBookmark(wsv), GetSavedBookmark(wsv)}

=============================================================================
