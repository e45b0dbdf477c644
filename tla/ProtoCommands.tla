---------------------------- MODULE ProtoCommands ----------------------------
(***************************************************************************)
(* What the commands of ProtoMonitor read of the reply of the backend      *)
(* (cppmyth/src/proto/mythprotomonitor.{h,cpp}).  Every command takes the  *)
(* latch, asks IsOpen, sends and reads; they differ in                     *)
(*   head   how many fields they read and test: one that is missing or     *)
(*          refused flushes the reply and fails the command,               *)
(*   item   how many fields an element of the list behind the head has (0  *)
(*          for no list): a missing or refused one ends the list,          *)
(*   rest   the list goes on to the end of the reply (else the last field  *)
(*          of the head tells how many elements there are),                *)
(*   flush  the command flushes what is left of the reply when it is done  *)
(*          (else the next SendCommand does).                              *)
(***************************************************************************)
EXTENDS Naturals

Query(k) == [head |-> k, item |-> 0, rest |-> FALSE, flush |-> TRUE]
Order(k) == [head |-> k, item |-> 0, rest |-> FALSE, flush |-> FALSE]
Marks(k) == [head |-> 1, item |-> k, rest |-> FALSE, flush |-> FALSE]
Inputs(k) == [head |-> 0, item |-> k, rest |-> TRUE, flush |-> TRUE]

Announce75 == Order(1)
Announce88 == Order(1)
GetRecorderFromNum75 == Query(2)
QueryFreeSpaceSummary75 == Query(2)
GetSetting75 == Query(1)
SetSetting75 == Query(1)
QueryGenpixmap75 == Query(1)
DeleteRecording75 == Order(1)
UndeleteRecording75 == Order(1)
StopRecording75 == Order(1)
CancelNextRecording75 == Order(1)
QuerySGFile75 == Order(3)
GetCutList75 == Marks(2)
GetCommBreakList75 == Marks(2)
BlockShutdown75 == Order(1)
AllowShutdown75 == Order(1)
\* GetFreeInputs75, 79 and 81 call GetFreeCardIdList75, then send one command
\* per card and give the latch up in between.
GetFreeCardIdList75 == Inputs(1)
GetFreeInputs75 == Inputs(6)
GetFreeInputs79 == Inputs(10)
GetFreeInputs81 == Inputs(11)
GetFreeInputs87 == Inputs(11)
GetFreeInputs89 == Inputs(12)
GetFreeInputs90 == Inputs(12)
GetFreeInputs91 == Inputs(10)

Announce(version) == IF version >= 88 THEN Announce88 ELSE Announce75

\* The version is read before the latch is taken; 0 if there is none yet.
GetFreeInputs(version) ==
  CASE version >= 91 -> {GetFreeInputs91}
    [] version = 90 -> {GetFreeInputs90}
    [] version = 89 -> {GetFreeInputs89}
    [] version \in 87..88 -> {GetFreeInputs87}
    [] version \in 81..86 -> {GetFreeCardIdList75, GetFreeInputs81}
    [] version \in 79..80 -> {GetFreeCardIdList75, GetFreeInputs79}
    [] OTHER -> {GetFreeCardIdList75, GetFreeInputs75}

Commands(version) ==
  {GetRecorderFromNum75, QueryFreeSpaceSummary75, GetSetting75, SetSetting75,
   QueryGenpixmap75, DeleteRecording75, UndeleteRecording75, StopRecording75,
   CancelNextRecording75, QuerySGFile75, GetCutList75, GetCommBreakList75,
   BlockShutdown75, AllowShutdown75} \cup GetFreeInputs(version)

\* The versions in protomap, the newest first in line.
KnownVersions == (75..77) \cup (79..91)
NewestVersion == 91

=============================================================================
