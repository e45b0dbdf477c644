-------------------------- MODULE RecorderCommands --------------------------
(***************************************************************************)
(* What the commands of ProtoRecorder read of the reply of the backend     *)
(* (cppmyth/src/proto/mythprotorecorder.{h,cpp}), in the terms of module   *)
(* ProtoCommands.  A recorder is a connection of its own on the same base: *)
(* it takes the latch, opens itself again after a hang, sends and reads as *)
(* the monitor does, so that module ProtoMonitor runs these commands, too. *)
(* SpawnLiveTV, StopLiveTV and GetCurrentRecording, and what the flags     *)
(* m_playing and m_liveRecording make of the answers, are in module        *)
(* LiveTVPlayback.                                                         *)
(***************************************************************************)
EXTENDS Naturals

Proto == INSTANCE ProtoCommands

CheckChannel75 == Proto!Order(1)
GetFilePosition75 == Proto!Query(1)
SetLiveRecording75 == Proto!Order(1)
FinishRecording75 == Proto!Order(1)

\* The recorder is asked for its own inputs.
GetFreeInputs75 == Proto!Inputs(6)
GetFreeInputs79 == Proto!Inputs(10)
GetFreeInputs81 == Proto!Inputs(11)
\* The backend is asked for all; the ones of other cards are dropped.
GetFreeInputs87 == Proto!Inputs(11)
GetFreeInputs89 == Proto!Inputs(12)
GetFreeInputs90 == Proto!Inputs(12)
GetFreeInputs91 == Proto!Inputs(10)

GetFreeInputs(version) ==
  CASE version >= 91 -> GetFreeInputs91
    [] version = 90 -> GetFreeInputs90
    [] version = 89 -> GetFreeInputs89
    [] version \in 87..88 -> GetFreeInputs87
    [] version \in 81..86 -> GetFreeInputs81
    [] version \in 79..80 -> GetFreeInputs79
    [] OTHER -> GetFreeInputs75

Commands(version) ==
  {CheckChannel75, GetFilePosition75, SetLiveRecording75, FinishRecording75,
   GetFreeInputs(version)}

=============================================================================
