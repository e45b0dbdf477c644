------------------------ MODULE MCRecordingPlayback ------------------------
EXTENDS RecordingPlayback

MCOffsets == {-1,0,1}

=============================================================================
