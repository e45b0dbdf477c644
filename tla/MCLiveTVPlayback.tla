-------------------------- MODULE MCLiveTVPlayback --------------------------
EXTENDS LiveTVPlayback

\* Two cards can tune channel 7, the second one is preferred; no card channel 8.
MCInputs ==
  <<[cardId |-> 1, sourceId |-> 1, mplexId |-> 0, liveTVOrder |-> 2],
    [cardId |-> 2, sourceId |-> 1, mplexId |-> 3, liveTVOrder |-> 1]>>
MCChannels ==
  <<[chanNum |-> 7, sourceId |-> 1, mplexId |-> 3],
    [chanNum |-> 8, sourceId |-> 2, mplexId |-> 3]>>
MCOffsets == {-1, 0, 3}

=============================================================================
