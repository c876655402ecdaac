--------------------------- MODULE MCTurnControl ---------------------------
EXTENDS TurnControl

\* Two frames of speech open a group, two of silence close it, eight frames are
\* the longest group; the thresholds are 1, 2 and 4 time steps and a frame is
\* processed with the one before it, or one or two steps later.
MCOpenAfter == 2
MCCloseAfter == 2
MCMaxGroupFrames == {8}
MCIgnoreBlip == 1
MCFadeAt == 2
MCStopAt == 4
MCFrameGaps == {0, 1, 2}
=============================================================================
