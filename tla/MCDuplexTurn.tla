---------------------------- MODULE MCDuplexTurn ----------------------------
EXTENDS DuplexTurn

\* Two utterances, so that the second can be held back or submitted over the
\* first, and two messages in flight.  Of Pete's own controls only pause() is
\* there: it is the one that leaves the mouth paused behind the controller.
MCMaxUtterances == 2
MCMaxInFlight == 2
MCVocabulary == {"Say", "SayOver", "SayNothing", "Pause"}
=============================================================================
