---------------------------- MODULE MCMouthVoice ----------------------------
EXTENDS MouthVoice

\* Three utterances: when the first is given up, its audio can come in the turn
\* of the second, and that of the second in the turn of the third.  Two messages
\* in flight: a control before, between or after the utterances it is about.
MCMaxUtterances == 3
MCMaxInFlight == 2
=============================================================================
