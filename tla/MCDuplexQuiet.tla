--------------------------- MODULE MCDuplexQuiet ---------------------------
EXTENDS DuplexTurn

\* One utterance and no controls from Pete: the smallest duplex conversation.
MCMaxUtterances == 1
MCMaxInFlight == 2
MCVocabulary == {"Say"}
=============================================================================
