---------------------------- MODULE MCSpokenReply ----------------------------
EXTENDS SpokenReply

\* A second reply can hear the first one, hit what it cached and lose its units
\* to its cancellation; two units and the fallback show every order of them.
MCMaxReplies == 2
MCMaxUnits == 2
=============================================================================
