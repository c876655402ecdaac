--------------------------- MODULE MCSimplexSession ---------------------------
EXTENDS SimplexSession

\* Two groups can close in one drain, when one is open: three stretches of
\* sound, from both microphones together.  One reply: after it, or after it was
\* cancelled, the session listens for the turn that follows.
MCNativeBacklog == 2
MCBrowserBacklog == 1
MCRingSize == 3
MCMaxTurns == 1
=============================================================================
