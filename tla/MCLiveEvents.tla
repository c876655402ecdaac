---------------------------- MODULE MCLiveEvents ----------------------------
EXTENDS LiveEvents

\* Two emitters interleave, two browsers subscribe at different times, and an
\* emitter's second event can overtake or follow a subscription.
CONSTANTS session, camera, early, late

MCEmitters == {session, camera}
MCBrowsers == {early, late}
MCMaxEvents == 2
=============================================================================
