----------------------------- MODULE SpokenReply -----------------------------
(***************************************************************************)
(* How a reply of the half-duplex session is spoken: the units that        *)
(* stream_speech_to_tts enqueues, the audio that it prepares in the turn   *)
(* gap and plays after it, and the flush at its end, over a synthesizer    *)
(* (PiperSpeech) that a cache may wrap (CachedTextToSpeech in              *)
(* src/mouth/cache.rs).                                                    *)
(*                                                                         *)
(* One synthesizer serves all replies, and nothing in its audio says what  *)
(* it is the audio of.  The cache is kept with one key, that of the marker *)
(* ("Mm-hm."), which the filler of a reply is, and any later unit may be.   *)
(***************************************************************************)
EXTENDS PiperSpeech

VARIABLES caching,    \* the synthesizer is wrapped by a cache
          cached,     \* audio under the marker's key, or none
          hits,       \* pending_cached_audio
          collecting, \* pending_cache_unit is the marker
          collected,  \* pending_cache_frames
          phase,      \* "idle", "prepare", "speak", "flush", "fallback", "over"
          reply,      \* number of the reply
          planned,    \* units enqueued for it
          played,     \* played_any_audio, in the flush that is going on
          prepared,   \* prepared_audio
          heard,      \* history: what was played in this reply
          left,       \* history: requests outstanding when their reply ended
          cancelled,  \* history: the replies that were cancelled
          mixed       \* history: a marker was enqueued with others outstanding

cacheVars == <<caching, cached, hits, collecting, collected, mixed>>
replyVars == <<phase, reply, planned, played, prepared, heard, left, cancelled>>
vars == <<piperVars, cacheVars, replyVars>>

TypeOK ==
    /\ PiperTypeOK
    /\ caching \in BOOLEAN /\ collecting \in BOOLEAN /\ mixed \in BOOLEAN
    /\ cached \in Seq(Requests) /\ hits \in Seq(Requests) /\ collected \in Seq(Requests)
    /\ phase \in {"idle", "prepare", "speak", "flush", "fallback", "over"}
    /\ reply \in 0 .. MaxReplies /\ planned \in 0 .. MaxUnits + 1
    /\ played \in BOOLEAN
    /\ prepared \in Seq(Requests) /\ heard \in Seq(Requests)
    /\ left \subseteq Requests /\ cancelled \subseteq 1 .. MaxReplies

\* What the prewarm command left in the cache.
Prewarmed == [reply |-> 0, n |-> 0, kind |-> "marker"]

Init ==
    /\ PiperInit
    /\ caching \in BOOLEAN /\ cached \in {<<>>, <<Prewarmed>>}
    /\ hits = <<>> /\ collecting = FALSE /\ collected = <<>> /\ mixed = FALSE
    /\ phase = "idle" /\ reply = 0 /\ planned = 0 /\ played = FALSE
    /\ prepared = <<>> /\ heard = <<>> /\ left = {} /\ cancelled = {}

(***************************************************************************)
(* The cache.                                                              *)
(***************************************************************************)
Hit(kind) == caching /\ kind = "marker" /\ cached # <<>>

\* Mutant: a unit that is not cached leaves the one before it pending.
TtsEnqueueKeepsPending(request) ==
    IF Hit(request.kind)
    THEN /\ hits' = hits \o cached /\ collecting' = FALSE /\ collected' = <<>>
         /\ UNCHANGED <<piperVars, mixed>>
    ELSE /\ PiperEnqueue(request)
         /\ collecting' = (collecting \/ (caching /\ request.kind = "marker"))
         /\ mixed' = (mixed \/ (caching /\ request.kind = "marker" /\ Outstanding # {}))
         /\ UNCHANGED <<hits, collected>>

TtsEnqueue(request) ==
    IF Hit(request.kind)
    THEN /\ hits' = hits \o cached /\ collecting' = FALSE /\ collected' = <<>>
         /\ UNCHANGED <<piperVars, mixed>>
    ELSE /\ PiperEnqueue(request)
         /\ collecting' = (caching /\ request.kind = "marker") /\ collected' = <<>>
         /\ mixed' = (mixed \/ (caching /\ request.kind = "marker" /\ Outstanding # {}))
         /\ UNCHANGED hits

\* What a poll brings: audio of the cache first.
Brings == IF hits # <<>> THEN hits ELSE audio

PollHits == hits # <<>> /\ hits' = <<>> /\ UNCHANGED <<piperVars, cached, collecting, collected>>

\* Audio of the cache is nobody's request any more.
Stored(sounds) == [i \in DOMAIN sounds |-> [sounds[i] EXCEPT !.reply = 0]]

\* Audio that is collected for the cache is complete when a poll brings none.
PollPiper ==
    /\ hits = <<>> /\ PiperPoll
    /\ IF ~collecting THEN UNCHANGED <<cached, collecting, collected>>
       ELSE IF audio # <<>> THEN collected' = collected \o audio /\ UNCHANGED <<cached, collecting>>
       ELSE IF collected = <<>> THEN UNCHANGED <<cached, collecting, collected>>
       ELSE cached' = Stored(collected) /\ collecting' = FALSE /\ collected' = <<>>
    /\ UNCHANGED hits

TtsPoll == (PollHits \/ PollPiper) /\ UNCHANGED <<caching, mixed>>

TtsStop ==
    /\ PiperStop
    /\ hits' = <<>> /\ collecting' = FALSE /\ collected' = <<>>
    /\ UNCHANGED <<caching, cached, mixed>>

(***************************************************************************)
(* A reply.                                                                *)
(***************************************************************************)
BeginReply ==
    /\ phase = "idle" /\ reply < MaxReplies
    /\ phase' = "prepare" /\ reply' = reply + 1 /\ planned' = 0
    /\ played' = FALSE /\ prepared' = <<>> /\ heard' = <<>>
    /\ UNCHANGED <<piperVars, cacheVars, left, cancelled>>

Enqueue(kind) ==
    /\ TtsEnqueue([reply |-> reply, n |-> planned + 1, kind |-> kind])
    /\ planned' = planned + 1
    /\ UNCHANGED <<caching, cached, reply, prepared, heard, left, cancelled>>

\* The generation is silent for too long, and nothing of it is planned yet.
PlanFiller ==
    /\ phase \in {"prepare", "speak"} /\ planned = 0
    /\ Enqueue("marker")
    /\ UNCHANGED <<phase, played>>

PlanUnit ==
    /\ phase \in {"prepare", "speak"} /\ planned < MaxUnits
    /\ \E kind \in {"words", "marker"} : Enqueue(kind)
    /\ UNCHANGED <<phase, played>>

Collect ==
    /\ phase = "prepare" /\ TtsPoll
    /\ prepared' = prepared \o Brings
    /\ UNCHANGED <<phase, reply, planned, played, heard, left, cancelled>>

Play ==
    /\ phase \in {"speak", "flush", "fallback"} /\ TtsPoll
    /\ heard' = heard \o Brings /\ played' = (played \/ Brings # <<>>)
    /\ UNCHANGED <<phase, reply, planned, prepared, left, cancelled>>

\* Speech in the gap: the reply is cancelled and what was prepared is dropped.
Interrupted ==
    /\ phase = "prepare" /\ TtsStop
    /\ phase' = "idle" /\ prepared' = <<>> /\ left' = left \cup Waiting
    /\ cancelled' = cancelled \cup {reply}
    /\ UNCHANGED <<reply, planned, played, heard>>

\* Mutant: what was prepared is played and kept.
GapReadyKeepsPrepared ==
    /\ phase = "prepare"
    /\ phase' = "speak" /\ heard' = heard \o prepared /\ played' = (prepared # <<>>)
    /\ UNCHANGED <<piperVars, cacheVars, reply, planned, prepared, left, cancelled>>

GapReady ==
    /\ phase = "prepare"
    /\ phase' = "speak" /\ prepared' = <<>>
    /\ heard' = heard \o prepared /\ played' = (prepared # <<>>)
    /\ UNCHANGED <<piperVars, cacheVars, reply, planned, left, cancelled>>

GenerationEnds ==
    /\ phase = "speak"
    /\ phase' = "flush"
    /\ UNCHANGED <<piperVars, cacheVars, reply, planned, played, prepared, heard, left, cancelled>>

\* Nothing was heard until the flush timed out.
SpeakFallback ==
    /\ phase = "flush" /\ ~played
    /\ Enqueue("words")
    /\ phase' = "fallback"
    /\ UNCHANGED played

\* The flush is over when no audio came for a while after some did.
ReplyEnds ==
    /\ phase \in {"flush", "fallback"} /\ played
    /\ phase' = "idle" /\ left' = left \cup Outstanding
    /\ UNCHANGED <<piperVars, cacheVars, reply, planned, played, prepared, heard, cancelled>>

\* A poll fails, the fallback is not heard in time, or the session is over; its
\* synthesizer is dropped.
SessionEnds ==
    /\ phase # "over"
    /\ phase' = "over" /\ PiperDrop
    /\ UNCHANGED <<working, audio, failed, swallowed>>
    /\ UNCHANGED <<cacheVars, reply, planned, played, prepared, heard, left, cancelled>>

PollFails ==
    /\ phase \in {"prepare", "speak", "flush", "fallback"} /\ hits = <<>> /\ failed > 0
    /\ phase' = "over"
    /\ failed' = failed - 1 /\ PiperDrop
    /\ UNCHANGED <<working, audio, swallowed>>
    /\ UNCHANGED <<cacheVars, reply, planned, played, prepared, heard, left, cancelled>>

Session == \/ BeginReply \/ PlanFiller \/ PlanUnit \/ Collect \/ Play \/ Interrupted \/ GapReady
           \/ GenerationEnds \/ SpeakFallback \/ ReplyEnds \/ SessionEnds \/ PollFails

Next == Session \/ (Worker /\ UNCHANGED <<cacheVars, replyVars>>)
Spec == Init /\ [][Next]_vars

\* The worker's thread runs, and the synthesizer comes back with audio or an
\* error.
FairSpec == Spec /\ WF_vars(Worker /\ UNCHANGED <<cacheVars, replyVars>>)

(***************************************************************************)
(* Properties.                                                             *)
(***************************************************************************)
Said == heard \o prepared
Before(a, b) == a.reply < b.reply \/ (a.reply = b.reply /\ a.n < b.n)

\* What the synthesizer makes is heard in the order it was asked for, once,
\* through the gap and the flush, and whatever of earlier replies comes late.
SpokenInOrder ==
    \A i, j \in DOMAIN Said :
        i < j /\ Said[i].reply # 0 /\ Said[j].reply # 0 => Before(Said[i], Said[j])

\* A reply is mixed with audio of an earlier one only when that one ended, or was
\* cancelled, with units still to be synthesized: audio that had arrived when
\* it was cancelled is never heard.
OnlyUnfinishedSpeechIntrudes ==
    \A sound \in ToSet(Said) : sound.reply \in {0, reply} \/ sound \in left

\* A stop discards only what was asked for after it: units are lost only to a
\* reply that follows a cancelled one.
LostOnlyAfterCancel ==
    \A request \in swallowed : \E r \in cancelled : r < request.reply

\* The marker's audio in the cache is the marker's, unless the marker was
\* enqueued while other speech was still to come.
CacheKeepsOwnAudio == (\E sound \in ToSet(cached) : sound.kind # "marker") => mixed

\* When the session is over, the worker has gone or its Shutdown is still
\* queued: no drain after a stop discards it.
ShutdownNotLost == phase = "over" /\ working # Gone => Signal("shutdown") \in ToSet(commands)

\* The worker can always be joined, whatever is queued before the Shutdown.
JoinReturns == phase = "over" ~> working = Gone
=============================================================================
