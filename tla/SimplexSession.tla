---------------------------- MODULE SimplexSession ----------------------------
(***************************************************************************)
(* The loop of the half-duplex session (run_live_half_duplex,              *)
(* stream_speech_to_tts and the turn-gap monitor in                        *)
(* src/cli/commands/live_half_duplex.rs) with the microphones it shares    *)
(* with the input router, its self-hearing window                          *)
(* (src/hearing/suppression.rs) and the buffered turn of its trace         *)
(* (LiveTraceRecorder in src/live_trace.rs).                               *)
(*                                                                         *)
(* loop is the place of the session's thread:                              *)
(*   "drain"   about to drain the microphones                              *)
(*   "frames"  processing what it drained, before the turn's id            *)
(*   "groups"  taking the breath groups that closed, "asr" transcribing    *)
(*   "gap"     preparing a reply, watching for speech; "watch" processing  *)
(*             the frames it drained in the gap                            *)
(*   "play"    Pete's audio is coming out; "flush" waiting for more of it  *)
(*   "over"    asked to sleep, or failed                                   *)
(*                                                                         *)
(* Of the segmenter only the breath group that is open is kept (its frame  *)
(* counters are in TurnControl); of the reply whether anything of it is    *)
(* planned; of time whether the echo's tail is over, while the gap's       *)
(* deadline may pass at any poll.  Frames are stamped when they are        *)
(* drained, so the window that a frame falls in is that of its processing. *)
(***************************************************************************)
EXTENDS InputRouter, SequencesExt

CONSTANTS RingSize,  \* AUDIO_RING_CAPACITY, in stretches of sound
          MaxTurns   \* bound: turns of a session

ASSUME SessionAssumption == RingSize \in Nat /\ MaxTurns \in Nat

VARIABLES loop,
          ring,      \* frames drained and not yet processed
          group,     \* sound of the open breath group, or "none"
          early,     \* the open group was open before the gap
          closed,    \* groups closed by this drain, yet to be transcribed
          batch,     \* how many of this drain's groups were taken
          turn,      \* turn_id of the drain
          turns,     \* turns so far
          barged,    \* speech started in this poll of the gap
          speaking,  \* SelfHearingState::pete_speaking
          tail,      \* now is before output_expected_until
          pending,   \* turn of the buffered trace events, 0 when none
          letIn      \* history: a microphone was on while Pete was heard

sessionVars == <<loop, ring, group, early, closed, batch, turn, turns, barged, speaking, tail,
                 pending, letIn>>
vars == <<routerVars, sessionVars>>

Voices == {"user", "pete"}

TypeOK ==
    /\ RouterTypeOK
    /\ loop \in {"drain", "frames", "groups", "asr", "gap", "watch", "play", "flush", "over"}
    /\ ring \in Seq(Sounds)
    /\ group \in Voices \cup {"none"} /\ early \in BOOLEAN
    /\ closed \in Seq(Voices)
    /\ batch \in Nat
    /\ turn \in 1 .. MaxTurns + 1 /\ turns \in 0 .. MaxTurns
    /\ barged \in BOOLEAN
    /\ speaking \in BOOLEAN /\ tail \in BOOLEAN
    /\ pending \in Nat
    /\ letIn \in BOOLEAN

Init ==
    /\ RouterInit
    /\ loop = "drain" /\ ring = <<>> /\ group = "none" /\ early = FALSE
    /\ closed = <<>> /\ batch = 0 /\ turn = 1 /\ turns = 0
    /\ barged = FALSE /\ speaking = FALSE /\ tail = FALSE
    /\ pending = 0 /\ letIn = FALSE

(***************************************************************************)
(* LiveTraceRecorder: buffering for one turn discards what is buffered for *)
(* another (in a debug build it panics).                                   *)
(***************************************************************************)
Buffer(id) == pending' = id
Release(id) == pending' = IF pending = id THEN 0 ELSE pending

(***************************************************************************)
(* Draining and processing frames.                                         *)
(***************************************************************************)
\* What does not fit the ring is dropped.
Fitting(sounds) == SubSeq(sounds, 1, IF Len(sounds) < RingSize THEN Len(sounds) ELSE RingSize)

Drain ==
    /\ loop = "drain"
    /\ ring' = Fitting(browserQueue \o nativeQueue)
    /\ browserQueue' = <<>> /\ nativeQueue' = <<>>
    /\ loop' = "frames"
    /\ UNCHANGED <<native, browser, arbitration, inHand, lastStore, group, early, closed, batch,
                   turn, turns, barged, speaking, tail, pending, letIn>>

\* The gap monitor drains the native microphone only.
DrainInGap ==
    /\ loop = "gap"
    /\ ring' = Fitting(nativeQueue) /\ nativeQueue' = <<>>
    /\ loop' = "watch" /\ barged' = FALSE
    /\ UNCHANGED <<native, browser, arbitration, inHand, browserQueue, lastStore, group, early,
                   closed, batch, turn, turns, speaking, tail, pending, letIn>>

\* Mutant: only the window of audio that has begun counts.
SuppressedByTailOnly == tail

\* suppression_decision_at, for a frame that was just stamped.
Suppressed == speaking \/ tail

\* The turn that frames are counted to: that of the drain, or the next one.
FrameTurn == IF loop = "frames" THEN turn ELSE turns + 1

\* Mutant: a frame of silence opens a group too.
OpenGroupAny(sound) ==
    /\ group = "none"
    /\ group' = sound /\ early' = FALSE
    /\ Buffer(FrameTurn)
    /\ barged' = (barged \/ loop = "watch")
    /\ UNCHANGED closed

\* Mutant: speech in the gap is not told to the monitor.
OpenGroupUntold(sound) ==
    /\ sound # "quiet" /\ group = "none"
    /\ group' = sound /\ early' = FALSE
    /\ Buffer(FrameTurn)
    /\ UNCHANGED <<closed, barged>>

OpenGroup(sound) ==
    /\ sound # "quiet" /\ group = "none"
    /\ group' = sound /\ early' = FALSE
    /\ Buffer(FrameTurn)
    /\ barged' = (barged \/ loop = "watch")
    /\ UNCHANGED closed

ContinueGroup(sound) ==
    /\ sound # "quiet" /\ group # "none"
    /\ group' = IF sound = "pete" THEN "pete" ELSE group
    /\ UNCHANGED <<early, closed, barged, pending>>

\* A group that closes in the gap is dropped.
CloseGroup(sound) ==
    /\ sound = "quiet" /\ group # "none"
    /\ group' = "none" /\ early' = FALSE
    /\ closed' = IF loop = "frames" THEN Append(closed, group) ELSE closed
    /\ Buffer(FrameTurn)
    /\ UNCHANGED barged

ProcessFrame ==
    /\ loop \in {"frames", "watch"} /\ ring # <<>>
    /\ ring' = Tail(ring)
    /\ LET sound == Head(ring) IN
          \/ ~Suppressed /\ (OpenGroup(sound) \/ ContinueGroup(sound) \/ CloseGroup(sound))
          \/ /\ Suppressed \/ (sound = "quiet" /\ group = "none")
             /\ UNCHANGED <<group, early, closed, barged, pending>>
    /\ UNCHANGED <<routerVars, loop, batch, turn, turns, speaking, tail, letIn>>

(***************************************************************************)
(* The groups of a drain, one after the other.                             *)
(***************************************************************************)
FramesDone ==
    /\ loop = "frames" /\ ring = <<>>
    /\ loop' = "groups"
    /\ UNCHANGED <<routerVars, ring, group, early, closed, batch, turn, turns, barged, speaking,
                   tail, pending, letIn>>

GroupsDone ==
    /\ loop = "groups" /\ closed = <<>>
    /\ loop' = "drain" /\ batch' = 0 /\ turn' = turns + 1
    /\ UNCHANGED <<routerVars, ring, group, early, closed, turns, barged, speaking,
                   tail, pending, letIn>>

TakeGroup ==
    /\ loop = "groups" /\ closed # <<>>
    /\ loop' = "asr" /\ batch' = batch + 1
    /\ Buffer(turn)
    /\ UNCHANGED <<routerVars, ring, group, early, closed, turn, turns, barged, speaking, tail,
                   letIn>>

\* Nothing worth a prompt was said: the turn's events are discarded.
NotWorthy ==
    /\ loop = "asr"
    /\ loop' = "groups" /\ closed' = Tail(closed)
    /\ Release(turn)
    /\ UNCHANGED <<routerVars, ring, group, early, batch, turn, turns, barged, speaking, tail,
                   letIn>>

\* The turn is committed and its reply begun.
Worthy ==
    /\ loop = "asr" /\ turns < MaxTurns
    /\ loop' = "gap" /\ closed' = Tail(closed)
    /\ turns' = turns + 1 /\ early' = (group # "none")
    /\ Release(turn)
    /\ UNCHANGED <<routerVars, ring, group, batch, turn, barged, speaking, tail, letIn>>

(***************************************************************************)
(* The reply.                                                              *)
(***************************************************************************)
\* A unit of the reply, or a filler, is planned (mark_output_intent).
PlanReply ==
    /\ loop \in {"gap", "flush"} /\ ~speaking
    /\ speaking' = TRUE
    /\ UNCHANGED <<routerVars, loop, ring, group, early, closed, batch, turn, turns, barged, tail,
                   pending, letIn>>

GapWaits ==
    /\ loop = "watch" /\ ring = <<>> /\ ~barged
    /\ loop' = "gap"
    /\ UNCHANGED <<routerVars, ring, group, early, closed, batch, turn, turns, barged, speaking,
                   tail, pending, letIn>>

\* The reply is cancelled, and the loop opens the gate in any case.
GapInterrupted ==
    /\ loop = "watch" /\ ring = <<>> /\ barged
    /\ loop' = "groups" /\ StoreGate(TRUE)
    /\ barged' = FALSE /\ early' = FALSE
    /\ UNCHANGED <<browser, arbitration, queues, ring, group, closed, batch, turn, turns,
                   speaking, tail, pending, letIn>>

\* Mutant: the gate is closed only when there is audio to play.
GapReadyGateOpen ==
    /\ loop = "watch" /\ ring = <<>> /\ ~barged
    /\ loop' = "play"
    /\ \/ UNCHANGED <<tail, native, lastStore>>
       \/ speaking /\ tail' = TRUE /\ StoreGate(FALSE)
    /\ letIn' = (letIn \/ browser)
    /\ UNCHANGED <<browser, arbitration, queues, ring, group, early, closed, batch, turn, turns,
                   barged, speaking, pending>>

\* The gate is closed, the entry chime played, and the audio that is prepared.
GapReady ==
    /\ loop = "watch" /\ ring = <<>> /\ ~barged
    /\ loop' = "play" /\ StoreGate(FALSE)
    /\ \/ UNCHANGED tail
       \/ speaking /\ tail' = TRUE
    /\ letIn' = (letIn \/ browser)
    /\ UNCHANGED <<browser, arbitration, queues, ring, group, early, closed, batch, turn, turns,
                   barged, speaking, pending>>

AudioOver ==
    /\ loop = "play"
    /\ loop' = "flush"
    /\ UNCHANGED <<routerVars, ring, group, early, closed, batch, turn, turns, barged, speaking,
                   tail, pending, letIn>>

\* More audio is ready (play_tts_audio_frames), or the fallback is spoken.
PlayMore ==
    /\ loop = "flush"
    /\ loop' = "play" /\ speaking' = TRUE /\ tail' = TRUE
    /\ letIn' = (letIn \/ browser \/ native)
    /\ UNCHANGED <<routerVars, ring, group, early, closed, batch, turn, turns, barged, pending>>

\* Mutant: the end of the reply opens no gate.
FinishReplyGateShut ==
    /\ loop = "flush" /\ speaking
    /\ loop' = "groups" /\ speaking' = FALSE /\ early' = FALSE
    /\ UNCHANGED <<routerVars, ring, group, closed, batch, turn, turns, barged, tail,
                   pending, letIn>>

FinishReply ==
    /\ loop = "flush" /\ speaking
    /\ loop' = "groups" /\ speaking' = FALSE /\ early' = FALSE /\ StoreGate(TRUE)
    /\ UNCHANGED <<browser, arbitration, queues, ring, group, closed, batch, turn, turns,
                   barged, tail, pending, letIn>>

\* Asked to sleep at the end of a reply, or an error.
SessionEnds ==
    /\ loop \in {"asr", "gap", "flush"}
    /\ loop' = "over"
    /\ UNCHANGED <<routerVars, ring, group, early, closed, batch, turn, turns, barged, speaking,
                   tail, pending, letIn>>

Listen == Drain \/ ProcessFrame \/ FramesDone \/ GroupsDone \/ TakeGroup \/ NotWorthy \/ Worthy
Reply == \/ DrainInGap \/ PlanReply \/ GapWaits \/ GapInterrupted \/ GapReady
         \/ AudioOver \/ PlayMore \/ FinishReply
Session == Listen \/ Reply \/ SessionEnds

(***************************************************************************)
(* The microphones, and time.                                              *)
(***************************************************************************)
\* Pete can be heard while his audio comes out.
Heard == IF loop = "play" THEN Sounds ELSE {"quiet", "user"}

Microphones ==
    /\ loop # "over"
    /\ \E sound \in Heard : AdmitAudio(sound) \/ Capture(sound)
    /\ UNCHANGED sessionVars

\* A request; one that opens a microphone while Pete is heard lets him in.
Route ==
    /\ loop # "over"
    /\ Request \/ SendAudio
    /\ letIn' = (letIn \/ (loop = "play" /\ (browser' \/ native')))
    /\ UNCHANGED <<loop, ring, group, early, closed, batch, turn, turns, barged, speaking, tail,
                   pending>>

TailExpires ==
    /\ tail /\ loop \notin {"play", "over"}
    /\ tail' = FALSE
    /\ UNCHANGED <<routerVars, loop, ring, group, early, closed, batch, turn, turns, barged,
                   speaking, pending, letIn>>

Next == Session \/ Microphones \/ Route \/ TailExpires
Spec == Init /\ [][Next]_vars

\* The session's thread runs, the deadline of the gap passes (SIMPLEX_TURN_GAP_MS)
\* and audio comes to an end, because a flush is limited to 30 s.  Nothing makes
\* the users speak.
FairSpec ==
    /\ Spec
    /\ WF_vars(DrainInGap \/ ProcessFrame \/ GapWaits \/ GapInterrupted \/ AudioOver)
    /\ WF_vars(PlanReply)
    /\ SF_vars(GapReady)
    /\ SF_vars(FinishReply)

(***************************************************************************)
(* Properties.                                                             *)
(***************************************************************************)
\* Pete never hears himself as a user unless a browser had a microphone on, or
\* turned one on, while he was heard: closing the native gate before the first
\* sound is enough, whatever waits in the queues.
PeteHeardOnlyIfLetIn ==
    "pete" \in {group} \cup ToSet(closed) => letIn

\* Pete begins to speak while a user's breath group is open only if the group
\* was open before the gap: speech that begins in the gap stops him.
TalksOverOnlyEarlyGroups ==
    loop \in {"play", "flush"} /\ group # "none" => early

\* While the session listens to users it is not deaf: neither the end of a reply
\* nor one that speech in the gap cancels leaves the self-hearing window open
\* without an end.
NotDeafWhenListening ==
    loop \in {"drain", "frames", "groups", "asr"} => ~speaking

\* Events are never buffered for a turn while those of another turn are still
\* buffered: "unexpected live trace turn rollover without commit/discard"
\* (debug_assert in LiveTraceRecorder::buffer).  The code breaks it: speech in the
\* gap of the reply to one group is buffered for the next turn, and the next
\* group of the drain for the turn of the drain.
NoRollover == [][pending # 0 => pending' \in {0, pending}]_vars

\* That is the only way it is broken: the events of one turn are discarded for
\* those of another only while the later groups of one drain are taken, which
\* share its turn id.
RollsOverOnlyInBatch ==
    [][pending # 0 /\ pending' \notin {0, pending} => batch' > 1]_vars

\* The session keeps its own gate closed only from the first sound of a reply to
\* the end of its flush: a gate that is closed at any other place of the loop was
\* closed by a request.
GateIsGivenBack ==
    loop \notin {"play", "flush", "over"} /\ ~native => lastStore = "router"

\* A reply that is begun ends, and then the session's own gate is open unless a
\* request closed it.
ListensAgain ==
    loop = "gap" ~> \/ loop = "over"
                    \/ loop = "groups" /\ (native \/ lastStore = "router")
=============================================================================
