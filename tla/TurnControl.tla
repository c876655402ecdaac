---------------------------- MODULE TurnControl ----------------------------
(***************************************************************************)
(* Who has the floor: BreathGroupSegmenter (src/hearing/breath.rs) turns   *)
(* VAD frames into hearing events, TurnTracker (src/mind/turn.rs) and      *)
(* ConversationController (src/mind/controller.rs) turn the events into    *)
(* the turn state and the interruption decisions, and the half-duplex      *)
(* session (src/cli/commands/live_half_duplex.rs) tells the controller     *)
(* when Pete thinks, starts and stops speaking.                            *)
(*                                                                         *)
(* One thread runs all of it.  Frame is the call of the segmenter for one  *)
(* frame; the events it returns are handed to the controller one by one    *)
(* (Deliver) before anything else happens.                                 *)
(*                                                                         *)
(* Data abstraction: interruption_started_at_ms is kept as the time since  *)
(* then (overlapAge), capped at StopAt, beyond which the code no longer    *)
(* distinguishes values; a group's id is left out, one group being open at *)
(* a time.                                                                 *)
(***************************************************************************)
EXTENDS Integers, Sequences

CONSTANTS OpenAfter,      \* open_after_speech_frames
          CloseAfter,     \* close_after_silence_frames
          MaxGroupFrames, \* max_group_frames: {} is None, {n} is Some(n)
          IgnoreBlip,     \* ignore_blip_ms
          FadeAt,         \* fade_threshold_ms
          StopAt,         \* stop_threshold_ms
          FrameGaps       \* possible times from one processed frame to the next

ASSUME SegmenterAssumption == OpenAfter \in Nat /\ CloseAfter \in Nat /\ MaxGroupFrames \subseteq Nat
ASSUME PolicyAssumption == /\ IgnoreBlip \in Nat /\ FadeAt \in Nat /\ StopAt \in Nat
                           /\ IgnoreBlip < StopAt
ASSUME FrameGapsAssumption == FrameGaps \subseteq Nat

VARIABLES groupOpen,     \* active_group is Some
          speechFrames,  \* speech_frames
          silenceFrames, \* silence_frames
          groupFrames,   \* active_group_frames
          events,        \* hearing events of this frame not yet delivered
          turn,          \* TurnTracker::state
          overlapAge,    \* time since interruption_started_at_ms, or NoOverlap
          faded,         \* interruption_faded
          recorded,      \* interruption_recorded
          command,       \* mouth_command of the last decision
          session,       \* where the half-duplex session is
          heard,         \* a closed group waits to be transcribed
          phase,         \* history: what a listener of the events concludes
          beat,          \* history: flips with every event delivered
          voicedFor,     \* history: length of the unbroken run of speech frames
          reports        \* history: InterruptionDetected packets since Pete spoke

segmenter == <<groupOpen, speechFrames, silenceFrames, groupFrames>>
controller == <<turn, overlapAge, faded, recorded, command>>
vars == <<segmenter, events, controller, session, heard, phase, beat, voicedFor, reports>>

NoOverlap == -1
Silent == -1

TurnStates == {"Idle", "UserSpeaking", "UserPauseLikelyContinuing", "UserTurnComplete",
               "PeteThinking", "PeteSpeaking", "PeteInterrupted"}
HearingEvents == {"SpeechStarted", "SpeechContinued", "PauseStarted",
                  "BreathGroupOpened", "BreathGroupClosed"}

Listener == INSTANCE HearingStream

TypeOK ==
    /\ groupOpen \in BOOLEAN
    /\ speechFrames \in Nat /\ silenceFrames \in Nat /\ groupFrames \in Nat
    /\ events \in Seq(HearingEvents)
    /\ turn \in TurnStates
    /\ overlapAge \in {NoOverlap} \cup 0..StopAt
    /\ faded \in BOOLEAN /\ recorded \in BOOLEAN
    /\ command \in {"none", "FadeOut", "StopNow"}
    /\ session \in {"listening", "thinking", "speaking"}
    /\ heard \in BOOLEAN
    /\ phase \in Listener!Phases /\ beat \in {0, 1}
    /\ voicedFor \in {Silent} \cup 0..StopAt
    /\ reports \in Nat

Init ==
    /\ groupOpen = FALSE /\ speechFrames = 0 /\ silenceFrames = 0 /\ groupFrames = 0
    /\ events = <<>>
    /\ turn = "Idle" /\ overlapAge = NoOverlap
    /\ faded = FALSE /\ recorded = FALSE /\ command = "none"
    /\ session = "listening" /\ heard = FALSE
    /\ phase = "quiet" /\ beat = 0 /\ voicedFor = Silent /\ reports = 0

(***************************************************************************)
(* The segmenter: one speech or silence frame.                             *)
(***************************************************************************)
Capped(ms) == IF ms > StopAt THEN StopAt ELSE ms
Older(age, ms) == IF age = -1 THEN -1 ELSE Capped(age + ms)

TimedOut(frames) == \E max \in MaxGroupFrames : frames >= max

\* Mutant: speech does not count towards the length of the group.
SpeechIsNotCounted ==
    /\ groupOpen
    /\ silenceFrames' = 0
    /\ events' = <<"SpeechContinued">>
    /\ UNCHANGED <<groupOpen, speechFrames, groupFrames>>

\* process, speech: a group goes on, and closes when it has become too long.
SpeechInGroup ==
    /\ groupOpen
    /\ silenceFrames' = 0
    /\ IF TimedOut(groupFrames + 1)
         THEN /\ groupOpen' = FALSE /\ groupFrames' = 0 /\ speechFrames' = 0
              /\ events' = <<"SpeechContinued", "BreathGroupClosed">>
         ELSE /\ groupFrames' = groupFrames + 1
              /\ events' = <<"SpeechContinued">>
              /\ UNCHANGED <<groupOpen, speechFrames>>

\* process, speech outside a group: enough consecutive frames open one.
SpeechOutsideGroup ==
    /\ ~groupOpen
    /\ silenceFrames' = 0
    /\ IF speechFrames + 1 >= OpenAfter
         THEN /\ groupOpen' = TRUE /\ groupFrames' = 1 /\ speechFrames' = 0
              /\ events' = <<"SpeechStarted", "BreathGroupOpened">>
         ELSE /\ speechFrames' = speechFrames + 1
              /\ events' = <<>>
              /\ UNCHANGED <<groupOpen, groupFrames>>

\* Mutant: every silent frame announces the pause.
PauseEveryFrame == <<"PauseStarted">>

PauseEvents == IF silenceFrames = 0 THEN <<"PauseStarted">> ELSE <<>>
SilenceCloses == silenceFrames + 1 >= CloseAfter \/ TimedOut(groupFrames + 1)

\* Mutant: silent frames are counted down.
SilenceCountsDown ==
    /\ groupOpen
    /\ speechFrames' = 0
    /\ events' = PauseEvents
    /\ groupFrames' = groupFrames + 1 /\ silenceFrames' = silenceFrames - 1
    /\ UNCHANGED groupOpen

\* process, silence: it only counts inside a group.
SilenceInGroup ==
    /\ groupOpen
    /\ speechFrames' = 0
    /\ IF SilenceCloses
         THEN /\ groupOpen' = FALSE /\ groupFrames' = 0 /\ silenceFrames' = 0
              /\ events' = PauseEvents \o <<"BreathGroupClosed">>
         ELSE /\ groupFrames' = groupFrames + 1 /\ silenceFrames' = silenceFrames + 1
              /\ events' = PauseEvents
              /\ UNCHANGED groupOpen

SilenceOutsideGroup ==
    /\ ~groupOpen
    /\ speechFrames' = 0
    /\ events' = <<>>
    /\ UNCHANGED <<groupOpen, silenceFrames, groupFrames>>

SpeechFrame(ms) ==
    /\ events = <<>>
    /\ SpeechInGroup \/ SpeechOutsideGroup
    /\ overlapAge' = Older(overlapAge, ms)
    /\ voicedFor' = IF voicedFor = Silent THEN 0 ELSE Capped(voicedFor + ms)
    /\ command' = "none"
    /\ UNCHANGED <<turn, faded, recorded, session, heard, phase, beat, reports>>

SilenceFrame(ms) ==
    /\ events = <<>>
    /\ SilenceInGroup \/ SilenceOutsideGroup
    /\ overlapAge' = Older(overlapAge, ms)
    /\ voicedFor' = Silent
    /\ command' = "none"
    /\ UNCHANGED <<turn, faded, recorded, session, heard, phase, beat, reports>>

(***************************************************************************)
(* The controller: one hearing event.                                      *)
(***************************************************************************)
PeteOutputting == turn \in {"PeteSpeaking", "PeteInterrupted"}

\* An event changes what the listener of HearingStream concludes.
Heard(event, next) ==
    /\ events # <<>> /\ Head(events) = event
    /\ events' = Tail(events)
    /\ phase' = next /\ beat' = 1 - beat
    /\ UNCHANGED <<segmenter, session, voicedFor>>

ResetInterruption == overlapAge' = NoOverlap /\ faded' = FALSE

OnSpeechStarted ==
    /\ Heard("SpeechStarted", "starting")
    /\ turn' = IF PeteOutputting THEN turn ELSE "UserSpeaking"
    /\ overlapAge' = IF PeteOutputting /\ overlapAge = NoOverlap THEN 0 ELSE overlapAge
    /\ command' = "none"
    /\ UNCHANGED <<faded, recorded, heard, reports>>

OnGroupOpened ==
    /\ Heard("BreathGroupOpened", "voiced")
    /\ command' = "none"
    /\ UNCHANGED <<turn, overlapAge, faded, recorded, heard, reports>>

\* Mutants: a pause leaves an interruption standing; a pause keeps its clock.
PauseKeepsInterrupted ==
    /\ Heard("PauseStarted", "paused")
    /\ turn' = IF turn = "UserSpeaking" THEN "UserPauseLikelyContinuing" ELSE turn
    /\ ResetInterruption
    /\ command' = "none"
    /\ UNCHANGED <<recorded, heard, reports>>
PauseKeepsClock ==
    /\ Heard("PauseStarted", "paused")
    /\ turn' = IF turn \in {"UserSpeaking", "PeteInterrupted"}
                 THEN "UserPauseLikelyContinuing" ELSE turn
    /\ command' = "none"
    /\ UNCHANGED <<overlapAge, faded, recorded, heard, reports>>

OnPauseStarted ==
    /\ Heard("PauseStarted", "paused")
    /\ turn' = IF turn \in {"UserSpeaking", "PeteInterrupted"}
                 THEN "UserPauseLikelyContinuing" ELSE turn
    /\ ResetInterruption
    /\ command' = "none"
    /\ UNCHANGED <<recorded, heard, reports>>

OnGroupClosed ==
    /\ Heard("BreathGroupClosed", "quiet")
    /\ turn' = IF turn \in {"UserSpeaking", "UserPauseLikelyContinuing", "PeteInterrupted"}
                 THEN "UserTurnComplete" ELSE turn
    /\ ResetInterruption
    /\ heard' = (heard \/ session = "listening")  \* the gap monitor drops closed groups
    /\ command' = "none"
    /\ UNCHANGED <<recorded, reports>>

\* Mutant: every decision is reported.
RecordAlways == reports' = reports + 1 /\ recorded' = TRUE

\* record_interruption_packet_once
RecordOnce ==
    /\ reports' = IF recorded THEN reports ELSE reports + 1
    /\ recorded' = TRUE

MustStop == overlapAge > IgnoreBlip /\ overlapAge >= StopAt
MustFade == overlapAge > IgnoreBlip /\ overlapAge < StopAt /\ overlapAge >= FadeAt /\ ~faded

\* interruption_decision
StopNow ==
    /\ MustStop
    /\ turn' = "PeteInterrupted" /\ command' = "StopNow"
    /\ RecordOnce
    /\ ResetInterruption

FadeOut ==
    /\ MustFade
    /\ turn' = "PeteInterrupted" /\ command' = "FadeOut"
    /\ RecordOnce
    /\ faded' = TRUE
    /\ UNCHANGED overlapAge

NoDecision ==
    /\ ~MustStop /\ ~MustFade
    /\ command' = "none"
    /\ UNCHANGED <<turn, overlapAge, faded, recorded, reports>>

OnSpeechContinued ==
    /\ Heard("SpeechContinued", "voiced")
    /\ StopNow \/ FadeOut \/ NoDecision
    /\ UNCHANGED heard

Deliver == OnSpeechStarted \/ OnGroupOpened \/ OnPauseStarted \/ OnGroupClosed \/ OnSpeechContinued

(***************************************************************************)
(* The half-duplex session, between two frames.                            *)
(***************************************************************************)
\* An empty transcript: the session goes back to listening.
DiscardTurn ==
    /\ events = <<>> /\ session = "listening" /\ heard
    /\ heard' = FALSE
    /\ UNCHANGED <<segmenter, events, controller, session, phase, beat, voicedFor, reports>>

PeteThinkingStarted ==
    /\ events = <<>> /\ session = "listening" /\ heard
    /\ session' = "thinking" /\ heard' = FALSE
    /\ turn' = "PeteThinking"
    /\ UNCHANGED <<segmenter, events, overlapAge, faded, recorded, command, phase, beat,
                   voicedFor, reports>>

\* The user speaks in the gap before playback; the controller is not told.
GapCancelled ==
    /\ events = <<>> /\ session = "thinking"
    /\ session' = "listening"
    /\ UNCHANGED <<segmenter, events, controller, heard, phase, beat, voicedFor, reports>>

PeteSpeechStarted ==
    /\ events = <<>> /\ session \in {"thinking", "speaking"}
    /\ session' = "speaking"
    /\ turn' = "PeteSpeaking"
    /\ ResetInterruption
    /\ recorded' = FALSE /\ reports' = 0
    /\ UNCHANGED <<segmenter, events, command, heard, phase, beat, voicedFor>>

PeteSpeechFinished ==
    /\ events = <<>> /\ session \in {"thinking", "speaking"}
    /\ session' = "listening"
    /\ turn' = IF turn \in {"PeteSpeaking", "PeteThinking"} THEN "Idle" ELSE turn
    /\ ResetInterruption
    /\ UNCHANGED <<segmenter, events, recorded, command, heard, phase, beat, voicedFor, reports>>

Session == DiscardTurn \/ PeteThinkingStarted \/ GapCancelled \/ PeteSpeechStarted
           \/ PeteSpeechFinished

Frame == \E ms \in FrameGaps : SpeechFrame(ms) \/ SilenceFrame(ms)

Next == Frame \/ Deliver \/ Session

Spec == Init /\ [][Next]_vars
\* The capture thread keeps producing frames, and the loop processes them.
FairSpec == Spec /\ WF_vars(Frame) /\ WF_vars(Deliver)
-----------------------------------------------------------------------------
\* "Pete was interrupted" is only ever the state of a user who is speaking at
\* this very moment: a pause, a closed group, Pete's next words or the end of
\* his turn leave it, whatever frames and calls came in between.
InterruptedOnlyDuringSpeech ==
    turn = "PeteInterrupted" /\ events = <<>> => groupOpen /\ silenceFrames = 0

\* A barge-in clock never survives the speech it timed: a blip before a pause
\* cannot be added to a later one to reach a threshold.
OverlapClockOnlyDuringSpeech ==
    overlapAge # NoOverlap /\ events = <<>> => groupOpen /\ silenceFrames = 0

\* Pete is cut off only by speech that lasted, without a silent frame, for the
\* threshold of the decision (interruption_policy_ignores_brief_user_blips).
CutOffOnlyBySustainedSpeech ==
    /\ command = "StopNow" => voicedFor >= StopAt
    /\ command = "FadeOut" => voicedFor >= FadeAt /\ voicedFor > IgnoreBlip

\* A stretch of Pete's speech is reported as interrupted at most once, even
\* when a fade is followed by a stop or by a second barge-in.
ReportedOncePerSpeech == reports <= 1

\* A listener that only sees event names is never out of step with the
\* segmenter once the events of a frame are delivered.
ListenerInStep ==
    events = <<>> => phase = (IF ~groupOpen THEN "quiet"
                              ELSE IF silenceFrames = 0 THEN "voiced" ELSE "paused")

\* The events obey the protocol of HearingStream: no group opens twice, no
\* pause starts twice, nothing continues outside a group.
EventProtocol == Listener!Spec

\* An open group is neither too long nor silent for too long: it would have been
\* closed by the frame that made it so.  Only the frame that opens it is not
\* asked.
GroupIsShort ==
    groupOpen => /\ groupFrames = 1 \/ ~TimedOut(groupFrames)
                 /\ silenceFrames = 0 \/ silenceFrames < CloseAfter

\* Every frame, silent or not, makes an open group longer by one or closes it,
\* and nothing else does either.
GroupAges ==
    [][groupOpen => /\ Frame => ~groupOpen' \/ groupFrames' = groupFrames + 1
                    /\ ~Frame => UNCHANGED segmenter]_vars

\* However long the user goes on, a group closes when max_group_frames is set:
\* it counts the silent frames too, so alternating speech and pauses cannot
\* hold the group open.
GroupEventuallyCloses == groupOpen ~> ~groupOpen
=============================================================================
