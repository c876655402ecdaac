----------------------------- MODULE DuplexTurn -----------------------------
(***************************************************************************)
(* Yielding the floor in the full-duplex runtime: the loop of run_continue *)
(* and its DuplexTurnController, in                                        *)
(* src/cli/commands/continue_generation/mod.rs, with the mouth they drive  *)
(* (MouthWorker).  The generation is only the source of what Pete says     *)
(* next; its thread and its session are in LlmSession.                     *)
(*                                                                         *)
(* main is the place of the main thread in one turn of its loop:           *)
(*   "top"      draining the mouth's events                                *)
(*   "ear"      reading the ear's events; "observed" after each of them    *)
(*   "dispatch" polling the generation and handling what it produced       *)
(*   "wait"     the generation is over, its speech is still to be spoken   *)
(*                                                                         *)
(* Time: an Instant is kept as what the code asks of it.  sustained says   *)
(* that pause_after has passed since external_speech_started_at; listen    *)
(* and gap are the two deadlines, "none", "running" or "due".              *)
(***************************************************************************)
EXTENDS MouthWorker

CONSTANT Vocabulary  \* what the generation may produce: Sayings and Controls

\* "Say", "SayOver" (interrupt: true), "SayNothing" (nothing speakable is left
\* of it), and the playback controls.
Sayings == {"Say", "SayOver", "SayNothing"}

ASSUME VocabularyAssumption == Vocabulary \subseteq Sayings \cup Controls

VARIABLES main,
          externalSpeech,   \* external_speech_active
          sustained,        \* elapsed >= pause_after
          pausedForSpeech,  \* paused_for_external_speech
          listen,           \* listen_deadline
          gap,              \* turn_gap_deadline
          holding,          \* holding_turn_gap_speech
          earOpen,          \* the ear's segmenter has a breath group open
          autoControl       \* history: what the controller sent in its last step

controllerVars == <<externalSpeech, sustained, pausedForSpeech, listen, gap, holding>>
duplexVars == <<mouthVars, main, controllerVars, earOpen, autoControl>>

Deadlines == {"none", "running", "due"}

TypeOK ==
    /\ MouthTypeOK
    /\ main \in {"top", "ear", "observed", "dispatch", "wait", "over"}
    /\ externalSpeech \in BOOLEAN /\ sustained \in BOOLEAN
    /\ pausedForSpeech \in BOOLEAN /\ holding \in BOOLEAN
    /\ listen \in Deadlines /\ gap \in Deadlines
    /\ earOpen \in BOOLEAN
    /\ autoControl \in Controls \cup {"none"}

Init ==
    /\ MouthInit
    /\ main = "top"
    /\ externalSpeech = FALSE /\ sustained = FALSE /\ pausedForSpeech = FALSE
    /\ listen = "none" /\ gap = "none" /\ holding = FALSE
    /\ earOpen = FALSE /\ autoControl = "none"

\* Bounds: an ear event is read and an output handled only when the mouth has
\* few messages in flight (HasRoom), and the controller polls when the mouth is
\* not far behind.
MouthKeepsUp == Len(cmds) < MaxInFlight

(***************************************************************************)
(* The clock.                                                              *)
(***************************************************************************)
OverlapLasts == externalSpeech /\ ~sustained /\ sustained' = TRUE /\ UNCHANGED <<listen, gap>>
ListenExpires == listen = "running" /\ listen' = "due" /\ UNCHANGED <<sustained, gap>>
GapExpires == gap = "running" /\ gap' = "due" /\ UNCHANGED <<sustained, listen>>

TimePasses ==
    /\ OverlapLasts \/ ListenExpires \/ GapExpires
    /\ autoControl' = "none"
    /\ UNCHANGED <<mouthVars, main, earOpen, externalSpeech, pausedForSpeech, holding>>

(***************************************************************************)
(* DuplexTurnController.                                                   *)
(***************************************************************************)
\* Mutant: every overlap event restarts the clock.
SpeechBeginsAnew == externalSpeech' = TRUE /\ sustained' = FALSE /\ UNCHANGED <<listen, gap>>

\* mark_external_speech_started
SpeechBegins ==
    /\ externalSpeech' = TRUE
    /\ sustained' = (externalSpeech /\ sustained)
    /\ UNCHANGED <<listen, gap>>

\* Mutant: the listen window is not armed when the speech stops.
SpeechStopsQuietly ==
    /\ externalSpeech' = FALSE /\ sustained' = FALSE
    /\ gap' = "running" /\ UNCHANGED listen

\* mark_external_speech_stopped
SpeechStops ==
    /\ externalSpeech' = FALSE /\ sustained' = FALSE
    /\ IF pausedForSpeech THEN listen' = "running" /\ UNCHANGED gap
                          ELSE gap' = "running" /\ UNCHANGED listen

\* A transcript arms the turn gap unless a deadline, past or not, is there.
TranscriptArrives ==
    /\ gap' = IF ~externalSpeech /\ gap = "none" THEN "running" ELSE gap
    /\ UNCHANGED <<externalSpeech, sustained, listen>>

PeteIsHeard == wpc \in {"top", "drain"} /\ ~streamPaused

\* observe_ear_event: the ear's events in the order its threads send them.
\* Overlap is heard against Pete's own voice, while it plays.
ObserveEar ==
    /\ main = "ear" /\ main' = "observed" /\ HasRoom
    /\ \/ ~earOpen /\ earOpen' = TRUE /\ SpeechBegins
       \/ earOpen /\ earOpen' = FALSE /\ SpeechStops
       \/ PeteIsHeard /\ SpeechBegins /\ UNCHANGED earOpen
       \/ TranscriptArrives /\ UNCHANGED earOpen
    /\ autoControl' = "none"
    /\ UNCHANGED <<mouthVars, pausedForSpeech, holding>>

\* The decisions of next_action, in its order.
HoldDecides == holding /\ (externalSpeech \/ gap = "due")
MustYield == ~HoldDecides /\ externalSpeech /\ ~pausedForSpeech /\ sustained
\* Mutant: the listen window only ever clears.
ListenNeverResumes == ~HoldDecides /\ pausedForSpeech /\ listen = "due" /\ externalSpeech
ListenDecides == ~HoldDecides /\ pausedForSpeech /\ listen = "due"

\* Mutant: the hold is not forgotten.
ForgetsAllButHold == pausedForSpeech' = FALSE /\ listen' = "none" /\ UNCHANGED holding

Forget == pausedForSpeech' = FALSE /\ listen' = "none" /\ holding' = FALSE

\* send_duplex_turn_control
AutoControl(op) == SendControl(op) /\ autoControl' = op

\* pending_mouth_utterances == 0: the pause is forgotten, the mouth is not told.
NothingToYield ==
    /\ pending = 0
    /\ Forget
    /\ autoControl' = "none"
    /\ UNCHANGED <<cmds, gap>>

\* pause_for_external_speech
YieldFloor ==
    /\ pending > 0 /\ MustYield
    /\ pausedForSpeech' = TRUE /\ listen' = "running"
    /\ AutoControl("Pause")
    /\ UNCHANGED <<gap, holding>>

\* resume_after_external_speech
ResumeSpeech ==
    /\ pending > 0 /\ (HoldDecides \/ ListenDecides)
    /\ ~externalSpeech
    /\ Forget /\ gap' = "none"
    /\ AutoControl("Resume")

\* clear_after_external_speech; the generation is restarted too.
ClearSpeech ==
    /\ pending > 0 /\ (HoldDecides \/ ListenDecides)
    /\ externalSpeech
    /\ Forget /\ gap' = "none"
    /\ AutoControl("Shutup")

LeaveFloor ==
    /\ pending > 0 /\ ~HoldDecides /\ ~MustYield /\ ~ListenDecides
    /\ autoControl' = "none"
    /\ UNCHANGED <<cmds, pausedForSpeech, listen, gap, holding>>

ControllerPolls ==
    /\ MouthKeepsUp
    /\ NothingToYield \/ YieldFloor \/ ResumeSpeech \/ ClearSpeech \/ LeaveFloor
    /\ UNCHANGED <<worker, evs, callerVars, externalSpeech, sustained, earOpen>>

\* poll after each ear event, and once more when the ear has no more.
PollAfterEvent == main = "observed" /\ main' = "ear" /\ ControllerPolls
PollAtEnd == main = "ear" /\ main' = "dispatch" /\ ControllerPolls

(***************************************************************************)
(* What the generation produced.                                           *)
(***************************************************************************)
\* prepare_runtime_action: speech is held back while somebody speaks, and in the
\* quiet gap after a turn.
MustWait == externalSpeech /\ ~pausedForSpeech
MustHold == ~MustWait /\ gap = "running" /\ ~pausedForSpeech
PauseFirst == IF MustWait \/ MustHold THEN <<Control("Pause")>> ELSE <<>>

HoldBack ==
    /\ pausedForSpeech' = (pausedForSpeech \/ MustWait \/ MustHold)
    /\ listen' = IF MustWait THEN "none" ELSE listen
    /\ holding' = (holding \/ MustHold)
    /\ autoControl' = IF MustWait \/ MustHold THEN "Pause" ELSE "none"
    /\ UNCHANGED gap

DispatchSay == HoldBack /\ SubmitSpeech(PauseFirst)

\* Nothing speakable: the controller prepares all the same.
DispatchSayNothing ==
    /\ HoldBack /\ cmds' = cmds \o PauseFirst
    /\ UNCHANGED <<submitted, pending>>

\* interrupt: true lifts the pause.
DispatchSayOver ==
    IF pausedForSpeech
      THEN /\ Forget /\ gap' = "none" /\ autoControl' = "Resume"
           /\ SubmitSpeech(<<Control("Resume")>>)
      ELSE /\ SubmitSpeech(<<>>) /\ autoControl' = "none"
           /\ UNCHANGED <<pausedForSpeech, listen, holding, gap>>

\* Pete's own pause(), resume() and shutup(): the controller is not told.
DispatchControl(op) ==
    /\ SendControl(op)
    /\ autoControl' = "none"
    /\ UNCHANGED <<submitted, pending, pausedForSpeech, listen, gap, holding>>

\* While the mouth speaks the generation is throttled and not polled.
Throttled == pending > 0 /\ ~playbackPaused

\* One output; more of the same batch may follow.
Dispatch ==
    /\ main = "dispatch" /\ ~Throttled /\ HasRoom
    /\ main' \in {"dispatch", "top"}
    /\ \/ "Say" \in Vocabulary /\ DispatchSay
       \/ "SayNothing" \in Vocabulary /\ DispatchSayNothing
       \/ "SayOver" \in Vocabulary /\ DispatchSayOver
       \/ \E op \in Vocabulary \cap Controls : DispatchControl(op)
    /\ UNCHANGED <<worker, evs, playbackPaused, caller, externalSpeech, sustained, earOpen>>

\* Throttled, or the generation has produced nothing.
NothingPolled ==
    /\ main = "dispatch" /\ main' = "top"
    /\ autoControl' = "none"
    /\ UNCHANGED <<mouthVars, controllerVars, earOpen>>

GenerationOver ==
    /\ main = "dispatch" /\ ~Throttled
    /\ main' = "wait"
    /\ autoControl' = "none"
    /\ UNCHANGED <<mouthVars, controllerVars, earOpen>>

(***************************************************************************)
(* The mouth's events, and the end of the program.                         *)
(***************************************************************************)
LoopTop ==
    /\ main = "top" /\ ~ErrorIn(evs) /\ main' = "ear"
    /\ TakeEvents
    /\ autoControl' = "none"
    /\ UNCHANGED <<cmds, worker, submitted, caller, controllerVars, earOpen>>

\* drain_mouth_events_without_llm: only the count is kept.
WaitForMouth ==
    /\ main = "wait" /\ pending > 0 /\ evs # <<>> /\ ~ErrorIn(evs)
    /\ pending' = CountedOff(pending, evs) /\ evs' = <<>>
    /\ autoControl' = "none"
    /\ UNCHANGED <<cmds, worker, submitted, playbackPaused, caller, main, controllerVars, earOpen>>

NextGeneration ==
    /\ main = "wait" /\ pending = 0
    /\ main' = "top"
    /\ autoControl' = "none"
    /\ UNCHANGED <<mouthVars, controllerVars, earOpen>>

\* The loop is left and the mouth dropped: with an error of stdin, the mouth, the
\* ear, the session or the generation at the places that ask for them; while
\* speech is waited for only with one of the mouth's; after that also because the
\* generation was cancelled or cannot be restarted.
Over ==
    /\ \/ main \in {"top", "ear", "observed", "dispatch"}
       \/ main = "wait" /\ (ErrorIn(evs) \/ pending = 0)
    /\ main' = "over" /\ Close
    /\ autoControl' = "none"
    /\ UNCHANGED <<worker, evs, submitted, pending, playbackPaused, controllerVars, earOpen>>

MainLoop ==
    \/ LoopTop \/ ObserveEar \/ PollAfterEvent \/ PollAtEnd \/ Dispatch \/ NothingPolled
    \/ GenerationOver \/ WaitForMouth \/ NextGeneration \/ Over

Mouth ==
    /\ WorkerStep \/ AudioPlays
    /\ autoControl' = "none"
    /\ UNCHANGED <<main, controllerVars, earOpen>>

Next == MainLoop \/ Mouth \/ TimePasses

Spec == Init /\ [][Next]_duplexVars

\* The threads run, the deadlines pass, and the ear has no endless backlog.
FairSpec ==
    /\ Spec
    /\ WF_duplexVars(MainLoop) /\ SF_duplexVars(PollAtEnd)
    /\ WF_duplexVars(WorkerStep /\ Mouth) /\ WF_duplexVars(AudioPlays /\ Mouth)
    /\ SF_duplexVars((PlaybackStarts \/ SynthesisFails) /\ Mouth)
    /\ WF_duplexVars(TimePasses)
-----------------------------------------------------------------------------
\* The flag stands for an overlap that became no breath group, or outlived it:
\* only the end of a group takes it back.
OverlapLeft == externalSpeech /\ ~earOpen

\* A pause that nothing is going to end - no listen window, no hold and nobody
\* in a breath group - has one cause: Pete wanted to speak while the flag of such
\* an overlap stood.  The pause is taken at four places, by poll and by what is
\* about to be said, and each leaves something else behind to end it.
StuckOnlyByOverlap ==
    pausedForSpeech /\ listen = "none" /\ ~holding /\ ~earOpen => OverlapLeft

\* Speech is held in the turn gap only while the gap can still end, and only
\* when the mouth was told to pause.
HoldHasDeadline == holding => gap # "none" /\ pausedForSpeech

\* Playback is paused first; the queue is cleared only from a pause, and only
\* while somebody still speaks (docs/irl-duplex-smoke-test.md, lines 37 to 39).
PauseBeforeClear == [][autoControl' = "Shutup" => pausedForSpeech /\ externalSpeech]_duplexVars

\* What the controller sends alternates: it pauses only when it remembers no
\* pause, and then remembers one; it resumes or clears only from a pause that it
\* remembers, and then forgets it.
ControlsAlternate ==
    [][/\ autoControl' = "Pause" => ~pausedForSpeech /\ pausedForSpeech'
       /\ autoControl' \in {"Resume", "Shutup"} => pausedForSpeech /\ ~pausedForSpeech'
      ]_duplexVars

\* When the loop is left, with an error or without, the mouth's thread has
\* returned or will find its Shutdown; before that nothing tells it to go.
LeavingShutsDown ==
    /\ main = "over" /\ wpc # "exited" => ShutdownIn(cmds)
    /\ main # "over" => wpc # "exited" /\ ~ShutdownIn(cmds)

\* As long as the loop keeps reading the ear: when nobody speaks any more, the
\* controller does not stay in a pause, however the pauses, deadlines, holds
\* and new utterances followed each other.
PauseEnds == <>[]~externalSpeech /\ []<>(main = "ear") => []<>~pausedForSpeech

\* As long as the loop keeps reading the ear: speech that lasts while Pete is
\* speaking gets the floor, unless Pete or the speaker ends before.
YieldsToSustained ==
    []<>(main = "ear") =>
        (externalSpeech /\ sustained /\ pending > 0
            ~> pausedForSpeech \/ ~externalSpeech \/ pending = 0)

\* As long as the loop keeps reading the ear: when nobody is really heard any
\* more, in an open breath group, a pause that saw somebody speak ends, whether
\* the flag then tells of the silence or is left standing by an overlap.
PauseEndsAfterSpeech ==
    <>[]~earOpen /\ []<>(main = "ear") => (pausedForSpeech /\ earOpen ~> ~pausedForSpeech)
-----------------------------------------------------------------------------
\* "Time to listen after an auto-pause before clearing or resuming TTS"
\* (src/cli/args.rs): a pause the controller sent is followed by a resume or a
\* clear, or the mouth is not paused.
AutoPauseEnds ==
    autoControl = "Pause" ~> \/ autoControl \in {"Resume", "Shutup"}
                             \/ ~paused /\ cmds = <<>>
                             \/ main = "over"
=============================================================================
