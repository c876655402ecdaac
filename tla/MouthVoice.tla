----------------------------- MODULE MouthVoice -----------------------------
(***************************************************************************)
(* The mouth with its synthesizer: the worker of MouthWorker owns a handle *)
(* of Piper (run_continue_mouth_worker, src/cli/commands/                  *)
(* continue_generation/mod.rs), and what it plays is what that handle      *)
(* gives it.  MouthWorker says whose turn it is; this module says whose    *)
(* audio is heard.  The two need not be the same: neither the requests nor *)
(* the audio carry the utterance they are for, and Piper, deaf while it    *)
(* synthesizes, delivers speech that was given up in the turn of another.  *)
(*                                                                         *)
(* Each action is one of MouthWorker with what it asks of the handle.      *)
(***************************************************************************)
EXTENDS MouthWorker

VARIABLES commands, working, audio, failed, swallowed, \* those of PiperSpeech
          lastHeard, \* history: the newest utterance that was heard
          strays     \* history: utterances given up while their audio was still owed

synthesizer == <<commands, working, audio, failed, swallowed>>
history == <<lastHeard, strays>>
voiceVars == <<mouthVars, synthesizer, history>>

\* An utterance is asked for in one request.
Piper == INSTANCE PiperSpeech WITH MaxReplies <- 1, MaxUnits <- MaxUtterances

Request(u) == [reply |-> 1, n |-> u, kind |-> "words"]
Arrived == {audio[i].n : i \in DOMAIN audio}
Owed == {request.n : request \in Piper!Outstanding}

VoiceInit == MouthInit /\ Piper!PiperInit /\ lastHeard = Nobody /\ strays = {}

(***************************************************************************)
(* What the worker asks of its synthesizer.                                *)
(***************************************************************************)
StopSent == \E i \in DOMAIN commands : commands[i] = Piper!Signal("stop")

\* A second Stop behind one that was not taken is discarded by it, and so is not
\* told apart from none.  Nothing is sent to a thread that is gone.
StopSynthesizer ==
    IF working = Piper!Gone \/ StopSent
      THEN audio' = <<>> /\ UNCHANGED <<commands, working, failed, swallowed>>
      ELSE Piper!PiperStop

\* What a Stop does not prevent: the request being synthesized, and those that
\* Piper takes before it.
AheadOfStop ==
    ({working.n} \ {Nobody}) \cup
    {commands[i].n : i \in {j \in DOMAIN commands :
        \A k \in 1..j : commands[k] # Piper!Signal("stop")}}

\* Dropping the handle ends Piper's thread and waits for it.
DropSynthesizer(stop) ==
    /\ commands' = IF working = Piper!Gone THEN commands
                   ELSE commands \o stop \o <<Piper!Signal("shutdown")>>
    /\ UNCHANGED <<working, failed, swallowed>>

Ask ==
    /\ SynthesizerAccepts /\ working # Piper!Gone
    /\ Piper!PiperEnqueue(Request(current))
    /\ UNCHANGED history

\* Piper's thread is gone, and its channel closed.
AskInVain ==
    /\ SynthesizerRefuses /\ working = Piper!Gone
    /\ UNCHANGED <<synthesizer, history>>

PollsNothing ==
    /\ NoAudioYet /\ failed = 0 /\ audio = <<>>
    /\ UNCHANGED <<synthesizer, history>>

\* Everything that has arrived is played, whosever it is.
Plays ==
    /\ PlaybackStarts /\ audio # <<>> /\ Piper!PiperPoll
    /\ lastHeard' = audio[Len(audio)].n
    /\ strays' = (IF strays = {} THEN {} ELSE strays \cup {current}) \cap Owed'

\* An error of Piper's, of whatever it was asked for; no audio within 30 s; or
\* the output device refuses what was polled.
SynthesizerFailed == failed > 0 /\ failed' = failed - 1 /\ UNCHANGED <<commands, working, audio, swallowed>>
NothingInTime == failed = 0 /\ audio = <<>> /\ UNCHANGED synthesizer
DeviceFailed == audio # <<>> /\ Piper!PiperPoll

GivesUp ==
    /\ SynthesisFails
    /\ SynthesizerFailed \/ NothingInTime \/ DeviceFailed
    /\ strays' = (strays \cup {current}) \cap Owed'
    /\ UNCHANGED lastHeard

StopsSpeaking ==
    /\ TakeShutup /\ StopSynthesizer
    /\ strays' = (strays \cup ({current} \ {Nobody})) \cap AheadOfStop
    /\ UNCHANGED lastHeard

\* The thread returns: from a clear that came upon Shutdown, or at Shutdown
\* itself, which stops the synthesizer when an utterance has its turn.
Clears ==
    /\ ClearQueue
    /\ IF wpc' = "exited" THEN DropSynthesizer(<<>>) /\ UNCHANGED audio ELSE UNCHANGED synthesizer
    /\ UNCHANGED history

Leaves ==
    /\ TakeShutdown
    /\ IF wpc = "idle" THEN DropSynthesizer(<<>>) /\ UNCHANGED audio
                       ELSE DropSynthesizer(<<Piper!Signal("stop")>>) /\ audio' = <<>>
    /\ UNCHANGED history

Voiceless ==
    /\ \/ TakeQueued \/ TakeSpeak \/ DrainSpeak \/ TakePause \/ TakeResume
       \/ ReportInterrupted \/ CommandsDrained \/ PlaybackGoesOn \/ PlaybackCompletes
    /\ UNCHANGED <<synthesizer, history>>

VoiceWorker ==
    Ask \/ AskInVain \/ PollsNothing \/ Plays \/ GivesUp \/ StopsSpeaking \/ Clears \/ Leaves \/ Voiceless

\* A panic in the synthesis ends Piper's thread; the mouth is not told.
SynthesizerDies ==
    /\ working \in Piper!Requests
    /\ working' = Piper!Gone /\ commands' = <<>>
    /\ UNCHANGED <<mouthVars, audio, failed, swallowed, history>>

PiperStep == Piper!Worker /\ UNCHANGED <<mouthVars, history>>

AudioGoesOn == AudioPlays /\ UNCHANGED <<synthesizer, history>>

Caller ==
    /\ CallerSpeaks \/ CallerControls \/ CallerDrains \/ CallerCloses
    /\ UNCHANGED <<synthesizer, history>>

VoiceNext == VoiceWorker \/ PiperStep \/ SynthesizerDies \/ AudioGoesOn \/ Caller

\* The three threads run, a synthesis ends, and the worker does not ask for audio
\* for ever (30 s); the caller drains its events and gives up at an error.
VoiceSpec ==
    /\ VoiceInit /\ [][VoiceNext]_voiceVars
    /\ WF_voiceVars(VoiceWorker) /\ WF_voiceVars(PiperStep) /\ WF_voiceVars(AudioGoesOn)
    /\ SF_voiceVars(Plays \/ GivesUp)
    /\ WF_voiceVars(CallerDrains /\ Caller) /\ WF_voiceVars(ErrorIn(evs) /\ CallerCloses /\ Caller)
-----------------------------------------------------------------------------
\* What is heard is in the order in which it was enqueued and nothing is heard
\* twice, whatever was stopped, failed or came late, in whosever turn.
HeardInOrder ==
    [][wpc = "poll" /\ wpc' = "top" =>
          \A i \in DOMAIN audio : /\ audio[i].n > lastHeard
                                  /\ \A j \in 1..(i - 1) : audio[j].n < audio[i].n]_voiceVars

\* In the turn of an utterance its own audio is heard, and otherwise only audio
\* that Piper still owed when an earlier utterance was given up: stopped while
\* Piper had it in hand, timed out, or ended by an error.  What had arrived when
\* the mouth was told to stop is never heard, and neither is what was asked for
\* behind a Stop.  Audio that comes one turn late makes that of the turn late as
\* well; a stop is what puts the two in step again.
OnlyGivenUpSpeechStrays ==
    [][wpc = "poll" /\ wpc' = "top" => Arrived \subseteq {current} \cup strays]_voiceVars

\* Dropping the mouth never hangs in join: whatever the worker is doing, with a
\* paused playback, a synthesis under way or one that died, it takes Shutdown,
\* ends Piper's thread and returns.
JoinReturns == caller = "closed" ~> wpc = "exited" /\ working = Piper!Gone
=============================================================================
