---------------------------- MODULE MouthWorker ----------------------------
(***************************************************************************)
(* The mouth of the full-duplex runtime, ContinueMouth and                 *)
(* run_continue_mouth_worker in src/cli/commands/continue_generation: a    *)
(* worker thread that takes commands from an unbounded channel, speaks one *)
(* utterance at a time, obeys commands that arrive while it speaks, and    *)
(* reports through an unbounded event channel.  The caller counts the      *)
(* utterances that are still to be reported (pending_mouth_utterances).    *)
(*                                                                         *)
(* wpc is the place of the worker thread:                                  *)
(*   "idle"      at the head of its loop                                   *)
(*   "begin"     handing the utterance to the synthesizer                  *)
(*   "collect"   draining commands while the synthesizer works             *)
(*   "poll"      commands drained, asking the synthesizer for audio        *)
(*   "top"       at the head of the playback loop                          *)
(*   "drain"     draining commands while the audio plays                   *)
(*   "clearing"  emptying its queue and the command channel                *)
(*   "stopping"  about to report that the utterance was interrupted        *)
(*   "exited"    the thread has returned                                   *)
(* played and streamPaused are the two atomics shared with the audio       *)
(* callback: the cursor has reached the end, and playback_paused.          *)
(*                                                                         *)
(* The events SyntheticQueued, SyntheticSynthesisStarted and               *)
(* SyntheticPlaybackStarted are only logged and are left out.              *)
(*                                                                         *)
(* An utterance is followed through its turn: from the command that asks   *)
(* for it to the event that reports it over.  Whose audio is heard in the  *)
(* turn is the synthesizer's doing and is not told here; MouthVoice puts   *)
(* the two together.                                                       *)
(***************************************************************************)
EXTENDS Integers, Sequences

CONSTANTS MaxUtterances, \* bound: utterances the caller enqueues
          MaxInFlight    \* bound: messages in the two unbounded channels when one is sent

ASSUME BoundsAssumption == MaxUtterances \in Nat /\ MaxInFlight \in Nat

VARIABLES cmds,         \* command channel
          wpc,          \* place of the worker thread
          queue,        \* the worker's own pending queue
          current,      \* utterance whose turn it is, or Nobody
          paused,       \* the worker's paused flag
          streamPaused, \* playback_paused
          played,       \* playback_cursor has reached the end
          evs,          \* event channel
          submitted,    \* utterances enqueued so far (their ids are 1, 2, ...)
          pending,      \* pending_mouth_utterances
          playbackPaused, \* mouth_playback_paused, the caller's view of the mouth
          caller        \* "open", or "closed" once ContinueMouth was dropped

worker == <<wpc, queue, current, paused, streamPaused, played>>
mouthVars == <<cmds, worker, evs, submitted, pending, playbackPaused, caller>>

Nobody == 0
Utterances == 1..MaxUtterances
Speak(u) == [op |-> "Speak", id |-> u]
Control(op) == [op |-> op, id |-> Nobody]
Controls == {"Pause", "Resume", "Shutup"}
Commands == {Speak(u) : u \in Utterances} \cup {Control(op) : op \in Controls \cup {"Shutdown"}}

\* ContinueMouthEvent: its kind and its completed_pending_synthetic_count.
Event(kind, count) == [kind |-> kind, count |-> count]
EventKinds == {"Paused", "Resumed", "Completed", "Interrupted", "Cleared", "Error"}
Events == [kind : EventKinds, count : Nat]

MouthTypeOK ==
    /\ cmds \in Seq(Commands)
    /\ wpc \in {"idle", "begin", "collect", "poll", "top", "drain", "clearing", "stopping", "exited"}
    /\ queue \in Seq(Utterances)
    /\ current \in Utterances \cup {Nobody}
    /\ paused \in BOOLEAN /\ streamPaused \in BOOLEAN /\ played \in BOOLEAN
    /\ evs \in Seq(Events)
    /\ submitted \in 0..MaxUtterances
    /\ pending \in Nat
    /\ playbackPaused \in BOOLEAN
    /\ caller \in {"open", "closed"}

MouthInit ==
    /\ cmds = <<>> /\ evs = <<>>
    /\ wpc = "idle" /\ queue = <<>> /\ current = Nobody
    /\ paused = FALSE /\ streamPaused = FALSE /\ played = FALSE
    /\ submitted = 0 /\ pending = 0 /\ playbackPaused = FALSE /\ caller = "open"

callerVars == <<submitted, pending, playbackPaused, caller>>

(***************************************************************************)
(* The worker thread.                                                      *)
(***************************************************************************)
\* pause_mouth_playback and resume_mouth_playback report a change once.
PauseEvent  == IF paused THEN <<>> ELSE <<Event("Paused", 0)>>
ResumeEvent == IF paused THEN <<Event("Resumed", 0)>> ELSE <<>>

PausePlayback  == paused' = TRUE  /\ evs' = evs \o PauseEvent
ResumePlayback == paused' = FALSE /\ evs' = evs \o ResumeEvent

\* run_continue_mouth_synthetic begins.
BeginSynthetic(u) == current' = u /\ wpc' = "begin"

\* Mutant: the utterance stays on the queue.
TakeQueuedAgain ==
    /\ wpc = "idle" /\ queue # <<>>
    /\ BeginSynthetic(Head(queue))
    /\ UNCHANGED <<cmds, queue, paused, streamPaused, played, evs, callerVars>>

\* The worker's own queue is served before the channel.
TakeQueued ==
    /\ wpc = "idle" /\ queue # <<>>
    /\ BeginSynthetic(Head(queue))
    /\ queue' = Tail(queue)
    /\ UNCHANGED <<cmds, paused, streamPaused, played, evs, callerVars>>

Received(op) == cmds # <<>> /\ Head(cmds).op = op /\ cmds' = Tail(cmds)

TakeSpeak ==
    /\ wpc = "idle" /\ queue = <<>>
    /\ Received("Speak")
    /\ BeginSynthetic(Head(cmds).id)
    /\ UNCHANGED <<queue, paused, streamPaused, played, evs, callerVars>>

\* The synthesizer takes the utterance, or refuses it: the error is reported
\* and the worker goes on with its next command.
SynthesizerAccepts ==
    /\ wpc = "begin" /\ wpc' = "collect"
    /\ UNCHANGED <<cmds, queue, current, paused, streamPaused, played, evs, callerVars>>

SpeechFails ==
    /\ wpc' = "idle" /\ current' = Nobody
    /\ evs' = Append(evs, Event("Error", 1))
    /\ UNCHANGED <<cmds, queue, paused, streamPaused, played, callerVars>>

SynthesizerRefuses == wpc = "begin" /\ SpeechFails

\* drain_mouth_control_commands, one command: speech is put on the queue.
DrainSpeak ==
    /\ wpc \in {"collect", "drain"}
    /\ Received("Speak")
    /\ queue' = Append(queue, Head(cmds).id)
    /\ UNCHANGED <<wpc, current, paused, streamPaused, played, evs, callerVars>>

\* A control is obeyed by the idle worker and by the drain alike.
Obeys == wpc \in {"collect", "drain"} \/ (wpc = "idle" /\ queue = <<>>)

TakePause ==
    /\ Obeys /\ Received("Pause")
    /\ PausePlayback
    /\ UNCHANGED <<wpc, queue, current, streamPaused, played, callerVars>>

TakeResume ==
    /\ Obeys /\ Received("Resume")
    /\ ResumePlayback
    /\ UNCHANGED <<wpc, queue, current, streamPaused, played, callerVars>>

TakeShutup ==
    /\ Obeys /\ Received("Shutup")
    /\ ResumePlayback
    /\ wpc' = "clearing"
    /\ UNCHANGED <<queue, current, streamPaused, played, callerVars>>

\* Speech found in the channel by send_cleared_mouth_queue_event, which takes
\* one command after the other; SpeaksUpTo(commands)[n] is that of the first n.
SpeechOf(c) == IF c.op = "Speak" THEN <<c.id>> ELSE <<>>

SpeaksUpTo(commands) ==
    LET found[n \in 0..Len(commands)] ==
            IF n = 0 THEN <<>> ELSE found[n - 1] \o SpeechOf(commands[n])
    IN  found

SpeaksIn(commands) == SpeaksUpTo(commands)[Len(commands)]

\* Mutant: a clear swallows Shutdown as well.
ShutdownSwallowed(commands) == FALSE

ShutdownIn(commands) == \E i \in DOMAIN commands : commands[i].op = "Shutdown"

\* Mutant: speech still in the channel is dropped without being counted.
ClearCountsQueueOnly ==
    /\ wpc = "clearing"
    /\ evs' = Append(evs, Event("Cleared", Len(queue)))
    /\ queue' = <<>> /\ cmds' = <<>>
    /\ wpc' = IF ShutdownIn(cmds) THEN "exited"
              ELSE IF current = Nobody THEN "idle" ELSE "stopping"
    /\ UNCHANGED <<current, paused, streamPaused, played, callerVars>>

\* send_cleared_mouth_queue_event: everything in the channel is consumed, the
\* controls without effect.
ClearQueue ==
    /\ wpc = "clearing"
    /\ evs' = Append(evs, Event("Cleared", Len(queue) + Len(SpeaksIn(cmds))))
    /\ queue' = <<>> /\ cmds' = <<>>
    /\ wpc' = IF ShutdownIn(cmds) THEN "exited"
              ELSE IF current = Nobody THEN "idle" ELSE "stopping"
    /\ UNCHANGED <<current, paused, streamPaused, played, callerVars>>

\* The utterance that was stopped is reported last.
ReportInterrupted ==
    /\ wpc = "stopping"
    /\ evs' = Append(evs, Event("Interrupted", 1))
    /\ current' = Nobody /\ wpc' = "idle"
    /\ UNCHANGED <<cmds, queue, paused, streamPaused, played, callerVars>>

\* While an utterance is being spoken the queue is cleared on the way out.
TakeShutdown ==
    /\ Obeys /\ cmds # <<>> /\ Head(cmds).op = "Shutdown"
    /\ wpc' = "exited"
    /\ IF wpc = "idle"
         THEN cmds' = Tail(cmds) /\ UNCHANGED <<queue, evs>>
         ELSE /\ evs' = Append(evs, Event("Cleared", Len(queue) + Len(SpeaksIn(cmds))))
              /\ queue' = <<>> /\ cmds' = <<>>
    /\ UNCHANGED <<current, paused, streamPaused, played, callerVars>>

\* Mutant: the audio callback is told of a pause and never of its end.
DrainNeverUnpauses ==
    /\ wpc \in {"collect", "drain"} /\ cmds = <<>>
    /\ wpc' = IF wpc = "collect" THEN "poll" ELSE "top"
    /\ streamPaused' = (streamPaused \/ (wpc = "drain" /\ paused))
    /\ UNCHANGED <<cmds, queue, current, paused, played, evs, callerVars>>

CommandsDrained ==
    /\ wpc \in {"collect", "drain"} /\ cmds = <<>>
    /\ wpc' = IF wpc = "collect" THEN "poll" ELSE "top"
    /\ streamPaused' = IF wpc = "drain" THEN paused ELSE streamPaused
    /\ UNCHANGED <<cmds, queue, current, paused, played, evs, callerVars>>

\* collect_continue_mouth_audio: no audio yet, the first audio (playback begins,
\* paused or not), or an error: the 30 s timeout, the synthesizer's or the output
\* device's.  Audio is whatever the synthesizer has delivered, not necessarily
\* what it was asked for in this turn.
NoAudioYet ==
    /\ wpc = "poll" /\ wpc' = "collect"
    /\ UNCHANGED <<cmds, queue, current, paused, streamPaused, played, evs, callerVars>>

PlaybackStarts ==
    /\ wpc = "poll" /\ wpc' = "top"
    /\ streamPaused' = paused /\ played' = FALSE
    /\ UNCHANGED <<cmds, queue, current, paused, evs, callerVars>>

SynthesisFails == wpc = "poll" /\ SpeechFails

\* The audio callback plays on unless playback_paused holds it.
AudioPlays ==
    /\ wpc \in {"top", "drain"}
    /\ ~streamPaused /\ ~played
    /\ played' = TRUE
    /\ UNCHANGED <<cmds, wpc, queue, current, paused, streamPaused, evs, callerVars>>

PlaybackGoesOn ==
    /\ wpc = "top" /\ ~played /\ wpc' = "drain"
    /\ UNCHANGED <<cmds, queue, current, paused, streamPaused, played, evs, callerVars>>

PlaybackCompletes ==
    /\ wpc = "top" /\ played
    /\ evs' = Append(evs, Event("Completed", 1))
    /\ current' = Nobody /\ wpc' = "idle"
    /\ UNCHANGED <<cmds, queue, paused, streamPaused, played, callerVars>>

WorkerStep ==
    \/ TakeQueued \/ TakeSpeak \/ SynthesizerAccepts \/ SynthesizerRefuses \/ DrainSpeak \/ TakePause \/ TakeResume \/ TakeShutup
    \/ ClearQueue \/ ReportInterrupted \/ TakeShutdown \/ CommandsDrained \/ NoAudioYet
    \/ PlaybackStarts \/ SynthesisFails \/ PlaybackGoesOn \/ PlaybackCompletes

(***************************************************************************)
(* The caller's side of the two channels.                                  *)
(***************************************************************************)
HasRoom == Len(cmds) + Len(evs) < MaxInFlight

\* enqueue_runtime_event of an utterance, and pending_mouth_utterances += 1.
\* Controls that the caller sends just before go in front of the utterance.
SubmitSpeech(controls) ==
    /\ submitted < MaxUtterances
    /\ submitted' = submitted + 1
    /\ cmds' = cmds \o controls \o <<Speak(submitted + 1)>>
    /\ pending' = pending + 1

SendControl(op) == cmds' = Append(cmds, Control(op))

SaturatingSub(a, b) == IF a > b THEN a - b ELSE 0

\* What the events report, one after the other: utterances that are over.
ReportedUpTo(events) ==
    LET sum[n \in 0..Len(events)] == IF n = 0 THEN 0 ELSE sum[n - 1] + events[n].count
    IN  sum

Reported(events) == ReportedUpTo(events)[Len(events)]

\* Mutant: every event ends an utterance.
CountedOffByEach(count, events) == count - Len(events)

\* pending_mouth_utterances after the events: each saturating_sub takes its own
\* count off, together they take off the sum.
CountedOff(count, events) == SaturatingSub(count, Reported(events))

\* mouth_playback_paused after the events: every kind that is modelled sets it,
\* so the last one decides.
PausedAfter(was, events) == IF events = <<>> THEN was ELSE events[Len(events)].kind = "Paused"

ErrorIn(events) == \E i \in DOMAIN events : events[i].kind = "Error"

\* drain_mouth_events_into_llm: all events that have arrived.
TakeEvents ==
    /\ pending' = CountedOff(pending, evs)
    /\ playbackPaused' = PausedAfter(playbackPaused, evs)
    /\ evs' = <<>>

\* Drop of ContinueMouth: Shutdown is sent and the worker is joined.
Close ==
    /\ caller' = "closed"
    /\ cmds' = Append(cmds, Control("Shutdown"))

CallerSpeaks ==
    /\ caller = "open" /\ HasRoom
    /\ SubmitSpeech(<<>>)
    /\ UNCHANGED <<worker, evs, playbackPaused, caller>>

CallerControls ==
    /\ caller = "open" /\ HasRoom
    /\ \E op \in Controls : SendControl(op)
    /\ UNCHANGED <<worker, evs, callerVars>>

CallerDrains ==
    /\ caller = "open" /\ evs # <<>> /\ ~ErrorIn(evs)
    /\ TakeEvents
    /\ UNCHANGED <<cmds, worker, submitted, caller>>

\* The caller gives up: at an error event, or whenever it likes.
CallerCloses ==
    /\ caller = "open"
    /\ Close
    /\ UNCHANGED <<worker, evs, submitted, pending, playbackPaused>>

MouthNext ==
    WorkerStep \/ AudioPlays \/ CallerSpeaks \/ CallerControls \/ CallerDrains \/ CallerCloses

MouthSpec == MouthInit /\ [][MouthNext]_mouthVars

\* The worker and the audio callback run, and the synthesizer does not keep the
\* worker asking for ever (30 s timeout).
MouthFairness == /\ WF_mouthVars(WorkerStep) /\ WF_mouthVars(AudioPlays)
                 /\ SF_mouthVars(PlaybackStarts \/ SynthesisFails)
\* The caller keeps draining events and gives up at an error.
MouthFairSpec == /\ MouthSpec /\ MouthFairness
                 /\ WF_mouthVars(CallerDrains) /\ WF_mouthVars(ErrorIn(evs) /\ CallerCloses)
-----------------------------------------------------------------------------
\* Every utterance the caller still counts is in exactly one place: in the
\* channel, in the worker's queue, in its turn, or reported by an event that
\* is still to be drained.  No clear, stop, error or pause loses or doubles
\* one, so saturating_sub never saturates and the LLM is never held for
\* speech that is over.
InMouth == Len(SpeaksIn(cmds)) + Len(queue) + (IF current = Nobody THEN 0 ELSE 1)
PendingIsExact == caller = "open" => pending = InMouth + Reported(evs)

\* The turns of utterances are a queue: one at a time, in the order in which
\* they were enqueued and none twice, and every report is of the turn that ends,
\* through clears, stops and errors that take several of them at once.
Waiting == queue \o SpeaksIn(cmds)
Promise == INSTANCE SpeechQueue WITH last <- submitted, waiting <- Waiting, speaking <- current
KeepsPromise == Promise!Spec

\* Speech gets done: once the caller sends nothing more and leaves the mouth
\* unpaused, its count returns to zero, through completions, interruptions,
\* clears and errors, whatever was sent before.
SpeechEnds == <>[](cmds = <<>> /\ ~paused) => []<>(pending = 0 \/ caller = "closed")

\* What the caller may rely on at a drop: as long as the worker has not returned,
\* the Shutdown that will end it waits in the channel, whatever drains and
\* clears have come upon it.
ShutdownNotLost == caller = "closed" /\ wpc # "exited" => ShutdownIn(cmds)
=============================================================================
