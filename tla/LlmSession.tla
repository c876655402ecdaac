----------------------------- MODULE LlmSession -----------------------------
(***************************************************************************)
(* The generation of the full-duplex runtime and how run_continue uses it: *)
(* the thread of one generation (LlamaGenerationWorker in                  *)
(* src/mind/llama_cpp.rs) and its two channels, ContinueLlmSession that    *)
(* starts, cancels and restarts it, and the calls of the main loop         *)
(* (src/cli/commands/continue_generation/mod.rs).                          *)
(*                                                                         *)
(* worker is the place of the generation's thread:                         *)
(*   "prompt"   decoding the prompt                                        *)
(*   "head"     at the head of its loop                                    *)
(*   "controls" draining its controls; "held" waiting while paused         *)
(*   "sample"   about to sample a token                                    *)
(*   "returned" run has returned, its receiver of controls is gone         *)
(*   "sent"     the last event is sent                                     *)
(* main is the place of the main thread: the parts of its loop ("top",     *)
(* "append", "throttle", "poll", "dispatch", "wait"), the loop that        *)
(* cancels a generation ("cancelling"), the pause of a new one             *)
(* ("started"), and its ends.                                              *)
(*                                                                         *)
(* The mouth is seen as the main thread sees it: "silent" (no utterance    *)
(* pending), "speaking", or "paused" (pending, and playback paused).       *)
(* The text of tokens and packets is left out; whether a packet is         *)
(* deferred or appended depends on it and is a choice.                     *)
(***************************************************************************)
EXTENDS Integers, Sequences, SequencesExt

CONSTANT MaxBacklog  \* bound: messages in a channel when another is sent

ASSUME BacklogAssumption == MaxBacklog \in Nat

VARIABLES worker,      \* place of the generation's thread
          held,        \* its paused flag
          outcome,     \* what it returned
          controls,    \* control channel
          events,      \* event channel
          cancel,      \* its cancel flag
          active,      \* the engine still knows the session's generation
          main,        \* place of the main thread
          after,       \* where it goes on after a restart
          batch,       \* events being dispatched: their end, or "tokens"
          throttled,   \* llm_paused_for_mouth and ContinueLlmSession::paused
          mouth,       \* pending_mouth_utterances and mouth_playback_paused
          interrupted, \* Ctrl-C
          cancelled,   \* Ctrl-C was passed on
          failure      \* why run_continue failed

generation == <<worker, held, outcome, controls, events, cancel>>
session == <<active, main, after, batch, throttled, mouth, cancelled, failure>>
vars == <<generation, session, interrupted>>

Endings == {"End", "Error"}

TypeOK ==
    /\ worker \in {"prompt", "head", "controls", "held", "sample", "returned", "sent"}
    /\ held \in BOOLEAN /\ cancel \in BOOLEAN /\ active \in BOOLEAN
    /\ outcome \in Endings \cup {"none"}
    /\ controls \in Seq({"Append", "Hold", "Release"})
    /\ events \in Seq({"Token"} \cup Endings)
    /\ main \in {"top", "append", "throttle", "poll", "dispatch", "wait", "cancelling", "started",
                 "done", "failed"}
    /\ after \in {"top", "append", "dispatch"}
    /\ batch \in {"tokens"} \cup Endings
    /\ throttled \in BOOLEAN
    /\ mouth \in {"silent", "speaking", "paused"}
    /\ interrupted \in BOOLEAN /\ cancelled \in BOOLEAN
    /\ failure \in {"none", "append", "generation", "input"}

\* The state of a generation that was just started.
Fresh ==
    /\ worker = "prompt" /\ held = FALSE /\ outcome = "none"
    /\ controls = <<>> /\ events = <<>> /\ cancel = FALSE

Init ==
    /\ Fresh /\ active = TRUE
    /\ main = "top" /\ after = "top" /\ batch = "tokens"
    /\ throttled = FALSE /\ mouth = "silent"
    /\ interrupted = FALSE /\ cancelled = FALSE /\ failure = "none"

(***************************************************************************)
(* The generation's thread.                                                *)
(***************************************************************************)
Goto(place) == worker' = place
\* Mutant: how the thread ended is lost.
ReturnsUntold(how) == worker' = "returned" /\ UNCHANGED outcome

Returns(how) == worker' = "returned" /\ outcome' = how

\* The prompt is decoded, or the generation fails on it.
DecodePrompt ==
    /\ worker = "prompt"
    /\ \/ Goto("head") /\ UNCHANGED outcome
       \/ Returns("Error")
    /\ UNCHANGED <<held, controls, events, cancel>>

\* Cancelled, at its limit of tokens or of context, or one more token.
LoopHead ==
    /\ worker = "head"
    /\ \/ Returns("End")
       \/ ~cancel /\ Goto("controls") /\ UNCHANGED outcome
    /\ UNCHANGED <<held, controls, events, cancel>>

\* Mutant: a pause can only be taken, not lifted.
TakeHoldOnly ==
    /\ worker \in {"controls", "held"} /\ controls # <<>>
    /\ worker = "held" => held
    /\ controls' = Tail(controls)
    /\ held' = (held \/ Head(controls) = "Hold")
    /\ UNCHANGED <<worker, outcome, events, cancel>>

\* One control: a pause takes effect, an append is decoded or does not fit.
TakeControl ==
    /\ worker \in {"controls", "held"} /\ controls # <<>>
    /\ worker = "held" => held
    /\ controls' = Tail(controls)
    /\ held' = CASE Head(controls) = "Hold" -> TRUE
                 [] Head(controls) = "Release" -> FALSE
                 [] OTHER -> held
    /\ \/ UNCHANGED <<worker, outcome>>
       \/ Head(controls) = "Append" /\ Returns("Error")
    /\ UNCHANGED <<events, cancel>>

ControlsDrained ==
    /\ worker = "controls" /\ controls = <<>>
    /\ Goto("held")
    /\ UNCHANGED <<held, outcome, controls, events, cancel>>

\* Mutant: a paused generation does not look at its cancel flag.
WaitIgnoresCancel ==
    /\ worker = "held" /\ ~held
    /\ Goto("sample") /\ UNCHANGED outcome
    /\ UNCHANGED <<held, controls, events, cancel>>

\* wait_while_paused ends when the pause does, or when it is cancelled.
WaitOver ==
    /\ worker = "held" /\ (~held \/ cancel)
    /\ IF cancel THEN Returns("End") ELSE Goto("sample") /\ UNCHANGED outcome
    /\ UNCHANGED <<held, controls, events, cancel>>

\* A token with or without text, the end of the text, or a failure to decode.
Sample ==
    /\ worker = "sample"
    /\ \/ /\ Goto("head")
          /\ \/ Len(events) < MaxBacklog /\ events' = Append(events, "Token")
             \/ UNCHANGED events
          /\ UNCHANGED outcome
       \/ (\E how \in Endings : Returns(how)) /\ UNCHANGED events
    /\ UNCHANGED <<held, controls, cancel>>

SendEnd ==
    /\ worker = "returned"
    /\ Goto("sent") /\ events' = Append(events, outcome)
    /\ UNCHANGED <<held, outcome, controls, cancel>>

Generate ==
    /\ \/ DecodePrompt \/ LoopHead \/ TakeControl \/ ControlsDrained \/ WaitOver \/ Sample
       \/ SendEnd
    /\ UNCHANGED <<session, interrupted>>

(***************************************************************************)
(* ContinueLlmSession.                                                     *)
(***************************************************************************)
\* A control is sent as long as the thread has not returned and the engine
\* knows the generation; otherwise the caller fails.
Accepts == active /\ worker \notin {"returned", "sent"}
Send(control) == controls' = Append(controls, control)
Refused == ~Accepts /\ main' = "failed" /\ failure' = "append"

\* Mutant: a new generation is not told of the throttle.
StartUnthrottled ==
    /\ worker' = "prompt" /\ held' = FALSE /\ outcome' = "none"
    /\ controls' = <<>> /\ events' = <<>> /\ cancel' = FALSE
    /\ active' = TRUE /\ main' = after'

\* start_with_compact_prompt
Start ==
    /\ worker' = "prompt" /\ held' = FALSE /\ outcome' = "none"
    /\ controls' = <<>> /\ events' = <<>> /\ cancel' = FALSE
    /\ active' = TRUE
    /\ main' = IF throttled THEN "started" ELSE after'

\* A generation that starts while the throttle is on is paused at once.
PauseStarted ==
    /\ main = "started"
    /\ \/ Accepts /\ Send("Hold") /\ main' = after /\ UNCHANGED failure
       \/ Refused /\ UNCHANGED controls
    /\ UNCHANGED <<worker, held, outcome, events, cancel, active, after, batch, throttled, mouth,
                   cancelled, interrupted>>

\* append_prompt_packet at one place of the loop: sent, or near a full context
\* the generation is cancelled to be restarted, or refused.
AppendPacket(place) ==
    /\ main = place /\ Len(controls) < MaxBacklog
    /\ \/ Accepts /\ Send("Append") /\ UNCHANGED <<cancel, main, after, failure>>
       \/ /\ active /\ cancel' = TRUE /\ main' = "cancelling" /\ after' = place
          /\ UNCHANGED <<controls, failure>>
       \/ Refused /\ UNCHANGED <<controls, cancel, after>>
    /\ UNCHANGED <<worker, held, outcome, events, active, batch, throttled, mouth, cancelled,
                   interrupted>>

\* restart_with_compact_prompt: events are dropped until the last one arrives.
CancelPolls ==
    /\ main = "cancelling" /\ events # <<>>
    /\ after' = after
    /\ IF Last(events) \in Endings
         THEN Start
         ELSE events' = <<>> /\ UNCHANGED <<worker, held, outcome, controls, cancel, active, main>>
    /\ UNCHANGED <<batch, throttled, mouth, cancelled, failure, interrupted>>

(***************************************************************************)
(* The loop of run_continue.                                               *)
(***************************************************************************)
CtrlC ==
    /\ ~interrupted /\ interrupted' = TRUE
    /\ UNCHANGED <<generation, session>>

\* Ctrl-C is passed on once, and the mouth's events are drained.
LoopTop ==
    /\ main = "top" /\ main' = "append"
    /\ cancelled' = interrupted
    /\ cancel' = (cancel \/ (interrupted /\ ~cancelled))
    /\ mouth' \in IF mouth = "silent" THEN {"silent"} ELSE {"silent", "speaking", "paused"}
    /\ UNCHANGED <<worker, held, outcome, controls, events, active, after, batch, throttled,
                   failure, interrupted>>

AppendsDone ==
    /\ main = "append" /\ main' = "throttle"
    /\ UNCHANGED <<generation, active, after, batch, throttled, mouth, cancelled, failure,
                   interrupted>>

\* Stdin, the ear or the mouth reports an error.
InputFails ==
    /\ main \in {"append", "wait"}
    /\ main' = "failed" /\ failure' = "input"
    /\ UNCHANGED <<generation, active, after, batch, throttled, mouth, cancelled, interrupted>>

MustHold == mouth = "speaking"
SetPaused == IF MustHold THEN "Hold" ELSE "Release"

Throttle ==
    /\ main = "throttle"
    /\ throttled = MustHold \/ (Accepts /\ Len(controls) < MaxBacklog)
    /\ controls' = IF throttled = MustHold THEN controls ELSE Append(controls, SetPaused)
    /\ throttled' = MustHold
    /\ main' = IF throttled' THEN "top" ELSE "poll"
    /\ UNCHANGED <<worker, held, outcome, events, cancel, active, after, batch, mouth, cancelled,
                   failure, interrupted>>

ThrottleRefused ==
    /\ main = "throttle" /\ throttled # MustHold
    /\ Refused
    /\ UNCHANGED <<generation, active, after, batch, throttled, mouth, cancelled, interrupted>>

\* Engine poll: a generation whose last event is polled is joined and forgotten.
Poll ==
    /\ main = "poll"
    /\ IF events = <<>>
         THEN main' = "top" /\ UNCHANGED <<batch, active>>
         ELSE /\ main' = "dispatch"
              /\ batch' = IF Last(events) \in Endings THEN Last(events) ELSE "tokens"
              /\ active' = (active /\ batch' = "tokens")
    /\ events' = <<>>
    /\ UNCHANGED <<worker, held, outcome, controls, cancel, after, throttled, mouth, cancelled,
                   failure, interrupted>>

\* An utterance for the mouth.
Speak ==
    /\ main = "dispatch" /\ mouth = "silent"
    /\ mouth' = "speaking"
    /\ UNCHANGED <<generation, active, main, after, batch, throttled, cancelled, failure,
                   interrupted>>

DispatchEnds ==
    /\ main = "dispatch"
    /\ main' = CASE batch = "tokens" -> "top" [] batch = "End" -> "wait" [] OTHER -> "failed"
    /\ failure' = IF batch = "Error" THEN "generation" ELSE failure
    /\ UNCHANGED <<generation, active, after, batch, throttled, mouth, cancelled, interrupted>>


\* The mouth is waited for; then the next generation starts, or the loop ends.
WaitOverForMouth ==
    /\ main = "wait"
    /\ mouth' = "silent"
    /\ after' = "top"
    /\ IF cancelled THEN main' = "done" /\ UNCHANGED <<generation, active>> ELSE Start
    /\ UNCHANGED <<batch, throttled, cancelled, failure, interrupted>>

\* Mutant: the engine joins without cancelling.
DropJoinsOnly == main \in {"done", "failed"} /\ active /\ UNCHANGED vars

\* run_continue returns: the engine cancels the generation it still has and
\* joins its thread.
DropEngine ==
    /\ main \in {"done", "failed"} /\ active /\ ~cancel
    /\ cancel' = TRUE
    /\ UNCHANGED <<worker, held, outcome, controls, events, session, interrupted>>

MainLoop ==
    \/ DropEngine \/ LoopTop \/ AppendPacket("append") \/ AppendsDone \/ Throttle \/ ThrottleRefused \/ Poll
    \/ Speak \/ AppendPacket("dispatch") \/ DispatchEnds \/ CancelPolls \/ PauseStarted
    \/ InputFails \/ WaitOverForMouth

Next == Generate \/ MainLoop \/ CtrlC

Spec == Init /\ [][Next]_vars

\* The generation's thread runs, and the main loop goes on: a bounded number of
\* packets is appended in one turn of it.
FairSpec ==
    /\ Spec
    /\ WF_vars(Generate)
    /\ WF_vars(MainLoop) /\ SF_vars(AppendsDone) /\ SF_vars(DispatchEnds)
-----------------------------------------------------------------------------
\* The pause the generation will have when it has read its controls: that of
\* the last control that is not an append.
OnlyAppends(from) == \A i \in from .. Len(controls) : controls[i] = "Append"
HeldInTheEnd ==
    \/ held /\ OnlyAppends(1)
    \/ \E i \in 1 .. Len(controls) : controls[i] = "Hold" /\ OnlyAppends(i + 1)

\* The throttle is never lost: whatever generation runs, when it has read its
\* controls it is paused exactly if the main loop thinks so, across restarts.
ThrottleIsDelivered ==
    Accepts /\ main \notin {"started", "cancelling"} => (HeldInTheEnd <=> throttled)

\* The loop asks the engine only for a generation it still has, so neither poll
\* nor cancel finds it gone: the last event is polled once and acted on.
PollsOnlyKnown == main \in {"top", "append", "throttle", "poll", "cancelling"} => active

\* A restart waits for what will come: the generation was told to end, and when
\* its thread has ended its last event is in the channel.
RestartWillEnd ==
    main = "cancelling" => /\ cancel
                           /\ worker = "sent" => events # <<>> /\ Last(events) \in Endings

\* Generations do not overlap: another is started only when the thread of the
\* one before has sent its last event, so no event or control of one generation
\* can be taken for one of the next.
Restarts ==
    /\ main \in {"cancelling", "wait"} /\ main' \in {"top", "append", "dispatch", "started"}
StartsAfterTheLast == [][Restarts => worker = "sent" /\ worker' = "prompt"]_vars

\* Restarting always comes back, also from a generation that is paused,
\* finished or in the middle of its controls.
RestartComesBack == main = "cancelling" ~> main # "cancelling"

\* A generation is not left paused: once the loop stops throttling for good, no
\* thread waits in a pause any more.
ThrottleIsLifted == <>[]~throttled => <>[]~(worker = "held" /\ held)

\* Leaving the program never hangs in the join of the generation's thread.
LeavingJoins == main \in {"done", "failed"} ~> ~active \/ worker = "sent"

=============================================================================
