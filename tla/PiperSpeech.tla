----------------------------- MODULE PiperSpeech -----------------------------
(***************************************************************************)
(* The handle of the speech synthesizer and its worker thread:             *)
(* PiperTextToSpeech and run_piper_worker in src/mouth/piper.rs.  The       *)
(* worker takes one command at a time from an unbounded channel and is     *)
(* deaf to the others while it synthesizes; audio and errors come back     *)
(* through channels of their own.                                          *)
(*                                                                         *)
(* Of a unit of speech only the request that asked for it is kept, and its *)
(* audio is known by that request.                                         *)
(***************************************************************************)
EXTENDS Integers, Sequences, SequencesExt

CONSTANTS MaxReplies,  \* bound: replies of a session
          MaxUnits     \* bound: units of speech of one reply

ASSUME ReplyAssumption == MaxReplies \in Nat \ {0} /\ MaxUnits \in Nat \ {0}

VARIABLES commands,  \* channel of PiperCommands
          working,   \* request being synthesized, Idle, or Gone
          audio,     \* channel of audio, one batch for each request
          failed,    \* number of errors in the channel of errors
          swallowed  \* history: requests that a stop discarded unheard

piperVars == <<commands, working, audio, failed, swallowed>>

\* The n-th unit of a reply; markers (backchannels, discourse markers) are the
\* units that a cache may keep.
Requests == [reply : 0 .. MaxReplies, n : 0 .. MaxUnits + 1, kind : {"words", "marker"}]
Signal(kind) == [reply |-> 0, n |-> 0, kind |-> kind]
Commands == Requests \cup {Signal("stop"), Signal("shutdown")}
Idle == Signal("idle")
Gone == Signal("gone")

PiperTypeOK ==
    /\ commands \in Seq(Commands)
    /\ working \in Requests \cup {Idle, Gone}
    /\ audio \in Seq(Requests)
    /\ failed \in Nat
    /\ swallowed \subseteq Requests

PiperInit ==
    /\ commands = <<>> /\ working = Idle /\ audio = <<>> /\ failed = 0 /\ swallowed = {}

\* What was asked for and is neither heard nor lost.
Waiting == (ToSet(commands) \cap Requests) \cup ({working} \cap Requests)
Outstanding == Waiting \cup ToSet(audio)

(***************************************************************************)
(* The worker.                                                             *)
(***************************************************************************)
\* Mutant: whatever comes is taken for a request.
BeginAnything ==
    /\ working = Idle /\ commands # <<>>
    /\ working' = Head(commands) /\ commands' = Tail(commands)
    /\ UNCHANGED <<audio, failed, swallowed>>

BeginSynthesis ==
    /\ working = Idle /\ commands # <<>> /\ Head(commands) \in Requests
    /\ working' = Head(commands) /\ commands' = Tail(commands)
    /\ UNCHANGED <<audio, failed, swallowed>>

\* Mutant: after an error the worker drains its channel as after a stop.
EndSynthesisDraining ==
    /\ working \in Requests
    /\ working' = Idle
    /\ \/ audio' = Append(audio, working) /\ UNCHANGED <<commands, failed, swallowed>>
       \/ /\ failed' = failed + 1 /\ commands' = <<>>
          /\ swallowed' = swallowed \cup (ToSet(commands) \cap Requests)
          /\ UNCHANGED audio

EndSynthesis ==
    /\ working \in Requests
    /\ working' = Idle
    /\ \/ audio' = Append(audio, working) /\ UNCHANGED failed
       \/ failed' = failed + 1 /\ UNCHANGED audio
    /\ UNCHANGED <<commands, swallowed>>

\* Mutant: a Shutdown that the drain comes upon is discarded with the rest.
TakeStopAndShutdown ==
    /\ working = Idle /\ commands # <<>> /\ Head(commands) = Signal("stop")
    /\ commands' = <<>>
    /\ swallowed' = swallowed \cup (ToSet(commands) \cap Requests)
    /\ UNCHANGED <<working, audio, failed>>

\* A stop discards every command behind it; a Shutdown among them is obeyed.
TakeStop ==
    /\ working = Idle /\ commands # <<>> /\ Head(commands) = Signal("stop")
    /\ commands' = <<>>
    /\ working' = IF Signal("shutdown") \in ToSet(commands) THEN Gone ELSE working
    /\ swallowed' = swallowed \cup (ToSet(commands) \cap Requests)
    /\ UNCHANGED <<audio, failed>>

TakeShutdown ==
    /\ working = Idle /\ commands # <<>> /\ Head(commands) = Signal("shutdown")
    /\ working' = Gone /\ commands' = Tail(commands)
    /\ UNCHANGED <<audio, failed, swallowed>>

Worker == BeginSynthesis \/ EndSynthesis \/ TakeStop \/ TakeShutdown

(***************************************************************************)
(* The handle.                                                             *)
(***************************************************************************)
\* What is left of the text may be nothing that can be spoken.
PiperEnqueue(request) ==
    /\ \/ commands' = Append(commands, request)
       \/ UNCHANGED commands
    /\ UNCHANGED <<working, audio, failed, swallowed>>

\* Mutant: the audio is read and left in its channel.
PiperPollPeeks == failed = 0 /\ UNCHANGED <<commands, working, audio, failed, swallowed>>

\* An error comes before the audio that waits.
PiperPoll == failed = 0 /\ audio' = <<>> /\ UNCHANGED <<commands, working, failed, swallowed>>

\* Mutant: the audio that has arrived is left in its channel.
PiperStopKeepsAudio ==
    /\ commands' = Append(commands, Signal("stop"))
    /\ UNCHANGED <<working, audio, failed, swallowed>>

PiperStop ==
    /\ audio' = <<>> /\ commands' = Append(commands, Signal("stop"))
    /\ UNCHANGED <<working, failed, swallowed>>

\* Dropping the handle sends Shutdown and joins the worker.
PiperDrop == commands' = Append(commands, Signal("shutdown"))
=============================================================================
