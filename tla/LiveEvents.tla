------------------------------ MODULE LiveEvents ------------------------------
(***************************************************************************)
(* The broadcast of live trace events to browsers: SseBroadcaster in       *)
(* src/live_trace.rs and the connection thread that streams from it        *)
(* (handle_sse in src/web/server.rs).                                      *)
(*                                                                         *)
(* An event is emitted in two critical sections, one for the history and   *)
(* one for the senders; a browser subscribes in two, in the same order.    *)
(* Emitters are the session's thread and the connection threads that       *)
(* broadcast camera frames.  An event is who emitted it and its number.    *)
(***************************************************************************)
EXTENDS Integers, Sequences, SequencesExt

CONSTANTS Emitters, Browsers,
          MaxEvents  \* bound: events of one emitter

ASSUME MaxEventsAssumption == MaxEvents \in Nat

VARIABLES history,   \* SseBroadcaster::history
          senders,   \* SseBroadcaster::senders
          inbox,     \* what was sent to a browser's receiver, in order
          stream,    \* the browser's connection
          emitting,  \* an event recorded in the history and not yet sent
          emitted,   \* history: number of events of an emitter
          replayed,  \* history: how much of a browser's inbox is replay
          missed     \* history: events sent while the browser was replaying

vars == <<history, senders, inbox, stream, emitting, emitted, replayed, missed>>

Events == Emitters \X (1 .. MaxEvents)
None == <<>>

TypeOK ==
    /\ history \in Seq(Events)
    /\ senders \subseteq Browsers
    /\ inbox \in [Browsers -> Seq(Events)]
    /\ stream \in [Browsers -> {"away", "replaying", "open", "closed"}]
    /\ emitting \in [Emitters -> Events \cup {None}]
    /\ emitted \in [Emitters -> 0 .. MaxEvents]
    /\ replayed \in [Browsers -> Nat]
    /\ missed \in [Browsers -> SUBSET Events]

Init ==
    /\ history = <<>> /\ senders = {}
    /\ inbox = [b \in Browsers |-> <<>>]
    /\ stream = [b \in Browsers |-> "away"]
    /\ emitting = [e \in Emitters |-> None]
    /\ emitted = [e \in Emitters |-> 0]
    /\ replayed = [b \in Browsers |-> 0]
    /\ missed = [b \in Browsers |-> {}]

(***************************************************************************)
(* emit: first half under the lock of the history, second half under the   *)
(* lock of the senders.                                                    *)
(***************************************************************************)
\* Mutant: the number is read before it is counted up.
RecordNumberedLate(e) ==
    /\ emitting[e] = None /\ emitted[e] < MaxEvents
    /\ emitted' = [emitted EXCEPT ![e] = @ + 1]
    /\ emitting' = [emitting EXCEPT ![e] = <<e, emitted[e]>>]
    /\ history' = Append(history, emitting'[e])
    /\ UNCHANGED <<senders, inbox, stream, replayed, missed>>

Record(e) ==
    /\ emitting[e] = None /\ emitted[e] < MaxEvents
    /\ emitted' = [emitted EXCEPT ![e] = @ + 1]
    /\ emitting' = [emitting EXCEPT ![e] = <<e, emitted'[e]>>]
    /\ history' = Append(history, emitting'[e])
    /\ UNCHANGED <<senders, inbox, stream, replayed, missed>>

\* Senders whose receiver is gone are dropped.
Connected == {b \in senders : stream[b] # "closed"}

\* Mutant: a bounded receiver that is full is passed over.
BroadcastSome(e) ==
    /\ emitting[e] # None
    /\ \E some \in SUBSET Connected :
          inbox' = [b \in Browsers |-> IF b \in some THEN Append(inbox[b], emitting[e])
                                                     ELSE inbox[b]]
    /\ senders' = Connected
    /\ missed' = [b \in Browsers |-> IF stream[b] = "replaying" THEN missed[b] \cup {emitting[e]}
                                                               ELSE missed[b]]
    /\ emitting' = [emitting EXCEPT ![e] = None]
    /\ UNCHANGED <<history, stream, emitted, replayed>>

Broadcast(e) ==
    /\ emitting[e] # None
    /\ inbox' = [b \in Browsers |-> IF b \in Connected THEN Append(inbox[b], emitting[e])
                                                       ELSE inbox[b]]
    /\ senders' = Connected
    /\ missed' = [b \in Browsers |-> IF stream[b] = "replaying" THEN missed[b] \cup {emitting[e]}
                                                               ELSE missed[b]]
    /\ emitting' = [emitting EXCEPT ![e] = None]
    /\ UNCHANGED <<history, stream, emitted, replayed>>

(***************************************************************************)
(* subscribe, and the connection that reads from the receiver until a      *)
(* write fails.                                                            *)
(***************************************************************************)
\* Mutant: only the newest event is replayed.
ReplayLast(b) ==
    /\ stream[b] = "away"
    /\ stream' = [stream EXCEPT ![b] = "replaying"]
    /\ inbox' = [inbox EXCEPT ![b] = IF history = <<>> THEN <<>> ELSE <<Last(history)>>]
    /\ replayed' = [replayed EXCEPT ![b] = Len(inbox'[b])]
    /\ UNCHANGED <<history, senders, emitting, emitted, missed>>

Replay(b) ==
    /\ stream[b] = "away"
    /\ stream' = [stream EXCEPT ![b] = "replaying"]
    /\ inbox' = [inbox EXCEPT ![b] = history]
    /\ replayed' = [replayed EXCEPT ![b] = Len(history)]
    /\ UNCHANGED <<history, senders, emitting, emitted, missed>>

Register(b) ==
    /\ stream[b] = "replaying"
    /\ stream' = [stream EXCEPT ![b] = "open"]
    /\ senders' = senders \cup {b}
    /\ UNCHANGED <<history, inbox, emitting, emitted, replayed, missed>>

Hangup(b) ==
    /\ stream[b] = "open"
    /\ stream' = [stream EXCEPT ![b] = "closed"]
    /\ UNCHANGED <<history, senders, inbox, emitting, emitted, replayed, missed>>

Emit == \E e \in Emitters : Record(e) \/ Broadcast(e)
Browse == \E b \in Browsers : Replay(b) \/ Register(b) \/ Hangup(b)

Next == Emit \/ Browse
Spec == Init /\ [][Next]_vars

(***************************************************************************)
(* Properties.                                                             *)
(***************************************************************************)
Got(b, event) == \E i \in DOMAIN inbox[b] : inbox[b][i] = event
Recorded(event) == \E i \in DOMAIN history : history[i] = event
Settled(event) == Recorded(event) /\ emitting[event[1]] # event

\* An open stream has every event whose emission is over, replayed or live,
\* but for those that were sent while it was replaying: nothing is lost
\* outside of that window, whatever the emitters do.
LosesOnlyWhileReplaying ==
    \A b \in Browsers, event \in Events :
        stream[b] = "open" /\ Settled(event) => Got(b, event) \/ event \in missed[b]

Live(b) == SubSeq(inbox[b], replayed[b] + 1, Len(inbox[b]))

\* Two open streams agree on what is live: the one that came later has the end
\* of what the other has, in the same order.
StreamsAgree ==
    \A b, c \in Browsers :
        stream[b] = "open" /\ stream[c] = "open" =>
            IsSuffix(Live(b), Live(c)) \/ IsSuffix(Live(c), Live(b))

\* "Create a new receiver that will receive the session history and future
\* events" (live_trace.rs): an open stream has every event whose emission is
\* over.
HistoryAndFuture ==
    \A b \in Browsers, event \in Events :
        stream[b] = "open" /\ Settled(event) => Got(b, event)
=============================================================================
