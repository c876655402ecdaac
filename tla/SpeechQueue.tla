---------------------------- MODULE SpeechQueue ----------------------------
(***************************************************************************)
(* What the mouth promises to whoever enqueues speech (abstract            *)
(* specification): the utterances are numbered as they are enqueued and    *)
(* have their turns one at a time, in that order and none twice; a clear   *)
(* drops every utterance that waits and leaves the turn to end on its own. *)
(* The turn is what is reported; whose audio is heard in it is told by     *)
(* MouthVoice.                                                             *)
(***************************************************************************)
EXTENDS Integers, Sequences

CONSTANT Nobody

VARIABLES last,     \* the utterance enqueued last
          waiting,  \* the utterances enqueued and not begun, oldest first
          speaking  \* the utterance whose turn it is, or Nobody

Init == last = 0 /\ waiting = <<>> /\ speaking = Nobody

Enqueue == last' = last + 1 /\ waiting' = Append(waiting, last + 1) /\ UNCHANGED speaking
Begin == /\ waiting # <<>> /\ speaking = Nobody
         /\ speaking' = Head(waiting) /\ waiting' = Tail(waiting) /\ UNCHANGED last
End   == speaking # Nobody /\ speaking' = Nobody /\ UNCHANGED <<last, waiting>>
Clear == waiting' = <<>> /\ UNCHANGED <<last, speaking>>

Next == Enqueue \/ Begin \/ End \/ Clear

Spec == Init /\ [][Next]_<<last, waiting, speaking>>
-----------------------------------------------------------------------------
\* Utterances that are behind: their turn has begun or they were dropped.
Behind == last - Len(waiting)

\* What waits are the newest utterances, without a gap: none is dropped from
\* the middle and none comes back.
NewestWait == \A i \in 1..Len(waiting) : waiting[i] = Behind + i

\* An utterance that begins is the one after all that are behind, so none has a
\* second turn or one out of order; none that is behind comes back.
TurnsInOrder ==
    [][/\ Behind' >= Behind
       /\ speaking' \notin {speaking, Nobody} => speaking' = Behind + 1 /\ Behind' = Behind + 1
      ]_<<last, waiting, speaking>>
=============================================================================
