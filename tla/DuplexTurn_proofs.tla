--------------------------- MODULE DuplexTurn_proofs ---------------------------
(***************************************************************************)
(* Proofs about DuplexTurn, for every vocabulary of the generation and     *)
(* every bound on utterances and on messages in flight: what may leave an  *)
(* automatic pause stuck, the order of pauses, holds, resumes and clears,  *)
(* and what the loop keeps of the mouth's promises.                        *)
(***************************************************************************)
EXTENDS DuplexTurn, MouthWorker_proofs, TLAPS

\* A pause is stuck only by an overlap, and a hold is a pause with a gap that can
\* end.  A hold is what keeps a pause from being stuck when its listen window is
\* gone, so that neither is inductive without the other.
FloorInv == StuckOnlyByOverlap /\ HoldHasDeadline

\* At first nothing is paused or held.
LEMMA InitFloor == Init => FloorInv
BY DEF Init, FloorInv, StuckOnlyByOverlap, OverlapLeft, HoldHasDeadline

\* A deadline that passes does not go away.
LEMMA TimeKeepsFloor == ASSUME FloorInv, TimePasses PROVE FloorInv'
BY DEF FloorInv, StuckOnlyByOverlap, OverlapLeft, HoldHasDeadline, TimePasses, OverlapLasts, ListenExpires, GapExpires

\* Whatever the ear reports, no pause gets stuck: speech that ends leaves the
\* listen window behind.
LEMMA EarKeepsFloor == ASSUME FloorInv, ObserveEar PROVE FloorInv'
<1> USE DEF FloorInv, StuckOnlyByOverlap, OverlapLeft, HoldHasDeadline, ObserveEar
<1>1. CASE SpeechBegins
  BY <1>1 DEF SpeechBegins
<1>2. CASE SpeechStops
  BY <1>2 DEF SpeechStops
<1>3. CASE TranscriptArrives /\ UNCHANGED earOpen
  BY <1>3 DEF TranscriptArrives
<1> QED
  BY <1>1, <1>2, <1>3

\* Polling the controller leaves no pause stuck.
LEMMA PollKeepsFloor == ASSUME FloorInv, ControllerPolls PROVE FloorInv'
<1> USE DEF FloorInv, StuckOnlyByOverlap, OverlapLeft, HoldHasDeadline, ControllerPolls, Forget
<1>1. CASE NothingToYield
  BY <1>1 DEF NothingToYield
<1>2. CASE YieldFloor
  BY <1>2 DEF YieldFloor, MustYield, HoldDecides
<1>3. CASE ResumeSpeech
  BY <1>3 DEF ResumeSpeech
<1>4. CASE ClearSpeech
  BY <1>4 DEF ClearSpeech
<1>5. CASE LeaveFloor
  BY <1>5 DEF LeaveFloor
<1> QED
  BY <1>1, <1>2, <1>3, <1>4, <1>5

\* What the generation says next: speech that is held back is held for somebody
\* who speaks, for a gap that is running, or for the flag of an overlap.
LEMMA DispatchKeepsFloor == ASSUME FloorInv, Dispatch PROVE FloorInv'
<1> USE DEF FloorInv, StuckOnlyByOverlap, OverlapLeft, HoldHasDeadline, Dispatch
<1>1. CASE HoldBack
  BY <1>1 DEF HoldBack, MustWait, MustHold
<1>2. CASE DispatchSayOver
  BY <1>2 DEF DispatchSayOver, Forget
<1>3. CASE \E op \in Vocabulary \cap Controls : DispatchControl(op)
  BY <1>3 DEF DispatchControl
<1> QED
  BY <1>1, <1>2, <1>3 DEF DispatchSay, DispatchSayNothing

\* Every step keeps both.
LEMMA StepKeepsFloor == ASSUME FloorInv, [Next]_duplexVars PROVE FloorInv'
<1>1. CASE ObserveEar
  BY <1>1, EarKeepsFloor
<1>2. CASE PollAfterEvent \/ PollAtEnd
  BY <1>2, PollKeepsFloor DEF PollAfterEvent, PollAtEnd
<1>3. CASE Dispatch
  BY <1>3, DispatchKeepsFloor
<1>4. CASE TimePasses
  BY <1>4, TimeKeepsFloor
<1>5. CASE UNCHANGED <<controllerVars, earOpen>>
  BY <1>5 DEF FloorInv, StuckOnlyByOverlap, OverlapLeft, HoldHasDeadline, controllerVars
<1>6. CASE LoopTop \/ NothingPolled \/ GenerationOver \/ WaitForMouth \/ NextGeneration \/ Over
           \/ Mouth \/ UNCHANGED duplexVars
  BY <1>5, <1>6 DEF LoopTop, NothingPolled, GenerationOver, WaitForMouth, NextGeneration, Over,
                    Mouth, duplexVars
<1> QED
  BY <1>1, <1>2, <1>3, <1>4, <1>6 DEF Next, MainLoop

\* The two invariants hold together of every behaviour.
LEMMA FloorHolds == Spec => []FloorInv
BY InitFloor, StepKeepsFloor, PTL DEF Spec
-----------------------------------------------------------------------------
\* A pause without a listen window, a hold or an open breath group to end it was
\* taken while the flag of an overlap stood: every other pause, wherever it is
\* taken, keeps something that will end it through all that follows.
THEOREM StuckPausesAreOverlaps == Spec => []StuckOnlyByOverlap
<1>1. FloorInv => StuckOnlyByOverlap
  BY DEF FloorInv
<1> QED
  BY <1>1, FloorHolds, PTL

\* Speech is held only in a gap that can still end, and with the mouth paused.
THEOREM HoldIsNeverStuck == Spec => []HoldHasDeadline
<1>1. FloorInv => HoldHasDeadline
  BY DEF FloorInv
<1> QED
  BY <1>1, FloorHolds, PTL

\* The queue is cleared only from a pause, and only while somebody speaks.
THEOREM ClearComesAfterPause == Spec => PauseBeforeClear
<1>1. FloorInv /\ [Next]_duplexVars => [autoControl' = "Shutup" => pausedForSpeech /\ externalSpeech]_duplexVars
  <2> SUFFICES ASSUME FloorInv, Next, autoControl' = "Shutup"
               PROVE  pausedForSpeech /\ externalSpeech
    BY DEF duplexVars
  <2>1. CASE ControllerPolls
    BY <2>1 DEF ControllerPolls, AutoControl, NothingToYield, YieldFloor, ResumeSpeech, ClearSpeech,
                LeaveFloor, HoldDecides, ListenDecides, FloorInv, HoldHasDeadline
  <2>2. ~Dispatch
    BY DEF Dispatch, DispatchSay, DispatchSayNothing, DispatchSayOver, DispatchControl, HoldBack
  <2>3. ~(ObserveEar \/ LoopTop \/ NothingPolled \/ GenerationOver \/ WaitForMouth
          \/ NextGeneration \/ Over \/ Mouth \/ TimePasses)
    BY DEF ObserveEar, LoopTop, NothingPolled, GenerationOver, WaitForMouth, NextGeneration, Over,
           Mouth, TimePasses
  <2> QED
    BY <2>1, <2>2, <2>3 DEF Next, MainLoop, PollAfterEvent, PollAtEnd
<1> QED
  BY <1>1, FloorHolds, PTL DEF Spec, PauseBeforeClear

\* What the controller sends alternates: a second pause, or a resume or a clear
\* without a pause, is never sent, by poll or by what is about to be said.
THEOREM ControlsTakeTurns == Spec => ControlsAlternate
<1>1. FloorInv /\ [Next]_duplexVars =>
        [/\ autoControl' = "Pause" => ~pausedForSpeech /\ pausedForSpeech'
         /\ autoControl' \in {"Resume", "Shutup"} => pausedForSpeech /\ ~pausedForSpeech'
        ]_duplexVars
  <2> SUFFICES ASSUME FloorInv, Next
               PROVE  /\ autoControl' = "Pause" => ~pausedForSpeech /\ pausedForSpeech'
                      /\ autoControl' \in {"Resume", "Shutup"} => pausedForSpeech /\ ~pausedForSpeech'
    BY DEF duplexVars
  <2>1. CASE ControllerPolls
    <3>1. CASE NothingToYield \/ LeaveFloor
      BY <3>1 DEF NothingToYield, LeaveFloor
    <3>2. CASE YieldFloor
      BY <3>2 DEF YieldFloor, MustYield, AutoControl
    <3>3. CASE ResumeSpeech \/ ClearSpeech
      BY <3>3 DEF ResumeSpeech, ClearSpeech, AutoControl, Forget, HoldDecides, ListenDecides,
                  FloorInv, HoldHasDeadline
    <3> QED
      BY <2>1, <3>1, <3>2, <3>3 DEF ControllerPolls
  <2>2. CASE Dispatch
    <3>1. CASE HoldBack
      BY <3>1 DEF HoldBack, MustWait, MustHold
    <3>2. CASE DispatchSayOver
      BY <3>2 DEF DispatchSayOver, Forget
    <3>3. CASE \E op \in Vocabulary \cap Controls : DispatchControl(op)
      BY <3>3 DEF DispatchControl
    <3> QED
      BY <2>2, <3>1, <3>2, <3>3 DEF Dispatch, DispatchSay, DispatchSayNothing
  <2>3. CASE ObserveEar \/ LoopTop \/ NothingPolled \/ GenerationOver \/ WaitForMouth
             \/ NextGeneration \/ Over \/ Mouth \/ TimePasses
    BY <2>3 DEF ObserveEar, LoopTop, NothingPolled, GenerationOver, WaitForMouth, NextGeneration,
                Over, Mouth, TimePasses
  <2> QED
    BY <2>1, <2>2, <2>3 DEF Next, MainLoop, PollAfterEvent, PollAtEnd
<1> QED
  BY <1>1, FloorHolds, PTL DEF Spec, ControlsAlternate
-----------------------------------------------------------------------------
(***************************************************************************)
(* The mouth in the full-duplex runtime.  The main loop and its controller *)
(* are a caller as any other: every step is one that the mouth knows.      *)
(***************************************************************************)
\* The controls of the controller are controls.
LEMMA PauseFirstLeads == PauseFirst \in LeadingControls /\ <<>> \in LeadingControls
                         /\ <<Control("Resume")>> \in LeadingControls
BY DEF PauseFirst, LeadingControls, Controls

\* What is dispatched is speech, a control or nothing.
LEMMA DispatchSpeaks == ASSUME MouthInv, Dispatch PROVE Speaks \/ Sends \/ UNCHANGED mouthVars
<1> USE DEF Dispatch
<1>1. CASE DispatchSay
  BY <1>1, PauseFirstLeads DEF DispatchSay, Speaks
<1>2. CASE DispatchSayNothing
  <2>1. CASE PauseFirst = <<>>
    BY <1>2, <2>1, ConcatEmptySeq DEF DispatchSayNothing, MouthInv, MouthTypeOK, mouthVars, worker
  <2>2. CASE PauseFirst = <<Control("Pause")>>
    <3>1. Control("Pause") \in Commands
      BY DEF Commands, Controls
    <3>2. cmds' = Append(cmds, Control("Pause"))
      BY <1>2, <2>2, <3>1, AppendIsConcat DEF DispatchSayNothing, MouthInv, MouthTypeOK
    <3> QED
      BY <1>2, <3>2 DEF DispatchSayNothing, Sends, SendControl, Controls, callerVars
  <2> QED
    BY <2>1, <2>2 DEF PauseFirst
<1>3. CASE DispatchSayOver
  BY <1>3, PauseFirstLeads DEF DispatchSayOver, Speaks
<1>4. CASE \E op \in Vocabulary \cap Controls : DispatchControl(op)
  BY <1>4 DEF DispatchControl, Sends, callerVars
<1> QED
  BY <1>1, <1>2, <1>3, <1>4

\* The controller sends one control or none.
LEMMA PollSends == ASSUME ControllerPolls PROVE Sends \/ UNCHANGED mouthVars
<1>1. CASE NothingToYield \/ LeaveFloor
  BY <1>1 DEF ControllerPolls, NothingToYield, LeaveFloor, mouthVars, callerVars
<1>2. CASE YieldFloor \/ ResumeSpeech \/ ClearSpeech
  BY <1>2 DEF ControllerPolls, YieldFloor, ResumeSpeech, ClearSpeech, AutoControl, Sends, Controls
<1> QED
  BY <1>1, <1>2 DEF ControllerPolls

\* Every step is, for the mouth, one of these.
LEMMA StepIsMouthStep == ASSUME MouthInv, [Next]_duplexVars PROVE MouthStep
<1> USE DEF MouthStep
<1>1. CASE Dispatch
  BY <1>1, DispatchSpeaks
<1>2. CASE PollAfterEvent \/ PollAtEnd
  BY <1>2, PollSends DEF PollAfterEvent, PollAtEnd
<1>3. CASE LoopTop \/ WaitForMouth
  BY <1>3 DEF LoopTop, WaitForMouth, TakeEvents, Drains
<1>4. CASE Over
  BY <1>4 DEF Over, Drops
<1>5. CASE Mouth
  BY <1>5 DEF Mouth
<1>6. CASE ObserveEar \/ NothingPolled \/ GenerationOver \/ NextGeneration \/ TimePasses
           \/ UNCHANGED duplexVars
  BY <1>6 DEF ObserveEar, NothingPolled, GenerationOver, NextGeneration, TimePasses, duplexVars
<1> QED
  BY <1>1, <1>2, <1>3, <1>4, <1>5, <1>6 DEF Next, MainLoop

DuplexInv == MouthInv /\ TypeOK

\* At first everything is of its type.
LEMMA InitDuplex == Init => DuplexInv
BY InitTyped DEF Init, DuplexInv, TypeOK, MouthInv, Deadlines

\* The controller's variables keep their types.
LEMMA ControllerKeepsTypes ==
    ASSUME TypeOK, [Next]_duplexVars
    PROVE  /\ main' \in {"top", "ear", "observed", "dispatch", "wait", "over"}
           /\ externalSpeech' \in BOOLEAN /\ sustained' \in BOOLEAN
           /\ pausedForSpeech' \in BOOLEAN /\ holding' \in BOOLEAN
           /\ listen' \in Deadlines /\ gap' \in Deadlines
           /\ earOpen' \in BOOLEAN
           /\ autoControl' \in Controls \cup {"none"}
<1> USE DEF TypeOK, Deadlines, controllerVars
<1>1. CASE ObserveEar
  BY <1>1 DEF ObserveEar, SpeechBegins, SpeechStops, TranscriptArrives
<1>2. CASE PollAfterEvent \/ PollAtEnd
  BY <1>2 DEF PollAfterEvent, PollAtEnd, ControllerPolls, NothingToYield, YieldFloor, ResumeSpeech,
              ClearSpeech, LeaveFloor, Forget, AutoControl, Controls
<1>3. CASE Dispatch
  BY <1>3 DEF Dispatch, DispatchSay, DispatchSayNothing, DispatchSayOver, DispatchControl, HoldBack,
              MustWait, MustHold, Forget, Controls
<1>4. CASE TimePasses
  BY <1>4 DEF TimePasses, OverlapLasts, ListenExpires, GapExpires
<1>5. CASE LoopTop \/ NothingPolled \/ GenerationOver \/ WaitForMouth \/ NextGeneration \/ Over \/ Mouth
  BY <1>5 DEF LoopTop, NothingPolled, GenerationOver, WaitForMouth, NextGeneration, Over, Mouth
<1>6. CASE UNCHANGED duplexVars
  BY <1>6 DEF duplexVars
<1> QED
  BY <1>1, <1>2, <1>3, <1>4, <1>5, <1>6 DEF Next, MainLoop

\* Types are kept by every behaviour.
LEMMA DuplexHolds == Spec => []DuplexInv
<1>1. DuplexInv /\ [Next]_duplexVars => DuplexInv'
  BY StepIsMouthStep, MouthStepKeepsTypes, ControllerKeepsTypes DEF DuplexInv, MouthInv, TypeOK
<1> QED
  BY <1>1, InitDuplex, PTL DEF Spec

\* Every variable has its type; above all, the count of pending utterances is
\* never negative.
THEOREM TypeCorrect == Spec => []TypeOK
<1>1. DuplexInv => TypeOK
  BY DEF DuplexInv
<1> QED
  BY <1>1, DuplexHolds, PTL

\* The controller's question whether anything is pending, and the wait at the end
\* of a generation, are asked of an exact count: whatever the controller paused,
\* resumed and cleared, no utterance is counted that is over, and none is missed.
THEOREM DuplexCountIsExact == Spec => []PendingIsExact
<1>1. Init => PendingIsExact
  BY InitCount DEF Init
<1>2. DuplexInv /\ PendingIsExact /\ [Next]_duplexVars => PendingIsExact'
  BY StepIsMouthStep, MouthStepKeepsCount DEF DuplexInv
<1> QED
  BY <1>1, <1>2, DuplexHolds, PTL DEF Spec

\* With the controller's pauses, resumes and clears the turns of the mouth still
\* are a queue: dispatched speech has its turns in order, one at a time, and is
\* reported under its own turn.  What a turn plays is told by MouthVoice.
THEOREM DuplexTurnsAreAQueue == Spec => KeepsPromise
<1>1. Init => Promise!Init
  BY InitKeepsPromise DEF Init
<1>2. DuplexInv /\ [Next]_duplexVars => [Promise!Next]_<<submitted, Waiting, current>>
  BY StepIsMouthStep, MouthStepIsQueued DEF DuplexInv
<1> QED
  BY <1>1, <1>2, DuplexHolds, PTL DEF Spec, KeepsPromise, Promise!Spec

\* No utterance has a second turn, or its turn out of the order in which it was
\* dispatched, whichever of them waited through a pause.
THEOREM DuplexTurnsComeInOrder == Spec => Promise!TurnsInOrder
<1>1. Init => EndsWith(Waiting, submitted)
  BY InitKeepsPromise, Len(<<>>) = 0 DEF EndsWith, Promise!Init, Init
<1>2. DuplexInv /\ EndsWith(Waiting, submitted) /\ [Next]_duplexVars => EndsWith(Waiting, submitted)'
  BY StepIsMouthStep, MouthStepIsQueued, WaitingType, QueueKeepsOrder
     DEF DuplexInv, MouthInv, MouthTypeOK
<1>3. DuplexInv /\ EndsWith(Waiting, submitted) /\ [Next]_duplexVars =>
        [/\ Promise!Behind' >= Promise!Behind
         /\ current' \notin {current, Nobody} =>
                current' = Promise!Behind + 1 /\ Promise!Behind' = Promise!Behind + 1
        ]_<<submitted, Waiting, current>>
  BY StepIsMouthStep, MouthStepIsQueued, WaitingType, QueueKeepsOrder
     DEF DuplexInv, MouthInv, MouthTypeOK, Promise!Behind
<1> QED
  BY <1>1, <1>2, <1>3, DuplexHolds, PTL DEF Spec, Promise!TurnsInOrder

\* The mouth is dropped when the loop is left, and then only.
OverInv == ShutdownInv /\ (main = "over" <=> caller = "closed")

\* Leaving the loop drops the mouth; no other step does either.
LEMMA StepKeepsOver == ASSUME MouthInv, OverInv, [Next]_duplexVars PROVE OverInv'
<1>1. ShutdownInv'
  BY StepIsMouthStep, MouthStepKeepsShutdown DEF OverInv
<1>2. main' = "over" <=> caller' = "closed"
  <2> USE DEF OverInv
  <2>1. CASE Over
    BY <2>1 DEF Over, Close
  <2>2. CASE PollAfterEvent \/ PollAtEnd
    BY <2>2 DEF PollAfterEvent, PollAtEnd, ControllerPolls, callerVars
  <2>3. CASE Mouth
    <3>1. UNCHANGED caller
      BY <2>3, WorkerObeysShutdown DEF Mouth, AudioPlays, callerVars
    <3> QED
      BY <2>3, <3>1 DEF Mouth
  <2>4. CASE ObserveEar \/ Dispatch \/ NothingPolled \/ GenerationOver \/ NextGeneration \/ LoopTop
             \/ WaitForMouth \/ TimePasses \/ UNCHANGED duplexVars
    BY <2>4 DEF ObserveEar, Dispatch, NothingPolled, GenerationOver, NextGeneration, LoopTop,
                WaitForMouth, TimePasses, duplexVars, mouthVars
  <2> QED
    BY <2>1, <2>2, <2>3, <2>4 DEF Next, MainLoop
<1> QED
  BY <1>1, <1>2 DEF OverInv

\* This holds of every behaviour.
LEMMA OverHolds == Spec => []OverInv
<1>1. Init => OverInv
  BY InitShutdown DEF Init, OverInv, MouthInit
<1>2. DuplexInv /\ OverInv /\ [Next]_duplexVars => OverInv'
  BY StepKeepsOver DEF DuplexInv
<1> QED
  BY <1>1, <1>2, DuplexHolds, PTL DEF Spec

\* However the loop is left: after the loop the mouth's thread has
\* returned or will find its Shutdown, and it never goes while the loop runs.
THEOREM LeavingFindsShutdown == Spec => []LeavingShutsDown
<1>1. DuplexInv /\ OverInv => LeavingShutsDown
  BY DEF DuplexInv, OverInv, ShutdownInv, ShutdownNotLost, LeavingShutsDown, MouthInv, MouthTypeOK
<1> QED
  BY <1>1, DuplexHolds, OverHolds, PTL

\* The saturating subtractions of the two drains never saturate: the events never
\* report more than is pending.
THEOREM CountNeverSaturates == Spec => [](main # "over" => CountedOff(pending, evs) = pending - Reported(evs))
<1>1. DuplexInv /\ PendingIsExact /\ OverInv =>
        (main # "over" => CountedOff(pending, evs) = pending - Reported(evs))
  <2> SUFFICES ASSUME DuplexInv, PendingIsExact, OverInv, main # "over"
               PROVE  CountedOff(pending, evs) = pending - Reported(evs)
    OBVIOUS
  <2>1. pending = InMouth + Reported(evs)
    BY DEF PendingIsExact, OverInv, DuplexInv, MouthInv, MouthTypeOK
  <2>2. InMouth \in Nat /\ Reported(evs) \in Nat
    BY TotalType DEF InMouth, DuplexInv
  <2> QED
    BY <2>1, <2>2 DEF CountedOff, SaturatingSub
<1> QED
  BY <1>1, DuplexHolds, DuplexCountIsExact, OverHolds, PTL
=============================================================================
