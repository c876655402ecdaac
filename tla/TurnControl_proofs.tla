-------------------------- MODULE TurnControl_proofs --------------------------
(***************************************************************************)
(* Proofs about TurnControl, for every OpenAfter, CloseAfter,              *)
(* MaxGroupFrames, thresholds and frame gaps that its assumptions allow.   *)
(*                                                                         *)
(* The properties speak of the moments between two frames; between the     *)
(* delivery of two events of one frame they do not hold.  IInv says what   *)
(* does: which events can be on their way, and what they owe.              *)
(***************************************************************************)
EXTENDS TurnControl, SequenceTheorems, TLAPS

\* The segmenter has a group open and heard speech last.
Voiced == groupOpen /\ silenceFrames = 0

\* The events still on their way, and where the listener is before them.
UnderWay ==
    \/ /\ events = <<>>
       /\ phase = (IF ~groupOpen THEN "quiet" ELSE IF silenceFrames = 0 THEN "voiced" ELSE "paused")
    \/ events = <<"SpeechStarted", "BreathGroupOpened">> /\ phase = "quiet" /\ Voiced
    \/ events = <<"BreathGroupOpened">> /\ phase = "starting" /\ Voiced
    \/ events = <<"SpeechContinued">> /\ phase \in {"voiced", "paused"} /\ Voiced
    \/ /\ events = <<"SpeechContinued", "BreathGroupClosed">>
       /\ phase \in {"voiced", "paused"} /\ ~groupOpen /\ voicedFor # Silent
    \/ events = <<"PauseStarted">> /\ phase = "voiced" /\ groupOpen /\ silenceFrames > 0
    \/ events = <<"PauseStarted", "BreathGroupClosed">> /\ phase = "voiced" /\ ~groupOpen
    \/ events = <<"BreathGroupClosed">> /\ phase \in {"voiced", "paused"} /\ ~groupOpen

\* An interruption, or its clock, with nothing on its way belongs to speech
\* that is still going on.
InterruptionIsVoiced ==
    (overlapAge # NoOverlap \/ turn = "PeteInterrupted") /\ events = <<>> => Voiced

\* The clock of an interruption never runs ahead of the speech it times.
ClockIsVoiced ==
    /\ Voiced => voicedFor # Silent
    /\ overlapAge # NoOverlap /\ voicedFor # Silent => overlapAge <= voicedFor

ReportsAreRecorded == reports <= 1 /\ (~recorded => reports = 0)

IInv == /\ TypeOK
        /\ UnderWay
        /\ InterruptionIsVoiced
        /\ ClockIsVoiced
        /\ CutOffOnlyBySustainedSpeech
        /\ ReportsAreRecorded
-----------------------------------------------------------------------------
(***************************************************************************)
(* The events of one frame.                                                *)
(***************************************************************************)
\* What is left to deliver of the events of a frame.
Batches == {<<>>, <<"SpeechStarted", "BreathGroupOpened">>, <<"BreathGroupOpened">>,
            <<"SpeechContinued">>, <<"SpeechContinued", "BreathGroupClosed">>,
            <<"PauseStarted">>, <<"PauseStarted", "BreathGroupClosed">>, <<"BreathGroupClosed">>}

\* Two single events concatenated are the two in a row.
LEMMA Pair == ASSUME NEW S, NEW a \in S, NEW b \in S
              PROVE  <<a>> \o <<b>> = <<a, b>>
<1> DEFINE s == <<a>> \o <<b>>
           t == <<a, b>>
<1>1. s \in Seq(S) /\ t \in Seq(S)
  OBVIOUS
<1>2. Len(s) = 2 /\ Len(t) = 2
  OBVIOUS
<1>3. s[1] = a /\ s[2] = b /\ t[1] = a /\ t[2] = b
  OBVIOUS
<1>4. \A i \in 1..2 : s[i] = t[i]
  BY <1>3
<1> HIDE DEF s, t
<1> QED
  BY <1>1, <1>2, <1>4, SeqEqual DEF s, t

\* A batch is a sequence of hearing events.
LEMMA BatchesAreEvents == Batches \subseteq Seq(HearingEvents)
<1>1. <<>> \in Seq(HearingEvents)
  OBVIOUS
<1>2. \A a \in HearingEvents : <<a>> \in Seq(HearingEvents)
  OBVIOUS
<1>3. \A a, b \in HearingEvents : <<a, b>> \in Seq(HearingEvents)
  OBVIOUS
<1> QED
  BY <1>1, <1>2, <1>3 DEF Batches, HearingEvents

\* The first event on its way tells the whole batch, and what the segmenter did.
LEMMA FirstTellsBatch ==
    ASSUME UnderWay, events # <<>>
    PROVE  /\ Head(events) = "SpeechStarted" =>
                  events = <<"SpeechStarted", "BreathGroupOpened">>
           /\ Head(events) = "BreathGroupOpened" => events = <<"BreathGroupOpened">>
           /\ Head(events) = "SpeechContinued" =>
                  \/ events = <<"SpeechContinued">> /\ Voiced
                  \/ /\ events = <<"SpeechContinued", "BreathGroupClosed">>
                     /\ ~groupOpen /\ voicedFor # Silent
           /\ Head(events) = "PauseStarted" =>
                  \/ events = <<"PauseStarted">> /\ groupOpen /\ silenceFrames > 0
                  \/ events = <<"PauseStarted", "BreathGroupClosed">> /\ ~groupOpen
           /\ Head(events) = "BreathGroupClosed" => events = <<"BreathGroupClosed">>
<1>1. \A a : Head(<<a>>) = a
  OBVIOUS
<1>2. \A a, b : Head(<<a, b>>) = a
  OBVIOUS
<1> QED
  BY <1>1, <1>2 DEF UnderWay

\* Batches of different events or lengths are different.
LEMMA BatchesDiffer == /\ \A a : <<a>> # <<>>
                       /\ \A a, b : <<a, b>> # <<>>
                       /\ \A a, b, c : <<a>> # <<b, c>>
OBVIOUS

\* What is left of a batch after its first event.
LEMMA RestOfBatch == /\ \A a : Tail(<<a>>) = <<>>
                     /\ \A a, b : Tail(<<a, b>>) = <<b>>
OBVIOUS

-----------------------------------------------------------------------------
(***************************************************************************)
(* The invariant holds at first and is kept by every step.                 *)
(***************************************************************************)
\* The state before the first frame satisfies the invariant.
LEMMA InitHolds == Init => IInv
<1> SUFFICES ASSUME Init PROVE IInv
  OBVIOUS
<1> USE PolicyAssumption DEF Init, NoOverlap, Silent
<1>1. <<>> \in Seq(HearingEvents)
  OBVIOUS
<1>2. TypeOK
  BY <1>1 DEF TypeOK, TurnStates, Listener!Phases
<1>3. UnderWay /\ InterruptionIsVoiced /\ ClockIsVoiced
  BY DEF UnderWay, InterruptionIsVoiced, ClockIsVoiced, Voiced
<1>4. CutOffOnlyBySustainedSpeech /\ ReportsAreRecorded
  BY DEF CutOffOnlyBySustainedSpeech, ReportsAreRecorded
<1> QED
  BY <1>2, <1>3, <1>4 DEF IInv

\* Time that passes keeps the ages in their range, and the clock behind the speech.
LEMMA AgesStayInRange ==
    ASSUME NEW ms \in Nat, NEW age \in {-1} \cup 0..StopAt
    PROVE  /\ Older(age, ms) \in {-1} \cup 0..StopAt
           /\ Older(age, ms) = -1 <=> age = -1
           /\ Capped(ms) \in 0..StopAt
           /\ age # -1 => /\ Older(age, ms) = Capped(age + ms)
                          /\ \A longer \in age..StopAt : Capped(age + ms) <= Capped(longer + ms)
BY PolicyAssumption DEF Older, Capped

\* A frame of speech keeps the invariant.
LEMMA SpeechFrameKeeps ==
    ASSUME IInv, NEW ms \in FrameGaps, SpeechFrame(ms)
    PROVE  IInv'
<1> USE PolicyAssumption, FrameGapsAssumption
    DEF IInv, SpeechFrame, SpeechInGroup, SpeechOutsideGroup, Silent, NoOverlap
<1> ms \in Nat
  OBVIOUS
<1>1. UnderWay'
  BY DEF TypeOK, UnderWay, Voiced, Capped
<1>2. events' \in Seq(HearingEvents)
  BY <1>1, BatchesAreEvents DEF UnderWay, Batches
<1>3. overlapAge' \in {-1} \cup 0..StopAt /\ (overlapAge' = -1 <=> overlapAge = -1)
  BY AgesStayInRange DEF TypeOK
<1>4. voicedFor' \in 0..StopAt
  BY DEF TypeOK, Capped
<1>5. /\ groupOpen' \in BOOLEAN
      /\ speechFrames' \in Nat /\ silenceFrames' \in Nat /\ groupFrames' \in Nat
  <2> USE DEF TypeOK
  <2>1. groupOpen' \in BOOLEAN
    BY Zenon
  <2>2. speechFrames' \in Nat /\ silenceFrames' \in Nat /\ groupFrames' \in Nat
    BY SMT
  <2> QED
    BY <2>1, <2>2
<1>6. TypeOK'
  BY <1>2, <1>3, <1>4, <1>5 DEF TypeOK
<1>7. InterruptionIsVoiced'
  BY <1>3 DEF TypeOK, UnderWay, InterruptionIsVoiced, Voiced
<1>8. overlapAge # -1 => voicedFor # -1 /\ overlapAge <= voicedFor
  BY DEF InterruptionIsVoiced, ClockIsVoiced
<1>9. ClockIsVoiced'
  BY <1>3, <1>4, <1>8, AgesStayInRange DEF TypeOK, ClockIsVoiced, Older, Capped
<1>10. CutOffOnlyBySustainedSpeech' /\ ReportsAreRecorded'
  BY DEF CutOffOnlyBySustainedSpeech, ReportsAreRecorded
<1> QED
  BY <1>1, <1>6, <1>7, <1>9, <1>10

\* A silent frame keeps the invariant.
LEMMA SilenceFrameKeeps ==
    ASSUME IInv, NEW ms \in FrameGaps, SilenceFrame(ms)
    PROVE  IInv'
<1> USE PolicyAssumption, FrameGapsAssumption
    DEF IInv, SilenceFrame, SilenceInGroup, SilenceOutsideGroup, Silent, NoOverlap
<1> ms \in Nat
  OBVIOUS
<1>1. /\ <<"PauseStarted">> \o <<"BreathGroupClosed">> = <<"PauseStarted", "BreathGroupClosed">>
      /\ <<>> \o <<"BreathGroupClosed">> = <<"BreathGroupClosed">>
  <2>1. "PauseStarted" \in HearingEvents /\ "BreathGroupClosed" \in HearingEvents
    BY DEF HearingEvents
  <2>2. \A a : <<>> \o <<a>> = <<a>>
    OBVIOUS
  <2> QED
    BY ONLY <2>1, <2>2, Pair
<1>2. groupOpen => events' = IF silenceFrames = 0
                               THEN IF SilenceCloses THEN <<"PauseStarted", "BreathGroupClosed">>
                                                     ELSE <<"PauseStarted">>
                               ELSE IF SilenceCloses THEN <<"BreathGroupClosed">> ELSE <<>>
  BY <1>1 DEF PauseEvents
<1>3. /\ groupOpen' \in BOOLEAN
      /\ speechFrames' \in Nat /\ silenceFrames' \in Nat /\ groupFrames' \in Nat
  <2> USE DEF TypeOK
  <2>1. groupOpen' \in BOOLEAN
    BY Zenon
  <2>2. speechFrames' \in Nat /\ silenceFrames' \in Nat /\ groupFrames' \in Nat
    BY SMT
  <2> QED
    BY <2>1, <2>2
<1>4. UnderWay'
  BY <1>2, <1>3 DEF TypeOK, UnderWay, Voiced
<1>5. events' \in Seq(HearingEvents)
  BY <1>4, BatchesAreEvents DEF UnderWay, Batches
<1>6. overlapAge' \in {-1} \cup 0..StopAt /\ (overlapAge' = -1 <=> overlapAge = -1)
  BY AgesStayInRange DEF TypeOK
<1>7. TypeOK'
  BY <1>3, <1>5, <1>6 DEF TypeOK
<1>8. InterruptionIsVoiced'
  BY <1>2, <1>6 DEF TypeOK, InterruptionIsVoiced, Voiced
<1>9. ClockIsVoiced'
  BY <1>3 DEF TypeOK, ClockIsVoiced, Voiced
<1>10. CutOffOnlyBySustainedSpeech' /\ ReportsAreRecorded'
  BY DEF CutOffOnlyBySustainedSpeech, ReportsAreRecorded
<1> QED
  BY <1>4, <1>7, <1>8, <1>9, <1>10

\* A delivered event is the first on its way; the segmenter stands still.
LEMMA DeliveryKeepsType ==
    ASSUME IInv, NEW event, NEW next \in Listener!Phases, Heard(event, next), UnderWay'
    PROVE  /\ events' \in Seq(HearingEvents)
           /\ phase' \in Listener!Phases /\ beat' \in {0, 1}
           /\ UNCHANGED <<groupOpen, speechFrames, silenceFrames, groupFrames, session, voicedFor>>
BY BatchesAreEvents DEF IInv, TypeOK, Heard, segmenter, UnderWay, Batches

\* The announcement of speech keeps the invariant; it may start the clock.
LEMMA OnSpeechStartedKeeps == ASSUME IInv, OnSpeechStarted PROVE IInv'
<1> USE PolicyAssumption DEF IInv, OnSpeechStarted, NoOverlap, Silent
<1>1. events = <<"SpeechStarted", "BreathGroupOpened">> /\ events' = <<"BreathGroupOpened">>
  BY FirstTellsBatch, RestOfBatch DEF Heard
<1>2. UnderWay'
  BY <1>1 DEF UnderWay, Heard, segmenter, Voiced
<1>3. /\ events' \in Seq(HearingEvents) /\ phase' \in Listener!Phases /\ beat' \in {0, 1}
      /\ UNCHANGED <<groupOpen, speechFrames, silenceFrames, groupFrames, session, voicedFor>>
  BY <1>2, DeliveryKeepsType DEF Listener!Phases
<1>4. TypeOK'
  BY <1>3 DEF TypeOK, TurnStates
<1>5. Voiced
  BY <1>1 DEF UnderWay
<1>6. InterruptionIsVoiced' /\ ClockIsVoiced'
  BY <1>1, <1>3, <1>5 DEF InterruptionIsVoiced, ClockIsVoiced, Voiced, TypeOK
<1>7. CutOffOnlyBySustainedSpeech' /\ ReportsAreRecorded'
  BY DEF CutOffOnlyBySustainedSpeech, ReportsAreRecorded
<1> QED
  BY <1>2, <1>4, <1>6, <1>7

\* The announcement of a group keeps the invariant.
LEMMA OnGroupOpenedKeeps == ASSUME IInv, OnGroupOpened PROVE IInv'
<1> USE PolicyAssumption DEF IInv, OnGroupOpened, NoOverlap, Silent
<1>1. events = <<"BreathGroupOpened">> /\ events' = <<>>
  BY FirstTellsBatch, RestOfBatch DEF Heard
<1>2. UnderWay'
  BY <1>1 DEF UnderWay, Heard, segmenter, Voiced
<1>3. /\ events' \in Seq(HearingEvents) /\ phase' \in Listener!Phases /\ beat' \in {0, 1}
      /\ UNCHANGED <<groupOpen, speechFrames, silenceFrames, groupFrames, session, voicedFor>>
  BY <1>2, DeliveryKeepsType DEF Listener!Phases
<1>4. TypeOK'
  BY <1>3 DEF TypeOK
<1>5. Voiced
  BY <1>1 DEF UnderWay
<1>6. InterruptionIsVoiced' /\ ClockIsVoiced'
  BY <1>3, <1>5 DEF InterruptionIsVoiced, ClockIsVoiced, Voiced
<1>7. CutOffOnlyBySustainedSpeech' /\ ReportsAreRecorded'
  BY DEF CutOffOnlyBySustainedSpeech, ReportsAreRecorded
<1> QED
  BY <1>2, <1>4, <1>6, <1>7

\* A pause keeps the invariant: it ends the interruption and its clock.
LEMMA OnPauseStartedKeeps == ASSUME IInv, OnPauseStarted PROVE IInv'
<1> USE PolicyAssumption DEF IInv, OnPauseStarted, ResetInterruption, NoOverlap, Silent
<1>1. \/ events = <<"PauseStarted">> /\ events' = <<>> /\ groupOpen /\ silenceFrames > 0
      \/ /\ events = <<"PauseStarted", "BreathGroupClosed">> /\ events' = <<"BreathGroupClosed">>
         /\ ~groupOpen
  BY FirstTellsBatch, RestOfBatch DEF Heard
<1>2. UnderWay'
  BY <1>1 DEF UnderWay, Heard, segmenter, Voiced, TypeOK
<1>3. /\ events' \in Seq(HearingEvents) /\ phase' \in Listener!Phases /\ beat' \in {0, 1}
      /\ UNCHANGED <<groupOpen, speechFrames, silenceFrames, groupFrames, session, voicedFor>>
  BY <1>2, DeliveryKeepsType DEF Listener!Phases
<1>4. TypeOK'
  BY <1>3 DEF TypeOK, TurnStates
<1>5. InterruptionIsVoiced' /\ ClockIsVoiced'
  BY <1>3 DEF InterruptionIsVoiced, ClockIsVoiced, Voiced
<1>6. CutOffOnlyBySustainedSpeech' /\ ReportsAreRecorded'
  BY DEF CutOffOnlyBySustainedSpeech, ReportsAreRecorded
<1> QED
  BY <1>2, <1>4, <1>5, <1>6

\* The end of a group keeps the invariant: it ends the interruption as well.
LEMMA OnGroupClosedKeeps == ASSUME IInv, OnGroupClosed PROVE IInv'
<1> USE PolicyAssumption DEF IInv, OnGroupClosed, ResetInterruption, NoOverlap, Silent
<1>1. events = <<"BreathGroupClosed">> /\ events' = <<>>
  BY FirstTellsBatch, RestOfBatch DEF Heard
<1>2. UnderWay'
  BY <1>1 DEF UnderWay, Heard, segmenter, Voiced
<1>3. /\ events' \in Seq(HearingEvents) /\ phase' \in Listener!Phases /\ beat' \in {0, 1}
      /\ UNCHANGED <<groupOpen, speechFrames, silenceFrames, groupFrames, session, voicedFor>>
  BY <1>2, DeliveryKeepsType DEF Listener!Phases
<1>4. TypeOK'
  BY <1>3 DEF TypeOK, TurnStates
<1>5. InterruptionIsVoiced' /\ ClockIsVoiced'
  BY <1>3 DEF InterruptionIsVoiced, ClockIsVoiced, Voiced
<1>6. CutOffOnlyBySustainedSpeech' /\ ReportsAreRecorded'
  BY DEF CutOffOnlyBySustainedSpeech, ReportsAreRecorded
<1> QED
  BY <1>2, <1>4, <1>5, <1>6

\* Speech that goes on keeps the invariant: whatever the policy decides, the
\* speech it decides about has lasted at least as long as the clock says.
LEMMA OnSpeechContinuedKeeps == ASSUME IInv, OnSpeechContinued PROVE IInv'
<1> USE PolicyAssumption
    DEF IInv, OnSpeechContinued, StopNow, FadeOut, NoDecision, RecordOnce, ResetInterruption,
        NoOverlap, Silent
<1>1. \/ events = <<"SpeechContinued">> /\ events' = <<>> /\ Voiced
      \/ /\ events = <<"SpeechContinued", "BreathGroupClosed">> /\ events' = <<"BreathGroupClosed">>
         /\ ~groupOpen /\ voicedFor # Silent
  BY FirstTellsBatch, RestOfBatch DEF Heard
<1>2. UnderWay'
  BY <1>1 DEF UnderWay, Heard, segmenter, Voiced, TypeOK
<1>3. /\ events' \in Seq(HearingEvents) /\ phase' \in Listener!Phases /\ beat' \in {0, 1}
      /\ UNCHANGED <<groupOpen, speechFrames, silenceFrames, groupFrames, session, voicedFor>>
  BY <1>2, DeliveryKeepsType DEF Listener!Phases
<1>4. TypeOK'
  <2>1. recorded' \in BOOLEAN /\ faded' \in BOOLEAN
    BY Zenon DEF TypeOK
  <2>2. reports' \in Nat /\ overlapAge' \in {-1} \cup 0..StopAt
    BY DEF TypeOK
  <2>3. turn' \in TurnStates /\ command' \in {"none", "FadeOut", "StopNow"} /\ heard' \in BOOLEAN
    BY DEF TypeOK, TurnStates
  <2> QED
    BY <1>3, <2>1, <2>2, <2>3 DEF TypeOK
<1>5. voicedFor # -1 /\ (events' = <<>> => Voiced)
  BY <1>1 DEF ClockIsVoiced
<1>6. InterruptionIsVoiced' /\ ClockIsVoiced'
  BY <1>3, <1>5 DEF InterruptionIsVoiced, ClockIsVoiced, Voiced
<1>7. CutOffOnlyBySustainedSpeech'
  BY <1>3, <1>5 DEF CutOffOnlyBySustainedSpeech, ClockIsVoiced, MustStop, MustFade, TypeOK
<1>8. ReportsAreRecorded'
  BY DEF ReportsAreRecorded
<1> QED
  BY <1>2, <1>4, <1>6, <1>7, <1>8

\* The calls of the session come between two frames and keep the invariant.
LEMMA SessionKeeps == ASSUME IInv, Session PROVE IInv'
<1> USE PolicyAssumption
    DEF IInv, TypeOK, TurnStates, UnderWay, InterruptionIsVoiced, ClockIsVoiced, Voiced,
        CutOffOnlyBySustainedSpeech, ReportsAreRecorded, ResetInterruption, segmenter, controller,
        NoOverlap, Silent
<1>1. CASE DiscardTurn
  <2> USE <1>1 DEF DiscardTurn
  <2>1. TypeOK'
    OBVIOUS
  <2>2. UnderWay' /\ InterruptionIsVoiced' /\ ClockIsVoiced'
    OBVIOUS
  <2>3. CutOffOnlyBySustainedSpeech' /\ ReportsAreRecorded'
    OBVIOUS
  <2> QED
    BY <2>1, <2>2, <2>3
<1>2. CASE PeteThinkingStarted
  BY <1>2 DEF PeteThinkingStarted
<1>3. CASE GapCancelled
  <2> USE <1>3 DEF GapCancelled
  <2>1. TypeOK'
    OBVIOUS
  <2>2. UnderWay' /\ InterruptionIsVoiced' /\ ClockIsVoiced'
    OBVIOUS
  <2>3. CutOffOnlyBySustainedSpeech' /\ ReportsAreRecorded'
    OBVIOUS
  <2> QED
    BY <2>1, <2>2, <2>3
<1>4. CASE PeteSpeechStarted
  <2> USE <1>4 DEF PeteSpeechStarted
  <2>1. TypeOK'
    OBVIOUS
  <2>2. UnderWay' /\ InterruptionIsVoiced' /\ ClockIsVoiced'
    OBVIOUS
  <2>3. CutOffOnlyBySustainedSpeech'
    OBVIOUS
  <2>4. ReportsAreRecorded'
    OBVIOUS
  <2> QED
    BY <2>1, <2>2, <2>3, <2>4
<1>5. CASE PeteSpeechFinished
  <2> USE <1>5 DEF PeteSpeechFinished
  <2>1. TypeOK'
    OBVIOUS
  <2>2. UnderWay' /\ InterruptionIsVoiced' /\ ClockIsVoiced'
    OBVIOUS
  <2>3. CutOffOnlyBySustainedSpeech' /\ ReportsAreRecorded'
    OBVIOUS
  <2> QED
    BY <2>1, <2>2, <2>3
<1> QED
  BY <1>1, <1>2, <1>3, <1>4, <1>5 DEF Session

\* A step that changes nothing keeps the invariant.
LEMMA StutterKeeps == ASSUME IInv, UNCHANGED vars PROVE IInv'
BY DEF IInv, TypeOK, UnderWay, InterruptionIsVoiced, ClockIsVoiced, Voiced, vars, segmenter,
       controller, CutOffOnlyBySustainedSpeech, ReportsAreRecorded

\* The invariant is inductive: it holds at first and every step keeps it.
THEOREM Inductive == Spec => []IInv
<1>1. Init => IInv
  BY InitHolds
<1>2. IInv /\ [Next]_vars => IInv'
  <2> SUFFICES ASSUME IInv, [Next]_vars PROVE IInv'
    OBVIOUS
  <2>1. CASE Frame
    BY <2>1, SpeechFrameKeeps, SilenceFrameKeeps DEF Frame
  <2>2. CASE Deliver
    BY <2>2, OnSpeechStartedKeeps, OnGroupOpenedKeeps, OnPauseStartedKeeps, OnGroupClosedKeeps,
       OnSpeechContinuedKeeps DEF Deliver
  <2>3. CASE Session
    BY <2>3, SessionKeeps
  <2>4. CASE UNCHANGED vars
    BY <2>4, StutterKeeps
  <2> QED
    BY <2>1, <2>2, <2>3, <2>4 DEF Next
<1> QED
  BY <1>1, <1>2, PTL DEF Spec
-----------------------------------------------------------------------------
(***************************************************************************)
(* What follows for the program.                                           *)
(***************************************************************************)
\* Every variable keeps its type, the ages of speech and interruption their cap.
THEOREM TypeCorrect == Spec => []TypeOK
<1>1. IInv => TypeOK
  BY DEF IInv
<1> QED
  BY <1>1, Inductive, PTL

\* "Pete was interrupted" is only ever the state of a user who is speaking now.
THEOREM InterruptedIsVoiced == Spec => []InterruptedOnlyDuringSpeech
<1>1. IInv => InterruptedOnlyDuringSpeech
  BY DEF IInv, InterruptionIsVoiced, Voiced, InterruptedOnlyDuringSpeech
<1> QED
  BY <1>1, Inductive, PTL

\* The clock of a barge-in never survives the speech it timed, for any frames.
THEOREM ClockEndsWithSpeech == Spec => []OverlapClockOnlyDuringSpeech
<1>1. IInv => OverlapClockOnlyDuringSpeech
  BY DEF IInv, InterruptionIsVoiced, Voiced, OverlapClockOnlyDuringSpeech
<1> QED
  BY <1>1, Inductive, PTL

\* Pete is never cut off by less unbroken speech than the policy's thresholds.
THEOREM CutOffIsDeserved == Spec => []CutOffOnlyBySustainedSpeech
<1>1. IInv => CutOffOnlyBySustainedSpeech
  BY DEF IInv
<1> QED
  BY <1>1, Inductive, PTL

\* A stretch of Pete's speech is reported as interrupted at most once.
THEOREM ReportedOnce == Spec => []ReportedOncePerSpeech
<1>1. IInv => ReportedOncePerSpeech
  BY DEF IInv, ReportsAreRecorded, ReportedOncePerSpeech
<1> QED
  BY <1>1, Inductive, PTL

\* A listener that only sees the events is in step with the segmenter.
THEOREM ListenerFollows == Spec => []ListenerInStep
<1>1. IInv => ListenerInStep
  BY BatchesDiffer DEF IInv, UnderWay, ListenerInStep
<1> QED
  BY <1>1, Inductive, PTL

\* The events of the segmenter obey the protocol of HearingStream: every step
\* is a step of the protocol, or leaves the listener where it is.
THEOREM EventsObeyProtocol == Spec => EventProtocol
<1>1. Init => Listener!Init
  BY DEF Init, Listener!Init
<1>2. IInv /\ [Next]_vars => [Listener!Next]_<<phase, beat>>
  <2> SUFFICES ASSUME IInv, [Next]_vars PROVE Listener!Next \/ UNCHANGED <<phase, beat>>
    OBVIOUS
  <2> USE DEF IInv, UnderWay, Heard, Listener!Next, Listener!Event
  <2>1. CASE OnSpeechStarted
    BY <2>1, FirstTellsBatch, BatchesDiffer DEF OnSpeechStarted, Listener!SpeechStarts
  <2>2. CASE OnGroupOpened
    BY <2>2, FirstTellsBatch, BatchesDiffer DEF OnGroupOpened, Listener!GroupOpens
  <2>3. CASE OnPauseStarted
    BY <2>3, FirstTellsBatch, BatchesDiffer DEF OnPauseStarted, Listener!PauseStarts
  <2>4. CASE OnGroupClosed
    BY <2>4, FirstTellsBatch, BatchesDiffer DEF OnGroupClosed, Listener!GroupCloses
  <2>5. CASE OnSpeechContinued
    BY <2>5, FirstTellsBatch, BatchesDiffer DEF OnSpeechContinued, Listener!SpeechGoesOn
  <2>6. CASE Frame \/ Session \/ UNCHANGED vars
    BY <2>6 DEF Frame, SpeechFrame, SilenceFrame, Session, DiscardTurn, PeteThinkingStarted,
                GapCancelled, PeteSpeechStarted, PeteSpeechFinished, vars
  <2> QED
    BY <2>1, <2>2, <2>3, <2>4, <2>5, <2>6 DEF Next, Deliver
<1> QED
  BY <1>1, <1>2, Inductive, PTL DEF Spec, EventProtocol, Listener!Spec

\* Whatever is not a frame leaves the segmenter alone.
LEMMA OnlyFramesMove == ASSUME Deliver \/ Session \/ UNCHANGED vars PROVE UNCHANGED segmenter
BY DEF Deliver, OnSpeechStarted, OnGroupOpened, OnPauseStarted, OnGroupClosed, OnSpeechContinued,
       Heard, Session, DiscardTurn, PeteThinkingStarted, GapCancelled, PeteSpeechStarted,
       PeteSpeechFinished, vars

\* A frame closes the group that it would make too long or too silent.
LEMMA FrameKeepsShort == ASSUME TypeOK, GroupIsShort, Frame PROVE GroupIsShort'
<1> USE SegmenterAssumption DEF TypeOK, GroupIsShort
<1>1. SpeechInGroup \/ SpeechOutsideGroup \/ SilenceInGroup \/ SilenceOutsideGroup
  BY DEF Frame, SpeechFrame, SilenceFrame
<1>2. CASE SpeechInGroup
  BY <1>2 DEF SpeechInGroup
<1>3. CASE SpeechOutsideGroup
  BY <1>3 DEF SpeechOutsideGroup
<1>4. CASE SilenceInGroup
  BY <1>4 DEF SilenceInGroup, SilenceCloses
<1>5. CASE SilenceOutsideGroup
  BY <1>5 DEF SilenceOutsideGroup
<1> QED
  BY <1>1, <1>2, <1>3, <1>4, <1>5

\* However speech and pauses alternate, an open group has not passed the limit of
\* its length, nor the limit of the silence in it.
THEOREM GroupsAreShort == Spec => []GroupIsShort
<1>1. Init => GroupIsShort
  BY DEF Init, GroupIsShort
<1>2. TypeOK /\ GroupIsShort /\ [Next]_vars => GroupIsShort'
  <2> SUFFICES ASSUME TypeOK, GroupIsShort, [Next]_vars PROVE GroupIsShort'
    OBVIOUS
  <2>1. CASE Frame
    BY <2>1, FrameKeepsShort
  <2>2. CASE UNCHANGED segmenter
    BY <2>2 DEF segmenter, GroupIsShort, TimedOut
  <2> QED
    BY <2>1, <2>2, OnlyFramesMove DEF Next
<1> QED
  BY <1>1, <1>2, TypeCorrect, PTL DEF Spec

\* A group that is open ages with every frame, and with nothing else; with its
\* limit this is the safety half of GroupEventuallyCloses.
THEOREM GroupsAge == Spec => GroupAges
<1>1. [Next]_vars => [groupOpen => /\ Frame => ~groupOpen' \/ groupFrames' = groupFrames + 1
                                   /\ ~Frame => UNCHANGED segmenter]_vars
  <2> SUFFICES ASSUME [Next]_vars, groupOpen
               PROVE  /\ Frame => ~groupOpen' \/ groupFrames' = groupFrames + 1
                      /\ ~Frame => UNCHANGED segmenter
    OBVIOUS
  <2>1. Frame => ~groupOpen' \/ groupFrames' = groupFrames + 1
    BY DEF Frame, SpeechFrame, SilenceFrame, SpeechInGroup, SpeechOutsideGroup, SilenceInGroup,
           SilenceOutsideGroup
  <2> QED
    BY <2>1, OnlyFramesMove DEF Next
<1> QED
  BY <1>1, PTL DEF Spec, GroupAges
=============================================================================
