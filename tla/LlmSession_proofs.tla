--------------------------- MODULE LlmSession_proofs ---------------------------
(***************************************************************************)
(* Proofs about LlmSession, for every bound on the backlog of its          *)
(* channels: the main loop never asks the engine for a generation that the *)
(* engine has forgotten.                                                   *)
(***************************************************************************)
EXTENDS LlmSession, SequenceTheorems, TLAPS

\* The engine forgets a generation when its last event is polled; the loop
\* learns of it from the batch, and until then and after a restart the
\* generation is known.
KnownInv ==
    /\ PollsOnlyKnown
    /\ main = "dispatch" /\ batch = "tokens" => active

\* The thread of the generation forgets nothing of the session.
LEMMA GenerateKeepsKnown == ASSUME KnownInv, Generate PROVE KnownInv'
BY DEF KnownInv, PollsOnlyKnown, Generate, session

\* A packet restarts only a known generation, and a restart gives a known one.
LEMMA AppendKeepsKnown ==
    ASSUME KnownInv, NEW place \in {"append", "dispatch"}, AppendPacket(place)
    PROVE  KnownInv'
BY DEF KnownInv, PollsOnlyKnown, AppendPacket, Refused

\* Every step of the main loop keeps the generation known.
LEMMA MainLoopKeepsKnown == ASSUME KnownInv, MainLoop PROVE KnownInv'
<1> USE DEF KnownInv, PollsOnlyKnown
<1>1. CASE DropEngine
  BY <1>1 DEF DropEngine, session
<1>2. CASE LoopTop \/ AppendsDone
  BY <1>2 DEF LoopTop, AppendsDone
<1>3. CASE AppendPacket("append") \/ AppendPacket("dispatch")
  BY <1>3, AppendKeepsKnown
<1>4. CASE Throttle \/ ThrottleRefused
  BY <1>4 DEF Throttle, ThrottleRefused, Refused
<1>5. CASE Poll
  BY <1>5 DEF Poll, Endings
<1>6. CASE Speak \/ DispatchEnds
  BY <1>6 DEF Speak, DispatchEnds
<1>7. CASE CancelPolls
  BY <1>7 DEF CancelPolls, Start
<1>8. CASE PauseStarted
  BY <1>8 DEF PauseStarted, Accepts, Refused
<1>9. CASE InputFails \/ WaitOverForMouth
  BY <1>9 DEF InputFails, WaitOverForMouth, Start
<1> QED
  BY <1>1, <1>2, <1>3, <1>4, <1>5, <1>6, <1>7, <1>8, <1>9 DEF MainLoop

\* At first the generation is known.
LEMMA InitKnown == Init => KnownInv
BY DEF Init, KnownInv, PollsOnlyKnown

\* Every step keeps it known.
LEMMA StepKeepsKnown == ASSUME KnownInv, [Next]_vars PROVE KnownInv'
<1>1. CASE CtrlC \/ UNCHANGED vars
  BY <1>1 DEF CtrlC, vars, session, KnownInv, PollsOnlyKnown
<1> QED
  BY <1>1, GenerateKeepsKnown, MainLoopKeepsKnown DEF Next

\* The loop polls and cancels only a generation the engine still has.
THEOREM GenerationIsKnown == Spec => []PollsOnlyKnown
<1>1. KnownInv => PollsOnlyKnown
  BY DEF KnownInv
<1> QED
  BY <1>1, InitKnown, StepKeepsKnown, PTL DEF Spec

(***************************************************************************)
(* Types: what a thread that has returned still has to send is an ending.  *)
(***************************************************************************)
TypeInv == TypeOK /\ (worker = "returned" => outcome \in Endings)

LEMMA GenerateKeepsType == ASSUME TypeInv, Generate PROVE TypeInv'
<1> USE DEF TypeInv, TypeOK, Endings, Goto, Returns
<1>1. UNCHANGED <<session, interrupted>>
  BY DEF Generate
<1>2. CASE DecodePrompt \/ LoopHead
  BY <1>1, <1>2 DEF DecodePrompt, LoopHead, session
<1>3. CASE TakeControl
  <2>1. controls' \in Seq({"Append", "Hold", "Release"})
    BY <1>3 DEF TakeControl
  <2>4. held' \in BOOLEAN
    BY <1>3 DEF TakeControl
  <2>2. /\ worker' \in {"controls", "held", "returned"} /\ outcome' \in Endings \cup {"none"}
        /\ worker' = "returned" => outcome' \in Endings
    BY <1>3 DEF TakeControl
  <2>3. UNCHANGED <<events, cancel>>
    BY <1>3 DEF TakeControl
  <2> QED
    BY <1>1, <2>1, <2>2, <2>3, <2>4 DEF session
<1>4. CASE ControlsDrained \/ WaitOver
  BY <1>1, <1>4 DEF ControlsDrained, WaitOver, session
<1>5. CASE Sample
  <2>1. events' \in Seq({"Token"} \cup Endings)
    BY <1>5 DEF Sample
  <2> QED
    BY <1>1, <1>5, <2>1 DEF Sample, session
<1>6. CASE SendEnd
  <2>1. events' \in Seq({"Token"} \cup Endings)
    BY <1>6 DEF SendEnd
  <2> QED
    BY <1>1, <1>6, <2>1 DEF SendEnd, session
<1> QED
  BY <1>2, <1>3, <1>4, <1>5, <1>6 DEF Generate

LEMMA StartGivesType ==
    ASSUME TypeInv, Start, UNCHANGED <<batch, throttled, cancelled, failure, interrupted>>,
           after' \in {"top", "append", "dispatch"}, mouth' \in {"silent", "speaking", "paused"}
    PROVE  TypeInv'
<1>1. controls' \in Seq({"Append", "Hold", "Release"}) /\ events' \in Seq({"Token"} \cup Endings)
  BY DEF Start
<1> QED
  BY <1>1 DEF Start, TypeInv, TypeOK, Endings

LEMMA MainLoopKeepsType == ASSUME TypeInv, MainLoop PROVE TypeInv'
<1> USE DEF TypeInv, TypeOK, Endings
<1>1. CASE DropEngine
  BY <1>1 DEF DropEngine, session
<1>2. CASE LoopTop
  BY <1>2 DEF LoopTop
<1>3. ASSUME NEW place \in {"append", "dispatch"}, AppendPacket(place) PROVE TypeInv'
  <2>1. controls' \in Seq({"Append", "Hold", "Release"})
    BY <1>3 DEF AppendPacket, Send
  <2>2. cancel' \in BOOLEAN /\ after' \in {"top", "append", "dispatch"}
    BY <1>3 DEF AppendPacket
  <2>3. /\ main' \in {"append", "dispatch", "cancelling", "failed"}
        /\ failure' \in {"none", "append", "generation", "input"}
    BY <1>3 DEF AppendPacket, Refused
  <2>4. UNCHANGED <<worker, held, outcome, events, active, batch, throttled, mouth, cancelled, interrupted>>
    BY <1>3 DEF AppendPacket
  <2> QED
    BY <2>1, <2>2, <2>3, <2>4
<1>4. CASE AppendsDone \/ InputFails \/ ThrottleRefused \/ Speak
  BY <1>4 DEF AppendsDone, InputFails, ThrottleRefused, Speak, Refused, generation
<1>5. CASE Throttle
  <2>1. controls' \in Seq({"Append", "Hold", "Release"})
    BY <1>5 DEF Throttle, SetPaused
  <2> QED
    BY <1>5, <2>1 DEF Throttle, MustHold
<1>6. CASE Poll
  <2>1. batch' \in {"tokens"} \cup Endings /\ main' \in {"top", "dispatch"} /\ active' \in BOOLEAN
    BY <1>6 DEF Poll
  <2>2. events' \in Seq({"Token"} \cup Endings)
    BY <1>6 DEF Poll
  <2> QED
    BY <1>6, <2>1, <2>2 DEF Poll
<1>7. CASE DispatchEnds
  BY <1>7 DEF DispatchEnds, generation
<1>8. CASE CancelPolls
  <2>1. CASE Start
    BY <1>8, <2>1, StartGivesType DEF CancelPolls
  <2>2. CASE events' = <<>> /\ UNCHANGED <<worker, held, outcome, controls, cancel, active, main>>
    <3>1. events' \in Seq({"Token"} \cup Endings)
      BY <2>2
    <3> QED
      BY <1>8, <2>2, <3>1 DEF CancelPolls
  <2> QED
    BY <1>8, <2>1, <2>2 DEF CancelPolls
<1>9. CASE PauseStarted
  <2>1. controls' \in Seq({"Append", "Hold", "Release"})
    BY <1>9 DEF PauseStarted, Send
  <2> QED
    BY <1>9, <2>1 DEF PauseStarted, Refused
<1>10. CASE WaitOverForMouth
  <2>1. CASE cancelled
    BY <1>10, <2>1 DEF WaitOverForMouth, generation
  <2>2. CASE Start
    BY <1>10, <2>2, StartGivesType DEF WaitOverForMouth
  <2> QED
    BY <1>10, <2>1, <2>2 DEF WaitOverForMouth
<1> QED
  BY <1>1, <1>2, <1>3, <1>4, <1>5, <1>6, <1>7, <1>8, <1>9, <1>10 DEF MainLoop

LEMMA InitType == Init => TypeInv
<1> SUFFICES ASSUME Init PROVE TypeInv
  OBVIOUS
<1>1. controls \in Seq({"Append", "Hold", "Release"}) /\ events \in Seq({"Token"} \cup Endings)
  BY DEF Init, Fresh
<1>2. held \in BOOLEAN /\ cancel \in BOOLEAN /\ active \in BOOLEAN
  BY DEF Init, Fresh
<1>3. throttled \in BOOLEAN /\ interrupted \in BOOLEAN /\ cancelled \in BOOLEAN
  BY DEF Init
<1> QED
  BY <1>1, <1>2, <1>3 DEF Init, Fresh, TypeInv, TypeOK, Endings

LEMMA StepKeepsType == ASSUME TypeInv, [Next]_vars PROVE TypeInv'
<1>1. CASE CtrlC \/ UNCHANGED vars
  <2>1. UNCHANGED <<generation, session>> /\ interrupted' \in BOOLEAN
    BY <1>1 DEF CtrlC, vars, TypeInv, TypeOK
  <2> QED
    BY <2>1 DEF session, generation, TypeInv, TypeOK
<1> QED
  BY <1>1, GenerateKeepsType, MainLoopKeepsType DEF Next

\* Every variable of the generation, its channels and the loop keeps its type;
\* in particular a thread never returns without a last event to send.
THEOREM TypeCorrect == Spec => []TypeOK
<1>1. TypeInv => TypeOK
  BY DEF TypeInv
<1> QED
  BY <1>1, InitType, StepKeepsType, PTL DEF Spec

(***************************************************************************)
(* The throttle.                                                           *)
(***************************************************************************)
\* A generation is paused at its start only for the throttle.
StartedThrottled == main = "started" => throttled

\* A control that is sent decides, unless it is an append.
LEMMA SendDecides ==
    ASSUME TypeInv, NEW control \in {"Append", "Hold", "Release"}, Send(control), UNCHANGED held
    PROVE  HeldInTheEnd' <=> control = "Hold" \/ (control = "Append" /\ HeldInTheEnd)
<1>1. /\ controls \in Seq({"Append", "Hold", "Release"}) /\ Len(controls) \in Nat
      /\ controls' = Append(controls, control)
  BY LenProperties DEF TypeInv, TypeOK, Send
<1>2. /\ Len(controls') = Len(controls) + 1 /\ controls'[Len(controls) + 1] = control
      /\ \A i \in 1 .. Len(controls) : controls'[i] = controls[i]
  BY <1>1, AppendProperties
<1>3. \A from \in Nat \ {0} : OnlyAppends(from)' <=>
         (from <= Len(controls) + 1 => control = "Append") /\ OnlyAppends(from)
  BY <1>1, <1>2 DEF OnlyAppends
<1>4. CASE control = "Append"
  <2>1. \A from \in 1 .. Len(controls) + 1 : OnlyAppends(from)' <=> OnlyAppends(from)
    BY <1>1, <1>3, <1>4
  <2> QED
    BY <1>1, <1>2, <1>4, <2>1 DEF HeldInTheEnd
<1>5. CASE control = "Hold"
  <2>0. PICK n \in Nat : n = Len(controls) + 1
    BY <1>1
  <2>1. OnlyAppends(n + 1)'
    BY <1>1, <1>2, <2>0 DEF OnlyAppends
  <2>2. n \in 1 .. Len(controls') /\ controls'[n] = "Hold"
    BY <1>1, <1>2, <1>5, <2>0
  <2>3. HeldInTheEnd'
    BY <2>1, <2>2 DEF HeldInTheEnd
  <2> QED
    BY <1>5, <2>3
<1>6. CASE control = "Release"
  <2>1. \A from \in 1 .. Len(controls) + 1 : ~OnlyAppends(from)'
    BY <1>1, <1>3, <1>6
  <2> QED
    BY <1>1, <1>2, <1>6, <2>1 DEF HeldInTheEnd
<1> QED
  BY <1>4, <1>5, <1>6

\* Taking a control changes nothing of what will be in the end.
LEMMA TakeKeepsEnd ==
    ASSUME TypeInv, TakeControl PROVE HeldInTheEnd' <=> HeldInTheEnd
<1>1. /\ controls \in Seq({"Append", "Hold", "Release"}) /\ controls # <<>> /\ controls' = Tail(controls)
      /\ held \in BOOLEAN
      /\ held' <=> Head(controls) = "Hold" \/ (Head(controls) = "Append" /\ held)
  BY DEF TypeInv, TypeOK, TakeControl
<1>2. /\ Len(controls) \in Nat \ {0} /\ Len(controls') = Len(controls) - 1
      /\ \A i \in 1 .. Len(controls') : controls'[i] = controls[i + 1]
      /\ Head(controls) = controls[1]
  BY <1>1, HeadTailProperties, EmptySeq, LenProperties
<1>3. \A from \in Nat \ {0} : OnlyAppends(from)' <=> OnlyAppends(from + 1)
  <2> SUFFICES ASSUME NEW from \in Nat \ {0} PROVE OnlyAppends(from)' <=> OnlyAppends(from + 1)
    OBVIOUS
  <2>1. ASSUME OnlyAppends(from)', NEW i \in from + 1 .. Len(controls) PROVE controls[i] = "Append"
    <3>1. i - 1 \in from .. Len(controls') /\ controls'[i - 1] = controls[(i - 1) + 1]
      BY <1>2
    <3> QED
      BY <2>1, <3>1 DEF OnlyAppends
  <2>2. ASSUME OnlyAppends(from + 1), NEW i \in from .. Len(controls') PROVE controls'[i] = "Append"
    <3>1. i + 1 \in from + 1 .. Len(controls) /\ controls'[i] = controls[i + 1]
      BY <1>2
    <3> QED
      BY <2>2, <3>1 DEF OnlyAppends
  <2> QED
    BY <2>1, <2>2 DEF OnlyAppends
<1>4. OnlyAppends(1) <=> controls[1] = "Append" /\ OnlyAppends(2)
  BY <1>2 DEF OnlyAppends
<1>5. (\E i \in 1 .. Len(controls') : controls'[i] = "Hold" /\ OnlyAppends(i + 1)')
      <=> (\E i \in 2 .. Len(controls) : controls[i] = "Hold" /\ OnlyAppends(i + 1))
  <2>1. ASSUME NEW i \in 1 .. Len(controls'), controls'[i] = "Hold", OnlyAppends(i + 1)'
        PROVE  \E k \in 2 .. Len(controls) : controls[k] = "Hold" /\ OnlyAppends(k + 1)
    <3>1. i + 1 \in 2 .. Len(controls) /\ controls[i + 1] = "Hold" /\ i + 1 \in Nat \ {0}
      BY <1>2, <2>1
    <3>2. OnlyAppends((i + 1) + 1)
      BY <1>3, <2>1, <3>1
    <3> QED
      BY <3>1, <3>2
  <2>2. ASSUME NEW i \in 2 .. Len(controls), controls[i] = "Hold", OnlyAppends(i + 1)
        PROVE  \E k \in 1 .. Len(controls') : controls'[k] = "Hold" /\ OnlyAppends(k + 1)'
    <3>1. i - 1 \in 1 .. Len(controls') /\ controls'[i - 1] = controls[(i - 1) + 1]
          /\ (i - 1) + 1 = i /\ i \in Nat \ {0}
      BY <1>2
    <3>2. controls'[i - 1] = "Hold" /\ OnlyAppends((i - 1) + 1)'
      BY <1>3, <2>2, <3>1
    <3> QED
      BY <3>1, <3>2
  <2> QED
    BY <2>1, <2>2
<1>6. (\E i \in 1 .. Len(controls) : controls[i] = "Hold" /\ OnlyAppends(i + 1))
      <=> \/ controls[1] = "Hold" /\ OnlyAppends(2)
          \/ \E i \in 2 .. Len(controls) : controls[i] = "Hold" /\ OnlyAppends(i + 1)
  BY <1>2
<1>7. OnlyAppends(1)' <=> OnlyAppends(2)
  BY <1>3
<1> QED
  BY <1>1, <1>2, <1>4, <1>5, <1>6, <1>7 DEF HeldInTheEnd

\* No thread comes back from its return.
LEMMA GenerateKeepsThrottle ==
    ASSUME TypeInv, ThrottleIsDelivered, Generate PROVE ThrottleIsDelivered'
<1>1. UNCHANGED <<active, main, throttled>>
  BY DEF Generate, session
<1>2. Accepts' => Accepts
  BY <1>1 DEF Generate, Accepts, DecodePrompt, LoopHead, TakeControl, ControlsDrained, WaitOver,
              Sample, SendEnd, Goto, Returns
<1>3. HeldInTheEnd' <=> HeldInTheEnd
  <2>1. CASE TakeControl
    BY <2>1, TakeKeepsEnd
  <2>2. CASE DecodePrompt \/ LoopHead \/ ControlsDrained \/ WaitOver \/ Sample \/ SendEnd
    <3>1. UNCHANGED <<held, controls>>
      BY <2>2 DEF DecodePrompt, LoopHead, ControlsDrained, WaitOver, Sample, SendEnd
    <3> QED
      BY <3>1 DEF HeldInTheEnd, OnlyAppends
  <2> QED
    BY <2>1, <2>2 DEF Generate
<1> QED
  BY <1>1, <1>2, <1>3 DEF ThrottleIsDelivered

\* A new generation is not paused, and is on its way to be if the loop throttles.
LEMMA StartKeepsThrottle ==
    ASSUME Start, after' \notin {"started", "cancelling"}, throttled \in BOOLEAN, UNCHANGED throttled
    PROVE  ThrottleIsDelivered'
<1>1. held' = FALSE /\ controls' = <<>> /\ (main' = "started" \/ ~throttled)
  BY DEF Start
<1>2. Len(controls') = 0
  BY <1>1
<1>3. ~HeldInTheEnd'
  BY <1>1, <1>2 DEF HeldInTheEnd
<1> QED
  BY <1>1, <1>3 DEF ThrottleIsDelivered

LEMMA MainLoopKeepsThrottle ==
    ASSUME TypeInv, StartedThrottled, ThrottleIsDelivered, MainLoop PROVE ThrottleIsDelivered'
<1>a. throttled \in BOOLEAN /\ after \in {"top", "append", "dispatch"}
  BY DEF TypeInv, TypeOK
<1>1. CASE UNCHANGED <<worker, held, controls, throttled>> /\ (active' => active)
           /\ main \notin {"started", "cancelling"}
  BY <1>1 DEF ThrottleIsDelivered, HeldInTheEnd, OnlyAppends, Accepts
<1>2. CASE DropEngine \/ LoopTop \/ AppendsDone \/ ThrottleRefused \/ Poll \/ Speak \/ DispatchEnds
           \/ InputFails
  BY <1>1, <1>2 DEF DropEngine, LoopTop, AppendsDone, ThrottleRefused, Poll, Speak, DispatchEnds,
                    InputFails, generation, session
<1>3. ASSUME NEW place \in {"append", "dispatch"}, AppendPacket(place) PROVE ThrottleIsDelivered'
  <2>1. CASE Send("Append") /\ UNCHANGED <<worker, held, active, main, throttled>>
    <3>1. HeldInTheEnd' <=> HeldInTheEnd
      BY <2>1, SendDecides
    <3> QED
      BY <2>1, <3>1 DEF ThrottleIsDelivered, Accepts
  <2>2. CASE UNCHANGED <<worker, held, controls, active, throttled>>
    BY <1>3, <2>2, <1>1 DEF AppendPacket
  <2> QED
    BY <1>3, <2>1, <2>2 DEF AppendPacket, Refused
<1>4. CASE Throttle
  <2>1. CASE throttled = MustHold
    BY <1>1, <1>4, <2>1 DEF Throttle
  <2>2. CASE throttled # MustHold
    <3>1. Send(SetPaused) /\ UNCHANGED held /\ SetPaused \in {"Append", "Hold", "Release"}
      BY <1>4, <2>2 DEF Throttle, Send, SetPaused
    <3>2. HeldInTheEnd' <=> SetPaused = "Hold" \/ (SetPaused = "Append" /\ HeldInTheEnd)
      BY <3>1, SendDecides
    <3>3. throttled' <=> MustHold
      BY <1>4 DEF Throttle
    <3>4. SetPaused = "Hold" <=> MustHold
      BY DEF SetPaused
    <3>5. SetPaused # "Append"
      BY DEF SetPaused
    <3> QED
      BY <3>2, <3>3, <3>4, <3>5 DEF ThrottleIsDelivered
  <2> QED
    BY <2>1, <2>2
<1>5. CASE CancelPolls
  <2>1. CASE Start
    BY <1>a, <1>5, <2>1, StartKeepsThrottle DEF CancelPolls
  <2>2. CASE UNCHANGED main
    BY <1>5, <2>2 DEF CancelPolls, ThrottleIsDelivered
  <2> QED
    BY <1>5, <2>1, <2>2 DEF CancelPolls
<1>6. CASE PauseStarted
  <2>1. CASE Send("Hold")
    <3>1. HeldInTheEnd'
      BY <1>6, <2>1, SendDecides DEF PauseStarted
    <3>2. throttled'
      BY <1>6 DEF PauseStarted, StartedThrottled
    <3> QED
      BY <3>1, <3>2 DEF ThrottleIsDelivered
  <2>2. CASE Refused
    BY <1>6, <2>2 DEF PauseStarted, Refused, Accepts, ThrottleIsDelivered
  <2> QED
    BY <1>6, <2>1, <2>2 DEF PauseStarted
<1>7. CASE WaitOverForMouth
  <2>1. CASE cancelled
    BY <1>1, <1>7, <2>1 DEF WaitOverForMouth, generation
  <2>2. CASE Start
    BY <1>a, <1>7, <2>2, StartKeepsThrottle DEF WaitOverForMouth
  <2> QED
    BY <1>7, <2>1, <2>2 DEF WaitOverForMouth
<1> QED
  BY <1>2, <1>3, <1>4, <1>5, <1>6, <1>7 DEF MainLoop

\* The throttle is never lost: a generation that has read its controls is paused
\* exactly if the main loop throttles, whatever was appended, paused, cancelled
\* and restarted in between.
THEOREM ThrottleArrives == Spec => []ThrottleIsDelivered
<1> DEFINE Inv == TypeInv /\ StartedThrottled /\ ThrottleIsDelivered
<1>1. Init => Inv
  <2> SUFFICES ASSUME Init PROVE Inv
    OBVIOUS
  <2>1. TypeInv
    BY InitType
  <2>2. Len(controls) = 0 /\ held = FALSE /\ throttled = FALSE
    BY DEF Init, Fresh
  <2>3. StartedThrottled /\ ThrottleIsDelivered
    BY <2>2 DEF Init, StartedThrottled, ThrottleIsDelivered, HeldInTheEnd
  <2> QED
    BY <2>1, <2>3
<1>2. Inv /\ [Next]_vars => Inv'
  <2> SUFFICES ASSUME TypeInv, StartedThrottled, ThrottleIsDelivered, [Next]_vars PROVE Inv'
    OBVIOUS
  <2>1. TypeInv'
    BY StepKeepsType
  <2>2. StartedThrottled'
    <3>1. CASE Generate \/ CtrlC \/ UNCHANGED vars
      BY <3>1 DEF Generate, CtrlC, vars, session, StartedThrottled
    <3>2. CASE MainLoop
      <4>1. after \notin {"started"} /\ after' \notin {"started"}
        BY <2>1 DEF TypeInv, TypeOK
      <4> QED
        BY <3>2, <4>1 DEF MainLoop, StartedThrottled, DropEngine, LoopTop, AppendPacket, AppendsDone,
           Throttle, ThrottleRefused, Poll, Speak, DispatchEnds, CancelPolls, PauseStarted, InputFails,
           WaitOverForMouth, Start, Refused, session
    <3> QED
      BY <3>1, <3>2 DEF Next
  <2>3. ThrottleIsDelivered'
    <3>1. CASE CtrlC \/ UNCHANGED vars
      BY <3>1 DEF CtrlC, vars, session, generation, ThrottleIsDelivered, HeldInTheEnd, OnlyAppends, Accepts
    <3> QED
      BY <3>1, GenerateKeepsThrottle, MainLoopKeepsThrottle DEF Next
  <2> QED
    BY <2>1, <2>2, <2>3
<1>3. Inv => ThrottleIsDelivered
  OBVIOUS
<1> QED
  BY <1>1, <1>2, <1>3, PTL DEF Spec

(***************************************************************************)
(* Restarts.  The last event of a generation is what the loop waits for    *)
(* before it starts another.                                               *)
(***************************************************************************)
\* A thread sends one ending, after everything else; the engine knows the
\* generation until that is polled.  An ending that was polled is being
\* dispatched, or the loop waits for the mouth.
EndInv ==
    /\ \A i \in DOMAIN events : events[i] \in Endings => worker = "sent" /\ i = Len(events)
    /\ active /\ worker = "sent" => events # <<>> /\ Last(events) \in Endings
    /\ main = "cancelling" => cancel
    /\ main = "wait" \/ (main = "dispatch" /\ batch \in Endings) => worker = "sent"
    /\ main = "dispatch" /\ active => batch = "tokens"
    /\ main \in {"cancelling", "started"} /\ after = "dispatch" => batch = "tokens"

\* The ending is the last event, when there is one.
LEMMA LastIsEnding ==
    ASSUME TypeInv, EndInv, events # <<>>, Last(events) \in Endings
    PROVE  worker = "sent"
<1>1. Len(events) \in DOMAIN events
  BY DEF TypeInv, TypeOK
<1> QED
  BY <1>1 DEF EndInv, Last

\* Appending an event to those of a thread that has not sent its last.
LEMMA AppendEvent ==
    ASSUME TypeInv, EndInv, worker # "sent", NEW event \in {"Token"} \cup Endings
    PROVE  LET more == Append(events, event)
           IN  /\ \A i \in DOMAIN more : more[i] \in Endings => i = Len(more) /\ event \in Endings
               /\ more # <<>> /\ Last(more) = event
<1> DEFINE more == Append(events, event)
<1>1. /\ events \in Seq({"Token"} \cup Endings) /\ Len(events) \in Nat /\ Len(more) = Len(events) + 1
      /\ DOMAIN events = 1..Len(events) /\ DOMAIN more = 1..Len(more)
      /\ more[Len(more)] = event /\ \A i \in 1..Len(events) : more[i] = events[i]
  BY DEF TypeInv, TypeOK
<1>2. \A i \in DOMAIN events : events[i] \notin Endings
  BY DEF EndInv
<1> HIDE DEF more
<1>3. \A i \in DOMAIN more : more[i] \in Endings => i = Len(more) /\ event \in Endings
  BY <1>1, <1>2
<1>4. more # <<>> /\ Last(more) = event
  BY <1>1 DEF Last
<1> QED
  BY <1>3, <1>4 DEF more

\* The thread ends once, and tells so.
LEMMA GenerateKeepsEnd == ASSUME TypeInv, EndInv, Generate PROVE EndInv'
<1>1. worker # "sent" /\ UNCHANGED session /\ UNCHANGED cancel
  BY DEF Generate, DecodePrompt, LoopHead, TakeControl, ControlsDrained, WaitOver, Sample, SendEnd
<1>2. CASE SendEnd
  <2>1. outcome \in Endings /\ worker' = "sent" /\ events' = Append(events, outcome)
    BY <1>2 DEF SendEnd, Goto, TypeInv
  <2> QED
    BY <1>1, <2>1, AppendEvent DEF EndInv, session
<1>3. CASE worker' # "sent" /\ events' \in {events, Append(events, "Token")}
  <2>1. \A i \in DOMAIN events' : events'[i] \notin Endings
    BY <1>1, <1>3, AppendEvent DEF EndInv, Endings
  <2> QED
    BY <1>1, <1>3, <2>1 DEF EndInv, session
<1> QED
  BY <1>2, <1>3 DEF Generate, DecodePrompt, LoopHead, TakeControl, ControlsDrained, WaitOver, Sample,
                    Goto, Returns

\* Starting a generation: nothing has been heard of it.
LEMMA StartGivesEnd ==
    ASSUME Start, UNCHANGED batch, after' \in {"top", "append", "dispatch"},
           after' = "dispatch" => batch = "tokens"
    PROVE  EndInv'
<1>1. DOMAIN events' = {}
  BY DEF Start
<1> QED
  BY <1>1 DEF Start, EndInv, Endings

\* Nothing else the loop does brings an event of a generation or ends it.
LEMMA MainLoopKeepsEnd == ASSUME TypeInv, KnownInv, EndInv, MainLoop PROVE EndInv'
<1> USE DEF EndInv
<1>0. DOMAIN <<>> = {}
  OBVIOUS
<1>1. CASE DropEngine \/ LoopTop \/ AppendsDone
  BY <1>1 DEF DropEngine, LoopTop, AppendsDone, generation, session
<1>2. ASSUME NEW place \in {"append", "dispatch"}, AppendPacket(place) PROVE EndInv'
  BY <1>2 DEF AppendPacket, Refused
<1>3. CASE Throttle \/ ThrottleRefused
  BY <1>3 DEF Throttle, ThrottleRefused, Refused, generation
<1>4. CASE Poll
  <2>1. active
    BY <1>4 DEF Poll, KnownInv, PollsOnlyKnown
  <2>2. CASE events = <<>>
    BY <1>4, <2>1, <2>2 DEF Poll
  <2>3. CASE events # <<>> /\ Last(events) \in Endings
    BY <1>0, <1>4, <2>3, LastIsEnding DEF Poll, Endings
  <2>4. CASE events # <<>> /\ Last(events) \notin Endings
    BY <1>0, <1>4, <2>1, <2>4 DEF Poll, Endings
  <2> QED
    BY <2>2, <2>3, <2>4
<1>5. CASE Speak \/ DispatchEnds
  BY <1>5 DEF Speak, DispatchEnds, generation, Endings
<1>6. CASE CancelPolls
  <2>1. active /\ events # <<>> /\ after' = after /\ UNCHANGED batch /\ main = "cancelling"
    BY <1>6 DEF CancelPolls, KnownInv, PollsOnlyKnown
  <2>2. CASE Last(events) \in Endings
    BY <1>6, <2>1, <2>2, StartGivesEnd DEF CancelPolls, TypeInv, TypeOK
  <2>3. CASE Last(events) \notin Endings
    BY <1>0, <1>6, <2>1, <2>3 DEF CancelPolls
  <2> QED
    BY <2>2, <2>3
<1>7. CASE PauseStarted
  BY <1>7 DEF PauseStarted, Accepts, Refused, TypeInv, TypeOK, Endings
<1>8. CASE InputFails
  BY <1>8 DEF InputFails, generation
<1>9. CASE WaitOverForMouth
  <2>1. CASE cancelled
    BY <1>9, <2>1 DEF WaitOverForMouth, generation
  <2>2. CASE ~cancelled
    BY <1>9, <2>2, StartGivesEnd DEF WaitOverForMouth
  <2> QED
    BY <2>1, <2>2
<1> QED
  BY <1>1, <1>2, <1>3, <1>4, <1>5, <1>6, <1>7, <1>8, <1>9 DEF MainLoop

\* What is known of the endings holds of every behaviour, with the types and the
\* generations that are known.
LEMMA EndHolds == Spec => [](TypeInv /\ KnownInv /\ EndInv)
<1>1. Init => EndInv
  <2>1. Init => DOMAIN events = {}
    BY DEF Init, Fresh
  <2> QED
    BY <2>1 DEF Init, Fresh, EndInv, Endings
<1>2. TypeInv /\ KnownInv /\ EndInv /\ [Next]_vars => EndInv'
  <2>1. CtrlC \/ UNCHANGED vars => UNCHANGED <<generation, session>>
    BY DEF CtrlC, vars
  <2>2. UNCHANGED <<generation, session>> /\ EndInv => EndInv'
    BY DEF generation, session, EndInv
  <2> QED
    BY <2>1, <2>2, GenerateKeepsEnd, MainLoopKeepsEnd DEF Next
<1> QED
  BY <1>1, <1>2, InitType, StepKeepsType, InitKnown, StepKeepsKnown, PTL DEF Spec

\* The safety half of RestartComesBack: what the loop waits for is told to end,
\* and its last event is never lost, neither to a poll nor to the events that
\* the restart drops.
THEOREM RestartIsAnswered == Spec => []RestartWillEnd
<1>1. TypeInv /\ KnownInv /\ EndInv => RestartWillEnd
  BY DEF EndInv, KnownInv, PollsOnlyKnown, RestartWillEnd
<1> QED
  BY <1>1, EndHolds, PTL

\* One generation has ended before the next begins: the loop starts one only on
\* the last event of the one before, polled in a restart or dispatched.
THEOREM OneGenerationAtATime == Spec => StartsAfterTheLast
<1>1. TypeInv /\ KnownInv /\ EndInv /\ [Next]_vars => [Restarts => worker = "sent" /\ worker' = "prompt"]_vars
  <2> SUFFICES ASSUME TypeInv, EndInv, Next, Restarts PROVE worker = "sent" /\ worker' = "prompt"
    OBVIOUS
  <2>1. CancelPolls \/ WaitOverForMouth
    BY DEF Restarts, Next, MainLoop, Generate, CtrlC, DropEngine, LoopTop, AppendPacket, AppendsDone,
           Throttle, ThrottleRefused, Poll, Speak, DispatchEnds, PauseStarted, InputFails, session
  <2>2. CASE CancelPolls
    <3>1. Last(events) \in Endings /\ events # <<>> /\ Start
      BY <2>2 DEF CancelPolls, Restarts
    <3> QED
      BY <3>1, LastIsEnding DEF Start
  <2>3. CASE WaitOverForMouth
    BY <2>3 DEF WaitOverForMouth, Restarts, EndInv, Start
  <2> QED
    BY <2>1, <2>2, <2>3
<1> QED
  BY <1>1, EndHolds, PTL DEF Spec, StartsAfterTheLast
=============================================================================
