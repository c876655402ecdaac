------------------------ MODULE SimplexSession_proofs ------------------------
(***************************************************************************)
(* Proofs about SimplexSession, for any sizes of the queues and any number *)
(* of turns: Pete is heard as a user only if a microphone was on, or was   *)
(* turned on, while his audio came out; and the router leaves one          *)
(* microphone on.                                                          *)
(***************************************************************************)
EXTENDS SimplexSession, SequenceTheorems, TLAPS

\* What anyone but Pete says, and what of it is speech.
Others == {"quiet", "user"}

\* As long as no microphone was on while Pete was heard, his voice is nowhere
\* between the microphones and the transcriber; and while he is heard, both
\* microphones are off.
NoTraceOfPete ==
    ~letIn =>
        /\ inHand # "pete" /\ group # "pete"
        /\ browserQueue \in Seq(Others) /\ nativeQueue \in Seq(Others)
        /\ ring \in Seq(Others) /\ closed \in Seq({"user"})
        /\ loop = "play" => ~native /\ ~browser

\* The queues of sounds, whatever the sounds are drawn from, keep their type.
LEMMA SoundsKept ==
  ASSUME NEW S, NEW s \in Seq(S), NEW t \in Seq(S), NEW x \in S
  PROVE  /\ Append(s, x) \in Seq(S)
         /\ s # <<>> => Tail(s) \in Seq(S) /\ Head(s) \in S
         /\ Fitting(s) \in Seq(S)
         /\ s \o t \in Seq(S)
<1>1. Append(s, x) \in Seq(S) /\ s \o t \in Seq(S)
  OBVIOUS
<1>2. s # <<>> => Tail(s) \in Seq(S) /\ Head(s) \in S
  OBVIOUS
<1>3. Fitting(s) \in Seq(S)
  <2>1. Len(s) \in Nat
    BY LenProperties
  <2>2. CASE Len(s) < RingSize
    BY <2>1, <2>2, SubSeqProperties DEF Fitting
  <2>3. CASE ~(Len(s) < RingSize)
    BY <2>1, <2>3, SubSeqProperties, SessionAssumption DEF Fitting
  <2> QED
    BY <2>2, <2>3
<1> QED
  BY <1>1, <1>2, <1>3

\* A request changes gates and queues within their types, and leaves the rest.
LEMMA RequestTyped ==
  ASSUME RouterTypeOK, Request \/ SendAudio
  PROVE  RouterTypeOK'
<1> USE DEF RouterTypeOK, Sounds, queues
<1>1. CASE Request
  BY <1>1 DEF Request, EnableBrowser, BrowserTakesOver, EnableNative, NativeTakesOver, Disable
<1>2. CASE SendAudio
  <2>1. browserQueue \in Seq(Sounds) /\ inHand \in Sounds
    BY <1>2 DEF SendAudio
  <2>2. Append(browserQueue, inHand) \in Seq(Sounds)
    BY <2>1, SoundsKept
  <2> QED
    BY <1>2, <2>2 DEF SendAudio
<1> QED
  BY <1>1, <1>2

\* A group is transcribed only when one is there.
GroupInHand == loop = "asr" => closed # <<>>

LEMMA GroupStaysInHand == GroupInHand /\ [Next]_vars => GroupInHand'
BY DEF GroupInHand, Next, Session, Listen, Reply, Drain, DrainInGap, ProcessFrame, FramesDone,
       GroupsDone, TakeGroup, NotWorthy, Worthy, PlanReply, GapWaits, GapInterrupted, GapReady,
       AudioOver, PlayMore, FinishReply, SessionEnds, TailExpires, Microphones, Route, vars,
       sessionVars

\* Every variable of the session and of the router keeps its type.
LEMMA TypeInductive == TypeOK /\ GroupInHand /\ [Next]_vars => TypeOK'
<1> SUFFICES ASSUME TypeOK, GroupInHand, [Next]_vars PROVE TypeOK'
  OBVIOUS
<1> USE SessionAssumption DEF TypeOK, Voices
<1>s. /\ browserQueue \in Seq(Sounds) /\ nativeQueue \in Seq(Sounds) /\ ring \in Seq(Sounds)
      /\ closed \in Seq(Voices)
  BY DEF RouterTypeOK
<1>e. <<>> \in Seq(Sounds) /\ "quiet" \in Sounds /\ "user" \in Sounds /\ "pete" \in Sounds
  BY DEF Sounds
<1>1. CASE Drain
  <2>1. browserQueue \o nativeQueue \in Seq(Sounds)
    BY <1>s, <1>e, SoundsKept
  <2>2. Fitting(browserQueue \o nativeQueue) \in Seq(Sounds)
    BY <2>1, <1>s, <1>e, SoundsKept
  <2> QED
    BY <1>1, <1>e, <2>2 DEF Drain, RouterTypeOK
<1>2. CASE DrainInGap
  <2>1. Fitting(nativeQueue) \in Seq(Sounds)
    BY <1>s, <1>e, SoundsKept
  <2> QED
    BY <1>2, <1>e, <2>1 DEF DrainInGap, RouterTypeOK
<1>3. CASE ProcessFrame
  <2>1. Head(ring) \in Sounds /\ Tail(ring) \in Seq(Sounds)
    BY <1>3, <1>s, <1>e, SoundsKept DEF ProcessFrame
  <2>2. FrameTurn \in Nat
    BY DEF FrameTurn
  <2>3. group \in Voices => Append(closed, group) \in Seq(Voices)
    BY <1>s, SoundsKept
  <2>4. RouterTypeOK'
    BY <1>3 DEF ProcessFrame, routerVars, RouterTypeOK
  <2> DEFINE sound == Head(ring)
  <2> HIDE DEF sound
  <2>5. sound \in Sounds /\ Tail(ring) \in Seq(Sounds)
    BY <2>1 DEF sound
  <2>6. CASE OpenGroup(sound)
    BY <1>3, <2>2, <2>4, <2>5, <2>6 DEF ProcessFrame, OpenGroup, Buffer, Sounds
  <2>7. CASE ContinueGroup(sound)
    BY <1>3, <2>4, <2>5, <2>7 DEF ProcessFrame, ContinueGroup
  <2>8. CASE CloseGroup(sound)
    BY <1>3, <2>2, <2>3, <2>4, <2>5, <2>8 DEF ProcessFrame, CloseGroup, Buffer
  <2>9. CASE UNCHANGED <<group, early, closed, barged, pending>>
    BY <1>3, <2>4, <2>5, <2>9 DEF ProcessFrame
  <2> QED
    BY <1>3, <2>6, <2>7, <2>8, <2>9 DEF ProcessFrame, sound
<1>4. CASE GroupsDone
  BY <1>4 DEF GroupsDone, routerVars, RouterTypeOK
<1>5. CASE NotWorthy \/ Worthy
  <2>1. closed' \in Seq(Voices)
    BY <1>5, <1>s, SoundsKept DEF NotWorthy, Worthy, GroupInHand
  <2>2. RouterTypeOK'
    BY <1>5 DEF NotWorthy, Worthy, routerVars, RouterTypeOK
  <2>3. pending' \in Nat
    BY <1>5 DEF NotWorthy, Worthy, Release
  <2>4. turns' \in 0 .. MaxTurns
    BY <1>5 DEF NotWorthy, Worthy
  <2> QED
    BY <1>5, <2>1, <2>2, <2>3, <2>4 DEF NotWorthy, Worthy
<1>6. CASE GapInterrupted \/ GapReady \/ FinishReply
  BY <1>6 DEF GapInterrupted, GapReady, FinishReply, StoreGate, queues, RouterTypeOK
<1>7. CASE \/ FramesDone \/ TakeGroup \/ PlanReply \/ GapWaits \/ AudioOver \/ PlayMore
           \/ SessionEnds \/ TailExpires
  <2>1. RouterTypeOK'
    BY <1>7 DEF FramesDone, TakeGroup, PlanReply, GapWaits, AudioOver, PlayMore, SessionEnds,
                TailExpires, routerVars, RouterTypeOK
  <2>2. CASE TakeGroup
    BY <2>1, <2>2 DEF TakeGroup, Buffer
  <2>3. CASE PlayMore
    BY <2>1, <2>3 DEF PlayMore, RouterTypeOK
  <2> QED
    BY <1>7, <2>1, <2>2, <2>3 DEF FramesDone, PlanReply, GapWaits, AudioOver, SessionEnds,
                                  TailExpires
<1>8. CASE Microphones
  <2> PICK sound \in Sounds : AdmitAudio(sound) \/ Capture(sound)
    BY <1>8, <1>e DEF Microphones, Heard
  <2>1. Append(nativeQueue, sound) \in Seq(Sounds)
    BY <1>s, SoundsKept
  <2>2. RouterTypeOK'
    BY <2>1 DEF AdmitAudio, Capture, RouterTypeOK
  <2> QED
    BY <1>8, <2>2 DEF Microphones, sessionVars
<1>9. CASE Route
  BY <1>9, RequestTyped DEF Route
<1>10. CASE UNCHANGED vars
  BY <1>10 DEF vars, routerVars, sessionVars, RouterTypeOK
<1> QED
  BY <1>1, <1>2, <1>3, <1>4, <1>5, <1>6, <1>7, <1>8, <1>9, <1>10
     DEF Next, Session, Listen, Reply

THEOREM TypeCorrect == Spec => []TypeOK
<1>1. Init => TypeOK
  <2> SUFFICES ASSUME Init PROVE TypeOK
    OBVIOUS
  <2>1. native \in BOOLEAN /\ browser \in BOOLEAN
    BY DEF Init, RouterInit
  <2>2. browserQueue \in Seq(Sounds) /\ nativeQueue \in Seq(Sounds)
    BY DEF Init, RouterInit
  <2>3. RouterTypeOK
    BY <2>1, <2>2 DEF Init, RouterInit, RouterTypeOK
  <2>4. ring \in Seq(Sounds) /\ closed \in Seq(Voices)
    BY DEF Init
  <2>5. turn \in 1 .. MaxTurns + 1 /\ turns \in 0 .. MaxTurns
    BY SessionAssumption DEF Init
  <2>6. /\ early \in BOOLEAN /\ barged \in BOOLEAN /\ speaking \in BOOLEAN /\ tail \in BOOLEAN
        /\ letIn \in BOOLEAN
    BY DEF Init
  <2> QED
    BY <2>3, <2>4, <2>5, <2>6 DEF Init, TypeOK
<1>2. Init => GroupInHand
  BY DEF Init, GroupInHand
<1> QED
  BY <1>1, <1>2, TypeInductive, GroupStaysInHand, PTL DEF Spec

\* While no microphone was on while Pete was heard, what the microphones and the
\* requests bring is not his voice.
LEMMA QuietArrives ==
  ASSUME TypeOK, NoTraceOfPete, ~letIn', Microphones \/ Route
  PROVE  NoTraceOfPete'
<1> USE DEF NoTraceOfPete
<1>0. ~letIn
  BY DEF Microphones, Route, sessionVars
<1>1. /\ ~letIn
      /\ browserQueue \in Seq(Others) /\ nativeQueue \in Seq(Others)
      /\ "quiet" \in Others /\ "user" \in Others
  BY <1>0 DEF Others
<1>2. CASE Microphones
  <2> PICK sound \in Heard : AdmitAudio(sound) \/ Capture(sound)
    BY <1>2 DEF Microphones
  <2>1. sound \in Others /\ sound # "pete"
    BY <1>1 DEF Heard, AdmitAudio, Capture, Others
  <2>2. Append(nativeQueue, sound) \in Seq(Others)
    BY <1>1, <2>1, SoundsKept
  <2> QED
    BY <1>1, <1>2, <2>1, <2>2 DEF Microphones, sessionVars, AdmitAudio, Capture
<1>3. CASE Route
  <2>1. loop = "play" => ~native' /\ ~browser'
    BY <1>1, <1>3 DEF Route
  <2>2. CASE Request
    BY <1>1, <1>3, <2>1, <2>2 DEF Route, Request, EnableBrowser, BrowserTakesOver, EnableNative,
                                  NativeTakesOver, Disable, queues
  <2>3. CASE SendAudio
    <3>1. inHand \in Others
      BY <1>1, <2>3 DEF SendAudio, TypeOK, RouterTypeOK, Sounds, Others
    <3>2. Append(browserQueue, inHand) \in Seq(Others)
      BY <1>1, <3>1, SoundsKept
    <3> QED
      BY <1>1, <1>3, <2>1, <2>3, <3>2 DEF Route, SendAudio
  <2> QED
    BY <1>3, <2>2, <2>3 DEF Route
<1> QED
  BY <1>2, <1>3

\* The session moves sounds from the queues to the open group and to the closed
\* ones; it lets no other in.
LEMMA SessionKeepsQuiet ==
  ASSUME TypeOK, GroupInHand, NoTraceOfPete, ~letIn', Session
  PROVE  NoTraceOfPete'
<1> USE DEF NoTraceOfPete
<1>0. ~letIn
  BY DEF Session, Listen, Reply, Drain, DrainInGap, ProcessFrame, FramesDone, GroupsDone,
         TakeGroup, NotWorthy, Worthy, PlanReply, GapWaits, GapInterrupted, GapReady, AudioOver,
         PlayMore, FinishReply, SessionEnds
<1>1. /\ ~letIn
      /\ browserQueue \in Seq(Others) /\ nativeQueue \in Seq(Others) /\ ring \in Seq(Others)
      /\ closed \in Seq({"user"}) /\ inHand # "pete" /\ group # "pete"
      /\ "user" \in Others
  BY <1>0 DEF Others
<1>2. <<>> \in Seq(Others)
  OBVIOUS
<1>3. CASE Drain
  <2>1. browserQueue \o nativeQueue \in Seq(Others)
    BY <1>1, SoundsKept
  <2>2. Fitting(browserQueue \o nativeQueue) \in Seq(Others)
    BY <1>1, <2>1, SoundsKept
  <2> QED
    BY <1>1, <1>2, <1>3, <2>2 DEF Drain
<1>4. CASE DrainInGap
  <2>1. Fitting(nativeQueue) \in Seq(Others)
    BY <1>1, SoundsKept
  <2> QED
    BY <1>1, <1>2, <1>4, <2>1 DEF DrainInGap
<1>5. CASE ProcessFrame
  <2>1. Head(ring) \in Others /\ Tail(ring) \in Seq(Others)
    BY <1>1, <1>5, SoundsKept DEF ProcessFrame
  <2>2. Append(closed, "user") \in Seq({"user"})
    BY <1>1, SoundsKept
  <2>3. group \in {"user", "none"}
    BY <1>1 DEF TypeOK, Voices
  <2>4. group' # "pete" /\ closed' \in Seq({"user"})
    <3> DEFINE sound == Head(ring)
    <3> HIDE DEF sound
    <3>1. sound \in {"quiet", "user"}
      BY <2>1 DEF sound, Others
    <3>2. \/ OpenGroup(sound) \/ ContinueGroup(sound) \/ CloseGroup(sound)
          \/ UNCHANGED <<group, closed>>
      BY <1>5 DEF ProcessFrame, sound
    <3> QED
      BY <1>1, <2>2, <2>3, <3>1, <3>2 DEF OpenGroup, ContinueGroup, CloseGroup
  <2> QED
    BY <1>1, <1>5, <2>1, <2>4 DEF ProcessFrame, routerVars
<1>6. CASE NotWorthy \/ Worthy
  <2>1. Tail(closed) \in Seq({"user"})
    BY <1>1, <1>6, SoundsKept DEF NotWorthy, Worthy, GroupInHand
  <2> QED
    BY <1>1, <1>6, <2>1 DEF NotWorthy, Worthy, routerVars
<1>7. CASE FramesDone \/ GroupsDone \/ TakeGroup \/ PlanReply \/ GapWaits \/ AudioOver \/ SessionEnds
  BY <1>1, <1>7 DEF FramesDone, GroupsDone, TakeGroup, PlanReply, GapWaits, AudioOver, SessionEnds,
                    routerVars
<1>8. CASE GapInterrupted \/ FinishReply
  BY <1>1, <1>8 DEF GapInterrupted, FinishReply, StoreGate, queues
<1>9. CASE GapReady
  BY <1>1, <1>9 DEF GapReady, StoreGate, queues
<1>10. CASE PlayMore
  BY <1>1, <1>10 DEF PlayMore, routerVars
<1> QED
  BY <1>3, <1>4, <1>5, <1>6, <1>7, <1>8, <1>9, <1>10 DEF Session, Listen, Reply

\* Pete hears himself as a user only if a microphone was on, or was turned on,
\* while he was heard: with queues of any size, and any requests.
THEOREM PeteIsNotHeard == Spec => []PeteHeardOnlyIfLetIn
<1>1. Init => NoTraceOfPete /\ GroupInHand
  <2>1. <<>> \in Seq(Others) /\ <<>> \in Seq({"user"})
    OBVIOUS
  <2> QED
    BY <2>1 DEF Init, RouterInit, NoTraceOfPete, GroupInHand
<1>2. TypeOK /\ GroupInHand /\ NoTraceOfPete /\ [Next]_vars => NoTraceOfPete'
  <2> SUFFICES ASSUME TypeOK, GroupInHand, NoTraceOfPete, [Next]_vars, ~letIn'
               PROVE  NoTraceOfPete'
    BY DEF NoTraceOfPete
  <2>1. CASE TailExpires
    BY <2>1 DEF TailExpires, NoTraceOfPete, routerVars
  <2>2. CASE UNCHANGED vars
    BY <2>2 DEF vars, NoTraceOfPete, routerVars, sessionVars
  <2> QED
    BY <2>1, <2>2, QuietArrives, SessionKeepsQuiet DEF Next
<1>3. TypeOK /\ NoTraceOfPete => PeteHeardOnlyIfLetIn
  <2> SUFFICES ASSUME NoTraceOfPete, ~letIn PROVE "pete" \notin {group} \cup ToSet(closed)
    BY DEF PeteHeardOnlyIfLetIn, TypeOK
  <2>1. closed \in Seq({"user"}) /\ group # "pete"
    BY DEF NoTraceOfPete
  <2>2. ToSet(closed) \subseteq {"user"}
    BY <2>1 DEF ToSet
  <2> QED
    BY <2>1, <2>2
<1> QED
  BY <1>1, <1>2, <1>3, TypeCorrect, GroupStaysInHand, PTL DEF Spec

\* Between the two stores of a request its own gate stays open, for no other
\* request can have the lock; only the session stores without it.
FirstStoreStands ==
    /\ arbitration = "browserOn" => browser
    /\ arbitration = "nativeOn" /\ lastStore = "router" => native

\* A request that enables a microphone leaves exactly one on, unless the session
\* stored into the native gate last.
THEOREM EnablingIsExclusive == Spec => EnablingLeavesOneOn
<1> USE DEF FirstStoreStands
<1>1. Init => FirstStoreStands
  BY DEF Init, RouterInit
<1>2. FirstStoreStands /\ [Next]_vars => FirstStoreStands'
  BY DEF Next, Session, Listen, Reply, Drain, DrainInGap, ProcessFrame, FramesDone,
         GroupsDone, TakeGroup, NotWorthy, Worthy, PlanReply, GapWaits, GapInterrupted, GapReady,
         AudioOver, PlayMore, FinishReply, SessionEnds, TailExpires, Microphones, Route, vars,
         sessionVars, routerVars, StoreGate, AdmitAudio, Capture, Request, SendAudio,
         EnableBrowser, BrowserTakesOver, EnableNative, NativeTakesOver, Disable
<1>3. TypeOK /\ FirstStoreStands /\ [Next]_vars
        => [arbitration # "free" /\ arbitration' = "free" /\ lastStore' = "router"
              => native' # browser']_routerVars
  <2> SUFFICES ASSUME TypeOK, FirstStoreStands, [Next]_vars, ~UNCHANGED routerVars,
                      arbitration # "free", arbitration' = "free", lastStore' = "router"
               PROVE  native' # browser'
    OBVIOUS
  <2>1. BrowserTakesOver \/ NativeTakesOver
    BY DEF Next, Session, Listen, Reply, Drain, DrainInGap, ProcessFrame, FramesDone,
           GroupsDone, TakeGroup, NotWorthy, Worthy, PlanReply, GapWaits, GapInterrupted,
           GapReady, AudioOver, PlayMore, FinishReply, SessionEnds, TailExpires, Microphones,
           Route, vars, routerVars, AdmitAudio, Capture, Request, SendAudio, EnableBrowser,
           EnableNative, Disable
  <2>2. browser \in BOOLEAN /\ native \in BOOLEAN
    BY DEF TypeOK, RouterTypeOK
  <2> QED
    BY <2>1, <2>2 DEF BrowserTakesOver, NativeTakesOver
<1> QED
  BY <1>1, <1>2, <1>3, TypeCorrect, PTL DEF Spec, EnablingLeavesOneOn

\* In the gap a group that is open is an early one, or speech has just barged in;
\* and speech can only barge in while nothing of the reply is planned.
GapInv ==
    /\ loop \in {"gap", "play", "flush"} /\ group # "none" => early
    /\ loop = "watch" /\ group # "none" => early \/ barged
    /\ loop = "watch" /\ barged => ~speaking
    /\ loop \in {"drain", "frames", "groups", "asr"} => ~speaking

LEMMA GapInductive == TypeOK /\ GapInv /\ [Next]_vars => GapInv'
<1> SUFFICES ASSUME TypeOK, GapInv, [Next]_vars PROVE GapInv'
  OBVIOUS
<1> USE DEF GapInv
<1>0. early \in BOOLEAN /\ barged \in BOOLEAN /\ speaking \in BOOLEAN
  BY DEF TypeOK
<1>1. CASE ProcessFrame
  <2> DEFINE sound == Head(ring)
  <2> HIDE DEF sound
  <2>1. /\ loop \in {"frames", "watch"} /\ loop' = loop /\ speaking' = speaking
        /\ \/ ~speaking /\ (OpenGroup(sound) \/ ContinueGroup(sound) \/ CloseGroup(sound))
           \/ UNCHANGED <<group, early, barged>>
    BY <1>1 DEF ProcessFrame, Suppressed, sound
  <2>2. CASE OpenGroup(sound)
    <3>1. ~speaking /\ group = "none"
      BY <2>1, <2>2 DEF OpenGroup
    <3>2. loop = "watch" => barged'
      BY <2>2 DEF OpenGroup
    <3> QED
      BY <2>1, <3>1, <3>2
  <2>3. CASE ContinueGroup(sound)
    BY <2>1, <2>3 DEF ContinueGroup
  <2>4. CASE CloseGroup(sound)
    BY <2>1, <2>4 DEF CloseGroup
  <2> QED
    BY <2>1, <2>2, <2>3, <2>4
<1>2. CASE Worthy
  BY <1>2 DEF Worthy
<1>3. CASE Drain
  BY <1>3 DEF Drain
<1>4. CASE DrainInGap
  BY <1>4 DEF DrainInGap
<1>5. CASE FramesDone
  BY <1>5 DEF FramesDone
<1>6. CASE GroupsDone
  BY <1>6 DEF GroupsDone
<1>7. CASE TakeGroup
  BY <1>7 DEF TakeGroup
<1>8. CASE NotWorthy
  BY <1>8 DEF NotWorthy
<1>9. CASE PlanReply
  BY <1>9 DEF PlanReply
<1>10. CASE GapWaits
  BY <1>10 DEF GapWaits
<1>11. CASE GapInterrupted
  BY <1>11 DEF GapInterrupted
<1>12. CASE GapReady
  BY <1>12 DEF GapReady
<1>13. CASE AudioOver
  BY <1>13 DEF AudioOver
<1>14. CASE PlayMore
  BY <1>14 DEF PlayMore
<1>15. CASE FinishReply
  BY <1>15 DEF FinishReply
<1>16. CASE SessionEnds
  BY <1>16 DEF SessionEnds
<1>17. CASE Microphones
  BY <1>17 DEF Microphones, sessionVars
<1>18. CASE Route
  BY <1>18 DEF Route
<1>19. CASE TailExpires
  BY <1>19 DEF TailExpires
<1>20. CASE UNCHANGED vars
  BY <1>20 DEF vars, sessionVars
<1> QED
  BY <1>1, <1>2, <1>3, <1>4, <1>5, <1>6, <1>7, <1>8, <1>9, <1>10, <1>11,
     <1>12, <1>13, <1>14, <1>15, <1>16, <1>17, <1>18, <1>19, <1>20
     DEF Next, Session, Listen, Reply

\* Speech that begins in the gap always stops the reply before it is heard.
THEOREM YieldsInTheGap == Spec => []TalksOverOnlyEarlyGroups
<1>1. Init => GapInv
  BY DEF Init, GapInv
<1>2. GapInv => TalksOverOnlyEarlyGroups
  BY DEF GapInv, TalksOverOnlyEarlyGroups
<1> QED
  BY <1>1, <1>2, GapInductive, TypeCorrect, PTL DEF Spec

\* However a reply ends, the session is not left deaf.
THEOREM ListensUndeafened == Spec => []NotDeafWhenListening
<1>1. Init => GapInv
  BY DEF Init, GapInv
<1>2. GapInv => NotDeafWhenListening
  BY DEF GapInv, NotDeafWhenListening
<1> QED
  BY <1>1, <1>2, GapInductive, TypeCorrect, PTL DEF Spec

\* Until the first group of a drain is taken the session's turn is the one that
\* its frames are counted to; what is buffered is always for the next turn, or
\* for the turn that is being transcribed.
TurnInv ==
    /\ loop \in {"drain", "frames"} \/ batch = 0 => turn = turns + 1
    /\ loop = "asr" => pending = turn /\ batch > 0
    /\ loop \notin {"asr", "over"} => pending \in {0, turns + 1}

\* No step disturbs this, and a turn that gives way to another is not the first
\* of its drain.
LEMMA TurnInductive ==
  ASSUME TypeOK, TurnInv, [Next]_vars
  PROVE  TurnInv' /\ (pending # 0 /\ pending' \notin {0, pending} => batch' > 1)
<1>t. turns \in Nat /\ batch \in Nat /\ pending \in Nat /\ turn \in Nat
  BY SessionAssumption DEF TypeOK
<1> USE <1>t DEF TurnInv, Buffer, Release
<1>1. CASE ProcessFrame
  <2>1. loop \in {"frames", "watch"} /\ UNCHANGED <<loop, batch, turn, turns>>
    BY <1>1 DEF ProcessFrame
  <2>2. pending' = pending \/ pending' = FrameTurn
    BY <1>1 DEF ProcessFrame, OpenGroup, ContinueGroup, CloseGroup
  <2>3. FrameTurn = turns + 1
    BY <2>1 DEF FrameTurn
  <2> QED
    BY <2>1, <2>2, <2>3
<1>2. CASE GroupsDone
  BY <1>2 DEF GroupsDone
<1>3. CASE TakeGroup
  BY <1>3 DEF TakeGroup
<1>4. CASE NotWorthy
  BY <1>4 DEF NotWorthy
<1>5. CASE Worthy
  BY <1>5 DEF Worthy
<1>6. CASE Drain \/ DrainInGap \/ FramesDone
  BY <1>6 DEF Drain, DrainInGap, FramesDone
<1>7. CASE PlanReply \/ GapWaits \/ GapInterrupted
  BY <1>7 DEF PlanReply, GapWaits, GapInterrupted
<1>8. CASE GapReady \/ AudioOver \/ PlayMore
  BY <1>8 DEF GapReady, AudioOver, PlayMore
<1>9. CASE FinishReply \/ SessionEnds
  BY <1>9 DEF FinishReply, SessionEnds
<1>10. CASE Microphones \/ Route \/ TailExpires \/ UNCHANGED vars
  BY <1>10 DEF Microphones, Route, TailExpires, vars, sessionVars
<1> QED
  BY <1>1, <1>2, <1>3, <1>4, <1>5, <1>6, <1>7, <1>8, <1>9, <1>10
     DEF Next, Session, Listen, Reply

\* The trace of a turn is given up for that of another only between the groups
\* of one drain.
THEOREM RollsOverInBatch == Spec => RollsOverOnlyInBatch
<1>1. Init => TurnInv
  BY DEF Init, TurnInv
<1>2. TypeOK /\ TurnInv /\ [Next]_vars =>
        TurnInv' /\ [pending # 0 /\ pending' \notin {0, pending} => batch' > 1]_vars
  BY TurnInductive
<1> QED
  BY <1>1, <1>2, TypeCorrect, PTL DEF Spec, RollsOverOnlyInBatch

(***************************************************************************)
(* The session's own use of the native gate.                               *)
(***************************************************************************)
LEMMA StepGivesGateBack == GateIsGivenBack /\ [Next]_vars => GateIsGivenBack'
<1> SUFFICES ASSUME GateIsGivenBack, [Next]_vars PROVE GateIsGivenBack'
  OBVIOUS
<1> USE DEF GateIsGivenBack
<1>1. CASE GapInterrupted \/ FinishReply
  BY <1>1 DEF GapInterrupted, FinishReply, StoreGate
<1>2. CASE GapReady \/ AudioOver \/ PlayMore \/ SessionEnds
  BY <1>2 DEF GapReady, AudioOver, PlayMore, SessionEnds
<1>3. CASE \/ ProcessFrame \/ FramesDone \/ GroupsDone \/ TakeGroup \/ NotWorthy \/ Worthy
           \/ PlanReply \/ GapWaits \/ TailExpires
  BY <1>3 DEF ProcessFrame, FramesDone, GroupsDone, TakeGroup, NotWorthy, Worthy, PlanReply,
              GapWaits, TailExpires, routerVars
<1>4. CASE Drain \/ DrainInGap
  BY <1>4 DEF Drain, DrainInGap
<1>5. CASE Microphones
  BY <1>5 DEF Microphones, AdmitAudio, Capture, sessionVars
<1>6. CASE Route
  BY <1>6 DEF Route, Request, SendAudio, EnableBrowser, BrowserTakesOver, EnableNative,
              NativeTakesOver, Disable
<1>7. CASE UNCHANGED vars
  BY <1>7 DEF vars, routerVars, sessionVars
<1> QED
  BY <1>1, <1>2, <1>3, <1>4, <1>5, <1>6, <1>7 DEF Next, Session, Listen, Reply

\* However a reply ends or is cancelled, the session does not leave its own gate
\* closed behind it: outside the playback only a request has closed it.
THEOREM GateReturns == Spec => []GateIsGivenBack
<1>1. Init => GateIsGivenBack
  BY DEF Init, RouterInit, GateIsGivenBack
<1> QED
  BY <1>1, StepGivesGateBack, PTL DEF Spec
=============================================================================
