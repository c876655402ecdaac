------------------------- MODULE MouthWorker_proofs -------------------------
(***************************************************************************)
(* Proofs about MouthWorker, for any number of utterances and of messages  *)
(* in flight: the caller's count of pending utterances is exact, and their *)
(* turns are a queue.  What is in a channel is defined by recursion over   *)
(* its messages; the lemmas of the first two sections say what one message *)
(* more or less means for it.                                              *)
(***************************************************************************)
EXTENDS MouthWorker, SequenceTheorems, WellFoundedInduction, TLAPS

\* Induction over the natural numbers, for a set: the least number that is not
\* in it would follow one that is.
LEMMA Induction ==
    ASSUME NEW T, 0 \in T, \A n \in Nat : n \in T => n + 1 \in T
    PROVE  Nat \subseteq T
<1> DEFINE Missing == Nat \ T
<1> SUFFICES ASSUME Missing # {} PROVE FALSE
  OBVIOUS
<1>1. PICK n \in Missing : \A m \in Missing : ~(<<m, n>> \in OpToRel(<, Nat))
  <2>1. Missing \subseteq Nat
    OBVIOUS
  <2> HIDE DEF Missing
  <2> QED
    BY <2>1, WFMin, NatLessThanWellFounded, Zenon
<1>2. n \in Nat \ {0}
  OBVIOUS
<1>3. <<n - 1, n>> \in OpToRel(<, Nat)
  BY <1>2 DEF OpToRel
<1>4. n - 1 \notin Missing
  BY <1>1, <1>3
<1>5. n - 1 \in Nat /\ (n - 1) + 1 = n
  BY <1>2
<1> QED
  BY <1>4, <1>5
-----------------------------------------------------------------------------
(***************************************************************************)
(* What a sequence of events reports.                                      *)
(***************************************************************************)
\* sum is ReportedUpTo(events) as far as n.
SumsTo(sum, events, n) ==
    sum = [i \in 0..n |-> IF i = 0 THEN 0 ELSE sum[i - 1] + events[i].count]

\* There is such a sum for every length.
LEMMA SumExists == ASSUME NEW events PROVE \A n \in Nat : \E sum : SumsTo(sum, events, n)
<1> DEFINE T == {n \in Nat : \E sum : SumsTo(sum, events, n)}
<1>1. 0 \in T
  <2>1. SumsTo([i \in 0..0 |-> 0], events, 0)
    BY DEF SumsTo
  <2> QED
    BY <2>1
<1>2. ASSUME NEW n \in Nat, n \in T PROVE n + 1 \in T
  <2>1. PICK sum : SumsTo(sum, events, n)
    BY <1>2
  <2> DEFINE more == [i \in 0..(n + 1) |-> IF i = n + 1 THEN sum[n] + events[n + 1].count ELSE sum[i]]
  <2>2. \A i \in 0..(n + 1) : more[i] = IF i = 0 THEN 0 ELSE more[i - 1] + events[i].count
    BY <2>1 DEF SumsTo
  <2>3. SumsTo(more, events, n + 1)
    BY <2>2 DEF SumsTo
  <2> QED
    BY <2>3
<1> HIDE DEF T
<1>3. Nat \subseteq T
  BY <1>1, <1>2, Induction
<1> QED
  BY <1>3 DEF T

\* The equation that ReportedUpTo is defined by holds of it, and its values are
\* natural numbers.
LEMMA SumEquation ==
    ASSUME NEW events \in Seq(Events)
    PROVE  /\ ReportedUpTo(events)[0] = 0
           /\ \A n \in 1..Len(events) :
                ReportedUpTo(events)[n] = ReportedUpTo(events)[n - 1] + events[n].count
           /\ \A n \in 0..Len(events) : ReportedUpTo(events)[n] \in Nat
<1> DEFINE sum == ReportedUpTo(events)
           T == {n \in Nat : n <= Len(events) => sum[n] \in Nat}
<1>1. SumsTo(sum, events, Len(events))
  <2>1. sum = CHOOSE f : SumsTo(f, events, Len(events))
    BY DEF ReportedUpTo, SumsTo
  <2>2. Len(events) \in Nat
    OBVIOUS
  <2> QED
    BY <2>1, <2>2, SumExists
<1> HIDE DEF sum
<1>2. \A i \in 0..Len(events) : sum[i] = IF i = 0 THEN 0 ELSE sum[i - 1] + events[i].count
  BY <1>1 DEF SumsTo
<1>3. 0 \in T
  BY <1>2
<1>4. ASSUME NEW n \in Nat, n \in T, n + 1 <= Len(events) PROVE sum[n + 1] \in Nat
  <2>1. events[n + 1] \in Events
    BY <1>4, n + 1 \in 1..Len(events), ElementOfSeq
  <2>2. sum[n + 1] = sum[n] + events[n + 1].count /\ sum[n] \in Nat
    BY <1>2, <1>4
  <2> QED
    BY <2>1, <2>2 DEF Events
<1>5. Nat \subseteq T
  <2>1. \A n \in Nat : n \in T => n + 1 \in T
    BY <1>4
  <2> HIDE DEF T
  <2> QED
    BY <1>3, <2>1, Induction
<1> QED
  BY <1>2, <1>5 DEF sum

\* Nothing is reported by no event.
LEMMA ReportedEmpty == Reported(<<>>) = 0
BY SumEquation, Len(<<>>) = 0, <<>> \in Seq(Events) DEF Reported

\* One more event adds its count.
LEMMA ReportedAppend ==
    ASSUME NEW events \in Seq(Events), NEW e \in Events
    PROVE  /\ Reported(events) \in Nat
           /\ Reported(Append(events, e)) = Reported(events) + e.count
<1> DEFINE all == Append(events, e)
           T == {n \in Nat : n <= Len(events) => ReportedUpTo(all)[n] = ReportedUpTo(events)[n]}
<1>1. /\ all \in Seq(Events) /\ Len(events) \in Nat /\ Len(all) = Len(events) + 1
      /\ all[Len(events) + 1] = e
      /\ \A i \in 1..Len(events) : all[i] = events[i]
  OBVIOUS
<1> HIDE DEF all
<1>2. 0 \in T
  BY <1>1, SumEquation
<1>3. ASSUME NEW n \in Nat, n \in T PROVE n + 1 \in T
  <2> SUFFICES ASSUME n + 1 <= Len(events)
               PROVE  ReportedUpTo(all)[n + 1] = ReportedUpTo(events)[n + 1]
    OBVIOUS
  <2>1. n + 1 \in 1..Len(events) /\ n + 1 \in 1..Len(all) /\ (n + 1) - 1 = n
    BY <1>1
  <2>2. ReportedUpTo(all)[n + 1] = ReportedUpTo(all)[n] + all[n + 1].count
    BY <1>1, <2>1, SumEquation
  <2>3. ReportedUpTo(events)[n + 1] = ReportedUpTo(events)[n] + events[n + 1].count
    BY <1>1, <2>1, SumEquation
  <2> QED
    BY <1>1, <1>3, <2>1, <2>2, <2>3
<1>4. Nat \subseteq T
  <2> HIDE DEF T
  <2> QED
    BY <1>2, <1>3, Induction
<1>5. ReportedUpTo(all)[Len(events)] = ReportedUpTo(events)[Len(events)]
  BY <1>1, <1>4
<1>6. ReportedUpTo(all)[Len(all)] = ReportedUpTo(all)[Len(events)] + e.count
  <2>1. Len(all) \in 1..Len(all) /\ Len(all) - 1 = Len(events)
    BY <1>1
  <2> QED
    BY <1>1, <2>1, SumEquation
<1>7. ReportedUpTo(events)[Len(events)] \in Nat
  BY <1>1, SumEquation
<1> QED
  BY <1>5, <1>6, <1>7 DEF Reported, all
-----------------------------------------------------------------------------
(***************************************************************************)
(* The speech in a sequence of commands.                                   *)
(***************************************************************************)
\* Speech is joined in any grouping.
LEMMA SpeechAssociative ==
    ASSUME NEW s \in Seq(Utterances), NEW t \in Seq(Utterances), NEW u \in Seq(Utterances)
    PROVE  (s \o t) \o u = s \o (t \o u)
BY ConcatAssociative

\* found is SpeaksUpTo(commands) as far as n.
FindsTo(found, commands, n) ==
    found = [i \in 0..n |-> IF i = 0 THEN <<>> ELSE found[i - 1] \o SpeechOf(commands[i])]

\* There is such a function for every length.
LEMMA FoundExists == ASSUME NEW commands PROVE \A n \in Nat : \E found : FindsTo(found, commands, n)
<1> DEFINE T == {n \in Nat : \E found : FindsTo(found, commands, n)}
<1>1. 0 \in T
  <2>1. FindsTo([i \in 0..0 |-> <<>>], commands, 0)
    BY DEF FindsTo
  <2> QED
    BY <2>1
<1>2. ASSUME NEW n \in Nat, n \in T PROVE n + 1 \in T
  <2>1. PICK found : FindsTo(found, commands, n)
    BY <1>2
  <2> DEFINE next == found[n] \o SpeechOf(commands[n + 1])
             more == [i \in 0..(n + 1) |-> IF i = n + 1 THEN next ELSE found[i]]
  <2>2. \A i \in 0..n : found[i] = IF i = 0 THEN <<>> ELSE found[i - 1] \o SpeechOf(commands[i])
    BY <2>1 DEF FindsTo
  <2>3. \A i \in 0..(n + 1) :
          more[i] = IF i = 0 THEN <<>> ELSE more[i - 1] \o SpeechOf(commands[i])
    BY <2>2
  <2>4. FindsTo(more, commands, n + 1)
    BY <2>3 DEF FindsTo
  <2> QED
    BY <2>4
<1> HIDE DEF T
<1>3. Nat \subseteq T
  BY <1>1, <1>2, Induction
<1> QED
  BY <1>3 DEF T

\* The speech of a command is one utterance or none.
LEMMA SpeechOfType == ASSUME NEW c \in Commands PROVE SpeechOf(c) \in Seq(Utterances)
BY DEF SpeechOf, Commands, Speak, Control, Controls

\* The equation that SpeaksUpTo is defined by holds of it, and its values are
\* sequences of utterances.
LEMMA FoundEquation ==
    ASSUME NEW commands \in Seq(Commands)
    PROVE  /\ SpeaksUpTo(commands)[0] = <<>>
           /\ \A n \in 1..Len(commands) :
                SpeaksUpTo(commands)[n] = SpeaksUpTo(commands)[n - 1] \o SpeechOf(commands[n])
           /\ \A n \in 0..Len(commands) : SpeaksUpTo(commands)[n] \in Seq(Utterances)
<1> DEFINE found == SpeaksUpTo(commands)
           T == {n \in Nat : n <= Len(commands) => found[n] \in Seq(Utterances)}
<1>1. FindsTo(found, commands, Len(commands))
  <2>1. found = CHOOSE f : FindsTo(f, commands, Len(commands))
    BY DEF SpeaksUpTo, FindsTo
  <2>2. Len(commands) \in Nat
    OBVIOUS
  <2> QED
    BY <2>1, <2>2, FoundExists
<1> HIDE DEF found
<1>2. \A i \in 0..Len(commands) :
        found[i] = IF i = 0 THEN <<>> ELSE found[i - 1] \o SpeechOf(commands[i])
  BY <1>1 DEF FindsTo
<1>3. found[0] = <<>>
  BY <1>2, Len(commands) \in Nat, 0 \in 0..Len(commands)
<1>4. 0 \in T
  BY <1>3, EmptySeq
<1>5. ASSUME NEW n \in Nat, n \in T, n + 1 <= Len(commands) PROVE found[n + 1] \in Seq(Utterances)
  <2>1. SpeechOf(commands[n + 1]) \in Seq(Utterances)
    BY <1>5, n + 1 \in 1..Len(commands), ElementOfSeq, SpeechOfType
  <2>2. found[n] \in Seq(Utterances)
    BY <1>5
  <2>3. found[n + 1] = found[n] \o SpeechOf(commands[n + 1])
    BY <1>2, <1>5, n + 1 \in 0..Len(commands), n + 1 # 0, (n + 1) - 1 = n
  <2> QED
    BY <2>1, <2>2, <2>3, ConcatProperties
<1>6. Nat \subseteq T
  <2>1. \A n \in Nat : n \in T => n + 1 \in T
    BY <1>5
  <2> HIDE DEF T
  <2> QED
    BY <1>4, <2>1, Induction
<1>7. \A n \in 1..Len(commands) : found[n] = found[n - 1] \o SpeechOf(commands[n])
  <2> TAKE n \in 1..Len(commands)
  <2>1. n \in 0..Len(commands) /\ n # 0
    OBVIOUS
  <2> QED
    BY <1>2, <2>1
<1>8. \A n \in 0..Len(commands) : found[n] \in Seq(Utterances)
  BY <1>6
<1> QED
  BY <1>3, <1>7, <1>8 DEF found

\* No command, no speech.
LEMMA SpeaksEmpty == SpeaksIn(<<>>) = <<>>
BY FoundEquation, Len(<<>>) = 0, <<>> \in Seq(Commands) DEF SpeaksIn

\* The speech of a sequence of commands is a sequence of utterances.
LEMMA SpeaksType == ASSUME NEW commands \in Seq(Commands) PROVE SpeaksIn(commands) \in Seq(Utterances)
BY FoundEquation, Len(commands) \in 0..Len(commands) DEF SpeaksIn

\* The last command adds its speech at the end.
LEMMA SpeaksAppend ==
    ASSUME NEW commands \in Seq(Commands), NEW c \in Commands
    PROVE  SpeaksIn(Append(commands, c)) = SpeaksIn(commands) \o SpeechOf(c)
<1> DEFINE all == Append(commands, c)
           T == {n \in Nat : n <= Len(commands) => SpeaksUpTo(all)[n] = SpeaksUpTo(commands)[n]}
<1>1. /\ all \in Seq(Commands) /\ Len(commands) \in Nat /\ Len(all) = Len(commands) + 1
      /\ all[Len(commands) + 1] = c
      /\ \A i \in 1..Len(commands) : all[i] = commands[i]
  OBVIOUS
<1> HIDE DEF all
<1>2. 0 \in T
  BY <1>1, FoundEquation
<1>3. ASSUME NEW n \in Nat, n \in T PROVE n + 1 \in T
  <2> SUFFICES ASSUME n + 1 <= Len(commands)
               PROVE  SpeaksUpTo(all)[n + 1] = SpeaksUpTo(commands)[n + 1]
    OBVIOUS
  <2>1. n + 1 \in 1..Len(commands) /\ n + 1 \in 1..Len(all) /\ (n + 1) - 1 = n
    BY <1>1
  <2>2. SpeaksUpTo(all)[n + 1] = SpeaksUpTo(all)[n] \o SpeechOf(all[n + 1])
    BY <1>1, <2>1, FoundEquation
  <2>3. SpeaksUpTo(commands)[n + 1] = SpeaksUpTo(commands)[n] \o SpeechOf(commands[n + 1])
    BY <1>1, <2>1, FoundEquation
  <2>4. all[n + 1] = commands[n + 1]
    BY <1>1, <2>1
  <2>5. SpeaksUpTo(all)[n] = SpeaksUpTo(commands)[n]
    BY <1>3, <1>1
  <2> QED
    BY <2>2, <2>3, <2>4, <2>5
<1>4. Nat \subseteq T
  <2> HIDE DEF T
  <2> QED
    BY <1>2, <1>3, Induction
<1>5. SpeaksUpTo(all)[Len(commands)] = SpeaksUpTo(commands)[Len(commands)]
  BY <1>1, <1>4
<1>6. SpeaksUpTo(all)[Len(all)] = SpeaksUpTo(all)[Len(commands)] \o SpeechOf(c)
  <2>1. Len(all) \in 1..Len(all) /\ Len(all) - 1 = Len(commands)
    BY <1>1
  <2> QED
    BY <1>1, <2>1, FoundEquation
<1> QED
  BY <1>5, <1>6 DEF SpeaksIn, all

\* The first command's speech is the first of the channel.
LEMMA SpeaksTail ==
    ASSUME NEW commands \in Seq(Commands), commands # <<>>
    PROVE  SpeaksIn(commands) = SpeechOf(Head(commands)) \o SpeaksIn(Tail(commands))
<1> DEFINE rest == Tail(commands)
           own == SpeechOf(Head(commands))
           T == {n \in Nat : n <= Len(rest) =>
                               SpeaksUpTo(commands)[n + 1] = own \o SpeaksUpTo(rest)[n]}
<1>1. /\ rest \in Seq(Commands) /\ Len(rest) \in Nat /\ Len(commands) = Len(rest) + 1
      /\ commands[1] = Head(commands) /\ Head(commands) \in Commands
      /\ \A i \in 1..Len(rest) : rest[i] = commands[i + 1]
  OBVIOUS
<1>2. own \in Seq(Utterances)
  BY <1>1, SpeechOfType
<1>3. own = SpeechOf(commands[1])
  BY <1>1
<1> HIDE DEF rest, own
<1>4. 0 \in T
  <2>1. SpeaksUpTo(commands)[1] = SpeaksUpTo(commands)[0] \o SpeechOf(commands[1])
    BY <1>1, FoundEquation, 1 \in 1..Len(commands), 1 - 1 = 0
  <2>2. SpeaksUpTo(commands)[0] = <<>> /\ SpeaksUpTo(rest)[0] = <<>>
    BY <1>1, FoundEquation
  <2>3. <<>> \o own = own /\ own \o <<>> = own
    BY <1>2, ConcatEmptySeq
  <2>4. SpeaksUpTo(commands)[0 + 1] = own \o SpeaksUpTo(rest)[0]
    BY <1>3, <2>1, <2>2, <2>3
  <2> QED
    BY <2>4
<1>5. ASSUME NEW n \in Nat, n \in T PROVE n + 1 \in T
  <2> SUFFICES ASSUME n + 1 <= Len(rest)
               PROVE  SpeaksUpTo(commands)[n + 2] = own \o SpeaksUpTo(rest)[n + 1]
    OBVIOUS
  <2>1. /\ n + 2 \in 1..Len(commands) /\ n + 1 \in 1..Len(rest) /\ n \in 0..Len(rest)
        /\ (n + 2) - 1 = n + 1 /\ (n + 1) - 1 = n
    BY <1>1
  <2>2. SpeaksUpTo(commands)[n + 2] = SpeaksUpTo(commands)[n + 1] \o SpeechOf(commands[n + 2])
    BY <1>1, <2>1, FoundEquation
  <2>3. SpeaksUpTo(rest)[n + 1] = SpeaksUpTo(rest)[n] \o SpeechOf(rest[n + 1])
    BY <1>1, <2>1, FoundEquation
  <2>4. rest[n + 1] = commands[n + 2] /\ rest[n + 1] \in Commands
    BY <1>1, <2>1, ElementOfSeq, (n + 1) + 1 = n + 2
  <2>5. SpeaksUpTo(rest)[n] \in Seq(Utterances) /\ SpeechOf(rest[n + 1]) \in Seq(Utterances)
    BY <1>1, <2>1, <2>4, FoundEquation, SpeechOfType
  <2>6. SpeaksUpTo(commands)[n + 1] = own \o SpeaksUpTo(rest)[n]
    BY <1>5, <2>1
  <2>7. (own \o SpeaksUpTo(rest)[n]) \o SpeechOf(rest[n + 1])
            = own \o (SpeaksUpTo(rest)[n] \o SpeechOf(rest[n + 1]))
    BY <1>2, <2>5, SpeechAssociative
  <2> QED
    BY <2>2, <2>3, <2>4, <2>6, <2>7
<1>6. Nat \subseteq T
  <2> HIDE DEF T
  <2> QED
    BY <1>4, <1>5, Induction
<1>7. SpeaksUpTo(commands)[Len(rest) + 1] = own \o SpeaksUpTo(rest)[Len(rest)]
  BY <1>1, <1>6
<1> QED
  BY <1>1, <1>7 DEF SpeaksIn, rest, own
-----------------------------------------------------------------------------
(***************************************************************************)
(* Types, and who has an utterance in hand.                                *)
(***************************************************************************)
\* The worker has an utterance in hand at the places where it speaks one, and
\* none when it is idle.
InHand ==
    /\ wpc = "idle" => current = Nobody
    /\ wpc \in {"begin", "collect", "poll", "top", "drain", "stopping"} => current # Nobody

MouthInv == MouthTypeOK /\ InHand

\* The first message of a channel, and the channel without it.
LEMMA ReceivedType ==
    ASSUME NEW op, cmds \in Seq(Commands), Received(op)
    PROVE  /\ Head(cmds) \in Commands /\ cmds' \in Seq(Commands)
           /\ op = "Speak" => Head(cmds).id \in Utterances
           /\ SpeaksIn(cmds) = (IF op = "Speak" THEN <<Head(cmds).id>> ELSE <<>>) \o SpeaksIn(cmds')
<1>1. Head(cmds) \in Commands /\ cmds' \in Seq(Commands)
  BY HeadTailProperties DEF Received
<1>2. op = "Speak" => Head(cmds).id \in Utterances
  BY <1>1 DEF Received, Commands, Speak, Control, Controls
<1>3. SpeaksIn(cmds) = SpeechOf(Head(cmds)) \o SpeaksIn(cmds')
  BY SpeaksTail DEF Received
<1> QED
  BY <1>1, <1>2, <1>3 DEF Received, SpeechOf

\* A control takes no speech with it.
LEMMA ReceivedControl ==
    ASSUME NEW op, cmds \in Seq(Commands), Received(op), op # "Speak"
    PROVE  SpeaksIn(cmds') = SpeaksIn(cmds)
<1>1. SpeaksIn(cmds) = <<>> \o SpeaksIn(cmds') /\ SpeaksIn(cmds') \in Seq(Utterances)
  BY ReceivedType, SpeaksType
<1> QED
  BY <1>1, ConcatEmptySeq

\* Events are events.
LEMMA EventType == ASSUME NEW kind \in EventKinds, NEW count \in Nat PROVE Event(kind, count) \in Events
BY DEF Event, Events

\* What pausing and resuming send, and that it reports no utterance.
LEMMA PlaybackEvents ==
    ASSUME MouthTypeOK, PausePlayback \/ ResumePlayback
    PROVE  evs' \in Seq(Events) /\ paused' \in BOOLEAN /\ Reported(evs') = Reported(evs)
<1>1. evs \in Seq(Events)
  BY DEF MouthTypeOK
<1>2. CASE evs' = evs \o <<>>
  BY <1>1, <1>2, ConcatEmptySeq DEF PausePlayback, ResumePlayback
<1>3. ASSUME NEW kind \in {"Paused", "Resumed"}, evs' = evs \o <<Event(kind, 0)>>
      PROVE  evs' \in Seq(Events) /\ paused' \in BOOLEAN /\ Reported(evs') = Reported(evs)
  <2>1. Event(kind, 0) \in Events /\ Event(kind, 0).count = 0
    BY DEF Event, Events, EventKinds
  <2>2. evs' = Append(evs, Event(kind, 0))
    BY <1>1, <1>3, <2>1, AppendIsConcat
  <2>3. Reported(evs') = Reported(evs) + 0 /\ Reported(evs) \in Nat
    BY <1>1, <2>1, <2>2, ReportedAppend
  <2>4. evs' \in Seq(Events)
    BY <1>1, <2>1, <2>2, AppendProperties
  <2>5. Reported(evs') = Reported(evs)
    BY <2>3
  <2> QED
    BY <2>4, <2>5 DEF PausePlayback, ResumePlayback
<1> QED
  BY <1>2, <1>3 DEF PausePlayback, ResumePlayback, PauseEvent, ResumeEvent

\* At first everything is of its type.
LEMMA InitTyped == MouthInit => MouthInv
<1> SUFFICES ASSUME MouthInit PROVE MouthInv
  OBVIOUS
<1>1. <<>> \in Seq(Commands) /\ <<>> \in Seq(Utterances) /\ <<>> \in Seq(Events)
  BY EmptySeq
<1>2. 0 \in 0..MaxUtterances /\ 0 \in Nat
  BY BoundsAssumption
<1> QED
  BY <1>1, <1>2 DEF MouthInit, MouthInv, MouthTypeOK, InHand

\* A step of the worker keeps the types.
LEMMA WorkerKeepsTypes == ASSUME MouthInv, WorkerStep PROVE MouthInv'
<1> USE DEF MouthInv, MouthTypeOK, InHand
<1>1. CASE TakeQueued
  <2>1. Head(queue) \in Utterances /\ Tail(queue) \in Seq(Utterances)
    BY <1>1, HeadTailProperties DEF TakeQueued
  <2> QED
    BY <1>1, <2>1 DEF TakeQueued, BeginSynthetic, callerVars, Utterances, Nobody
<1>2. CASE TakeSpeak
  <2>1. Head(cmds).id \in Utterances /\ cmds' \in Seq(Commands)
    BY <1>2, ReceivedType DEF TakeSpeak
  <2> QED
    BY <1>2, <2>1 DEF TakeSpeak, BeginSynthetic, callerVars, Utterances, Nobody
<1>3. CASE SynthesizerAccepts \/ CommandsDrained \/ NoAudioYet \/ PlaybackStarts \/ PlaybackGoesOn
  BY <1>3 DEF SynthesizerAccepts, CommandsDrained, NoAudioYet, PlaybackStarts, PlaybackGoesOn, callerVars
<1>4. CASE SpeechFails \/ ReportInterrupted \/ PlaybackCompletes
  <2>1. PICK kind \in EventKinds : evs' = Append(evs, Event(kind, 1))
    BY <1>4 DEF SpeechFails, ReportInterrupted, PlaybackCompletes, EventKinds
  <2>2. evs' \in Seq(Events)
    BY <2>1, EventType, AppendProperties
  <2> QED
    BY <1>4, <2>2 DEF SpeechFails, ReportInterrupted, PlaybackCompletes, callerVars
<1>5. CASE DrainSpeak
  <2>1. Head(cmds).id \in Utterances /\ cmds' \in Seq(Commands)
    BY <1>5, ReceivedType DEF DrainSpeak
  <2>2. queue' \in Seq(Utterances)
    BY <1>5, <2>1, AppendProperties DEF DrainSpeak
  <2> QED
    BY <1>5, <2>1, <2>2 DEF DrainSpeak, callerVars
<1>6. CASE TakePause \/ TakeResume \/ TakeShutup
  <2>1. cmds' \in Seq(Commands)
    BY <1>6, ReceivedType DEF TakePause, TakeResume, TakeShutup
  <2>2. evs' \in Seq(Events) /\ paused' \in BOOLEAN
    BY <1>6, PlaybackEvents DEF TakePause, TakeResume, TakeShutup
  <2> QED
    BY <1>6, <2>1, <2>2 DEF TakePause, TakeResume, TakeShutup, callerVars
<1>7. ASSUME evs' = Append(evs, Event("Cleared", Len(queue) + Len(SpeaksIn(cmds)))),
             queue' = <<>>, cmds' = <<>>
      PROVE  evs' \in Seq(Events) /\ queue' \in Seq(Utterances) /\ cmds' \in Seq(Commands)
  <2>1. Len(queue) + Len(SpeaksIn(cmds)) \in Nat
    BY SpeaksType, LenProperties
  <2>2. Event("Cleared", Len(queue) + Len(SpeaksIn(cmds))) \in Events
    BY <2>1, EventType DEF EventKinds
  <2>3. evs' \in Seq(Events)
    BY <1>7, <2>2, AppendProperties
  <2> QED
    BY <1>7, <2>3, EmptySeq
<1>8. CASE ClearQueue
  BY <1>7, <1>8 DEF ClearQueue, callerVars
<1>9. CASE TakeShutdown
  <2>1. Tail(cmds) \in Seq(Commands)
    BY <1>9, HeadTailProperties DEF TakeShutdown
  <2>2. evs' \in Seq(Events) /\ queue' \in Seq(Utterances) /\ cmds' \in Seq(Commands)
    BY <1>7, <1>9, <2>1 DEF TakeShutdown
  <2> QED
    BY <1>9, <2>2 DEF TakeShutdown, callerVars
<1> QED
  BY <1>1, <1>2, <1>3, <1>4, <1>5, <1>6, <1>8, <1>9 DEF WorkerStep, SynthesizerRefuses, SynthesisFails

\* What the caller may send in front of an utterance.
LeadingControls == {<<>>} \cup {<<Control(op)>> : op \in Controls}

\* A control that is sent leaves the speech in the channel as it was.
LEMMA SentControl ==
    ASSUME NEW commands \in Seq(Commands), NEW op \in Controls \cup {"Shutdown"}
    PROVE  /\ Append(commands, Control(op)) \in Seq(Commands)
           /\ SpeaksIn(Append(commands, Control(op))) = SpeaksIn(commands)
<1>1. Control(op) \in Commands /\ SpeechOf(Control(op)) = <<>>
  BY DEF Commands, Control, SpeechOf, Controls
<1>2. Append(commands, Control(op)) \in Seq(Commands)
  BY <1>1, AppendProperties
<1>3. SpeaksIn(Append(commands, Control(op))) = SpeaksIn(commands) \o <<>>
  BY <1>1, SpeaksAppend
<1>4. SpeaksIn(commands) \o <<>> = SpeaksIn(commands)
  BY SpeaksType, ConcatEmptySeq
<1> QED
  BY <1>2, <1>3, <1>4

\* An utterance that is submitted comes last.
LEMMA Submitted ==
    ASSUME MouthInv, NEW controls \in LeadingControls, SubmitSpeech(controls)
    PROVE  /\ cmds' \in Seq(Commands)
           /\ submitted' = submitted + 1 /\ submitted' \in 0..MaxUtterances
           /\ submitted + 1 \in Utterances
           /\ SpeaksIn(cmds') = SpeaksIn(cmds) \o <<submitted + 1>>
           /\ pending' = pending + 1 /\ pending' \in Nat
<1> DEFINE before == cmds \o controls
           said == Speak(submitted + 1)
<1>1. cmds \in Seq(Commands) /\ submitted \in 0..MaxUtterances /\ pending \in Nat
  BY DEF MouthInv, MouthTypeOK
<1>2. before \in Seq(Commands) /\ SpeaksIn(before) = SpeaksIn(cmds)
  <2>1. CASE controls = <<>>
    BY <1>1, <2>1, ConcatEmptySeq
  <2>2. ASSUME NEW op \in Controls, controls = <<Control(op)>>
        PROVE  before \in Seq(Commands) /\ SpeaksIn(before) = SpeaksIn(cmds)
    <3>1. Control(op) \in Commands
      BY DEF Commands
    <3>2. before = Append(cmds, Control(op))
      BY <1>1, <2>2, <3>1, AppendIsConcat
    <3> QED
      BY <1>1, <3>2, SentControl
  <2> QED
    BY <2>1, <2>2 DEF LeadingControls
<1>3. submitted + 1 \in Utterances
  BY <1>1, BoundsAssumption DEF SubmitSpeech, Utterances
<1>4. said \in Commands /\ SpeechOf(said) = <<submitted + 1>>
  BY <1>3 DEF Commands, Speak, SpeechOf
<1> HIDE DEF before, said
<1>5. cmds' = Append(before, said)
  <2>1. cmds' = before \o <<said>>
    BY DEF SubmitSpeech, before, said
  <2> QED
    BY <1>2, <1>4, <2>1, AppendIsConcat
<1>6. cmds' \in Seq(Commands)
  BY <1>2, <1>4, <1>5, AppendProperties
<1>7. SpeaksIn(cmds') = SpeaksIn(cmds) \o <<submitted + 1>>
  BY <1>2, <1>4, <1>5, SpeaksAppend
<1>8. submitted' = submitted + 1 /\ submitted' \in 0..MaxUtterances
  BY <1>3 DEF SubmitSpeech, Utterances
<1> QED
  BY <1>1, <1>3, <1>6, <1>7, <1>8 DEF SubmitSpeech

\* What is counted off leaves a count.
LEMMA CountedOffType ==
    ASSUME NEW count \in Nat, NEW events \in Seq(Events)
    PROVE  CountedOff(count, events) \in Nat
<1>1. Reported(events) \in Nat
  BY SumEquation, Len(events) \in 0..Len(events) DEF Reported
<1> QED
  BY <1>1 DEF CountedOff, SaturatingSub

\* A caller of the mouth, the one in MouthWorker or the main loop of the
\* full-duplex runtime, does one of four things: it submits speech, perhaps with
\* a control in front of it, sends a control, drops the mouth, or drains events.
Speaks == /\ \E controls \in LeadingControls : SubmitSpeech(controls)
          /\ UNCHANGED <<worker, evs, playbackPaused, caller>>
Sends == /\ \E op \in Controls : SendControl(op)
         /\ UNCHANGED <<worker, evs, callerVars>>
Drops == Close /\ UNCHANGED <<worker, evs, submitted, pending, playbackPaused>>
Drains == /\ pending' = CountedOff(pending, evs) /\ evs' = <<>>
          /\ playbackPaused' \in {playbackPaused, PausedAfter(playbackPaused, evs)}
          /\ UNCHANGED <<cmds, worker, submitted, caller>>

MouthStep == WorkerStep \/ AudioPlays \/ Speaks \/ Sends \/ Drops \/ Drains \/ UNCHANGED mouthVars

\* The caller of MouthWorker is one.
LEMMA NextIsMouthStep == ASSUME [MouthNext]_mouthVars PROVE MouthStep
<1> USE DEF MouthStep
<1>1. CASE CallerSpeaks
  BY <1>1 DEF CallerSpeaks, Speaks, LeadingControls
<1>2. CASE CallerControls
  BY <1>2 DEF CallerControls, Sends
<1>3. CASE CallerDrains
  BY <1>3 DEF CallerDrains, TakeEvents, Drains
<1>4. CASE CallerCloses
  BY <1>4 DEF CallerCloses, Drops
<1> QED
  BY <1>1, <1>2, <1>3, <1>4 DEF MouthNext

\* Every step of the mouth and its caller keeps the types.
LEMMA MouthStepKeepsTypes == ASSUME MouthInv, MouthStep PROVE MouthInv'
<1> USE DEF MouthInv, MouthTypeOK, InHand
<1>1. CASE WorkerStep
  BY <1>1, WorkerKeepsTypes
<1>2. CASE AudioPlays
  BY <1>2 DEF AudioPlays, callerVars
<1>3. CASE Speaks
  <2>1. cmds' \in Seq(Commands) /\ submitted' \in 0..MaxUtterances /\ pending' \in Nat
    BY <1>3, Submitted DEF Speaks
  <2> QED
    BY <1>3, <2>1 DEF Speaks, worker
<1>4. CASE Sends \/ Drops
  <2>1. cmds' \in Seq(Commands)
    BY <1>4, SentControl DEF Sends, SendControl, Drops, Close
  <2> QED
    BY <1>4, <2>1 DEF Sends, Drops, Close, worker, callerVars
<1>5. CASE Drains
  <2>1. pending' \in Nat /\ playbackPaused' \in BOOLEAN /\ evs' \in Seq(Events)
    BY <1>5, CountedOffType, EmptySeq DEF Drains, PausedAfter
  <2> QED
    BY <1>5, <2>1 DEF Drains, worker
<1>6. CASE UNCHANGED mouthVars
  BY <1>6 DEF mouthVars, worker
<1> QED
  BY <1>1, <1>2, <1>3, <1>4, <1>5, <1>6 DEF MouthStep

\* Types are kept by every behaviour.
THEOREM MouthTyped == MouthSpec => []MouthInv
<1>1. MouthInv /\ [MouthNext]_mouthVars => MouthInv'
  BY NextIsMouthStep, MouthStepKeepsTypes
<1> QED
  BY <1>1, InitTyped, PTL DEF MouthSpec
-----------------------------------------------------------------------------
(***************************************************************************)
(* The count.  What is in the mouth and what its events report is one      *)
(* total, which the worker only moves about.                               *)
(***************************************************************************)
Total == InMouth + Reported(evs)

\* The lengths and counts are numbers.
LEMMA TotalType ==
    ASSUME MouthInv
    PROVE  /\ SpeaksIn(cmds) \in Seq(Utterances) /\ Len(SpeaksIn(cmds)) \in Nat
           /\ Len(queue) \in Nat /\ Reported(evs) \in Nat
<1>1. SpeaksIn(cmds) \in Seq(Utterances)
  BY SpeaksType DEF MouthInv, MouthTypeOK
<1>2. Reported(evs) \in Nat
  BY SumEquation, Len(evs) \in 0..Len(evs) DEF Reported, MouthInv, MouthTypeOK
<1> QED
  BY <1>1, <1>2, LenProperties DEF MouthInv, MouthTypeOK

\* An event adds its count to what is reported.
LEMMA Reports ==
    ASSUME MouthInv, NEW kind \in EventKinds, NEW count \in Nat, evs' = Append(evs, Event(kind, count))
    PROVE  Reported(evs') = Reported(evs) + count
<1>1. Event(kind, count) \in Events /\ Event(kind, count).count = count
  BY EventType DEF Event
<1> QED
  BY <1>1, ReportedAppend DEF MouthInv, MouthTypeOK

\* Taking the first command takes its speech out of the channel.
LEMMA ReceivedCount ==
    ASSUME MouthInv, NEW op, Received(op)
    PROVE  Len(SpeaksIn(cmds)) = (IF op = "Speak" THEN 1 ELSE 0) + Len(SpeaksIn(cmds'))
<1>1. SpeaksIn(cmds) = (IF op = "Speak" THEN <<Head(cmds).id>> ELSE <<>>) \o SpeaksIn(cmds')
  BY ReceivedType DEF MouthInv, MouthTypeOK
<1>2. op = "Speak" => <<Head(cmds).id>> \in Seq(Utterances) /\ Len(<<Head(cmds).id>>) = 1
  BY ReceivedType DEF MouthInv, MouthTypeOK
<1>3. SpeaksIn(cmds') \in Seq(Utterances)
  BY ReceivedType, SpeaksType DEF MouthInv, MouthTypeOK
<1>4. CASE op = "Speak"
  BY <1>1, <1>2, <1>3, <1>4, ConcatProperties
<1>5. CASE op # "Speak"
  BY <1>1, <1>3, <1>5, ConcatEmptySeq, LenProperties
<1> QED
  BY <1>4, <1>5

\* A step of the worker leaves the total as it was.
LEMMA WorkerKeepsTotal == ASSUME MouthInv, WorkerStep PROVE Total' = Total
<1> DEFINE n == Len(SpeaksIn(cmds))
           q == Len(queue)
           r == Reported(evs)
<1>a. n \in Nat /\ q \in Nat /\ r \in Nat /\ n' \in Nat /\ q' \in Nat /\ r' \in Nat
  <2>1. MouthInv'
    BY WorkerKeepsTypes
  <2>2. ASSUME MouthInv' PROVE n' \in Nat /\ q' \in Nat /\ r' \in Nat
    BY <2>2, SpeaksType, LenProperties, SumEquation, Len(evs') \in 0..Len(evs')
       DEF Reported, MouthInv, MouthTypeOK
  <2> QED
    BY <2>1, <2>2, TotalType
<1>b. /\ Total = n + q + (IF current = Nobody THEN 0 ELSE 1) + r
      /\ Total' = n' + q' + (IF current' = Nobody THEN 0 ELSE 1) + r'
  BY DEF Total, InMouth
<1>1. CASE TakeQueued
  <2>a. Head(queue) \in Utterances /\ Len(Tail(queue)) = q - 1
    BY <1>1, HeadTailProperties DEF TakeQueued, MouthInv, MouthTypeOK
  <2>1. q' = q - 1 /\ Head(queue) # Nobody
    BY <1>1, <2>a DEF TakeQueued, Utterances, Nobody
  <2>2. current = Nobody /\ current' # Nobody /\ n' = n /\ r' = r
    BY <1>1, <2>1 DEF TakeQueued, BeginSynthetic, MouthInv, InHand
  <2> QED
    BY <1>a, <1>b, <2>1, <2>2
<1>2. CASE TakeSpeak
  <2>1. n = 1 + n'
    BY <1>2, ReceivedCount DEF TakeSpeak
  <2>2. Head(cmds).id # Nobody
    BY <1>2, ReceivedType DEF TakeSpeak, MouthInv, MouthTypeOK, Utterances, Nobody
  <2>3. current = Nobody /\ current' # Nobody /\ q' = q /\ r' = r
    BY <1>2, <2>2 DEF TakeSpeak, BeginSynthetic, MouthInv, InHand
  <2> QED
    BY <1>a, <1>b, <2>1, <2>3
<1>3. CASE SynthesizerAccepts \/ CommandsDrained \/ NoAudioYet \/ PlaybackStarts \/ PlaybackGoesOn
  BY <1>3 DEF SynthesizerAccepts, CommandsDrained, NoAudioYet, PlaybackStarts, PlaybackGoesOn, Total, InMouth
<1>4. ASSUME SynthesizerRefuses \/ SynthesisFails \/ ReportInterrupted \/ PlaybackCompletes
      PROVE  Total' = Total
  <2>1. PICK kind \in EventKinds : evs' = Append(evs, Event(kind, 1))
    BY <1>4 DEF SynthesizerRefuses, SynthesisFails, SpeechFails, ReportInterrupted, PlaybackCompletes, EventKinds
  <2>2. r' = r + 1
    BY <2>1, Reports
  <2>3. current # Nobody /\ current' = Nobody /\ n' = n /\ q' = q
    BY <1>4 DEF SynthesizerRefuses, SynthesisFails, SpeechFails, ReportInterrupted, PlaybackCompletes,
                MouthInv, InHand
  <2> QED
    BY <1>a, <1>b, <2>2, <2>3
<1>5. CASE DrainSpeak
  <2>1. n = 1 + n'
    BY <1>5, ReceivedCount DEF DrainSpeak
  <2>2. q' = q + 1
    BY <1>5, ReceivedType, AppendProperties DEF DrainSpeak, MouthInv, MouthTypeOK
  <2>3. current' = current /\ r' = r
    BY <1>5 DEF DrainSpeak
  <2> QED
    BY <1>a, <1>b, <2>1, <2>2, <2>3
<1>6. CASE TakePause \/ TakeResume \/ TakeShutup
  <2>1. n = n'
    BY <1>a, <1>6, ReceivedCount DEF TakePause, TakeResume, TakeShutup
  <2>2. r' = r
    BY <1>6, PlaybackEvents DEF TakePause, TakeResume, TakeShutup, MouthInv
  <2>3. current' = current /\ q' = q
    BY <1>6 DEF TakePause, TakeResume, TakeShutup
  <2> QED
    BY <1>b, <2>1, <2>2, <2>3
<1>7. ASSUME evs' = Append(evs, Event("Cleared", q + n)), queue' = <<>>, cmds' = <<>>,
             UNCHANGED current
      PROVE  Total' = Total
  <2>1. r' = r + (q + n)
    BY <1>a, <1>7, Reports DEF EventKinds
  <2>2. n' = 0 /\ q' = 0
    BY <1>7, SpeaksEmpty, Len(<<>>) = 0
  <2> QED
    BY <1>a, <1>b, <1>7, <2>1, <2>2
<1>8. CASE ClearQueue
  BY <1>7, <1>8 DEF ClearQueue
<1>9. CASE TakeShutdown
  <2>1. CASE wpc = "idle"
    <3>1. Received("Shutdown") /\ UNCHANGED <<queue, evs, current>>
      BY <1>9, <2>1 DEF TakeShutdown, Received
    <3>2. n = n'
      BY <1>a, <3>1, ReceivedCount
    <3> QED
      BY <1>b, <3>1, <3>2
  <2>2. CASE wpc # "idle"
    BY <1>7, <1>9, <2>2 DEF TakeShutdown
  <2> QED
    BY <2>1, <2>2
<1> QED
  BY <1>1, <1>2, <1>3, <1>4, <1>5, <1>6, <1>8, <1>9 DEF WorkerStep

\* At first nothing is in the mouth, and nothing is counted.
LEMMA InitCount == MouthInit => PendingIsExact
BY SpeaksEmpty, ReportedEmpty, Len(<<>>) = 0 DEF MouthInit, PendingIsExact, InMouth

\* An utterance that is submitted is one more in the mouth and one more pending.
LEMMA SubmitKeepsCount ==
    ASSUME MouthInv, PendingIsExact, NEW controls \in LeadingControls, SubmitSpeech(controls),
           UNCHANGED <<worker, evs, caller>>
    PROVE  PendingIsExact'
<1>1. Len(SpeaksIn(cmds')) = Len(SpeaksIn(cmds)) + 1
  <2>1. <<submitted + 1>> \in Seq(Utterances) /\ Len(<<submitted + 1>>) = 1
    BY Submitted
  <2> QED
    BY <2>1, TotalType, Submitted, ConcatProperties
<1>2. pending' = pending + 1
  BY Submitted
<1>3. UNCHANGED <<queue, current, evs, caller>>
  BY DEF worker
<1> QED
  BY <1>1, <1>2, <1>3, TotalType DEF PendingIsExact, InMouth, MouthInv, MouthTypeOK

\* Draining the events counts off exactly what they report: the subtraction
\* never saturates.
LEMMA DrainKeepsCount ==
    ASSUME MouthInv, PendingIsExact, pending' = CountedOff(pending, evs), evs' = <<>>,
           UNCHANGED <<cmds, worker, caller>>
    PROVE  PendingIsExact'
<1> SUFFICES ASSUME caller = "open" PROVE pending' = InMouth' + Reported(evs')
  BY DEF PendingIsExact
<1>1. InMouth' = InMouth /\ InMouth \in Nat
  BY TotalType DEF InMouth, worker
<1>2. pending = InMouth + Reported(evs)
  BY DEF PendingIsExact
<1>3. pending' = InMouth
  BY <1>1, <1>2, TotalType DEF CountedOff, SaturatingSub
<1> QED
  BY <1>1, <1>3, ReportedEmpty

\* A step of the worker keeps the count.
LEMMA WorkerKeepsCount == ASSUME MouthInv, PendingIsExact, WorkerStep PROVE PendingIsExact'
<1>1. UNCHANGED <<pending, caller>>
  BY DEF WorkerStep, TakeQueued, TakeSpeak, SynthesizerAccepts, SynthesizerRefuses, SpeechFails,
         DrainSpeak, TakePause, TakeResume, TakeShutup, ClearQueue, ReportInterrupted, TakeShutdown,
         CommandsDrained, NoAudioYet, PlaybackStarts, SynthesisFails, PlaybackGoesOn,
         PlaybackCompletes, callerVars
<1> QED
  BY <1>1, WorkerKeepsTotal DEF PendingIsExact, Total

\* Every step of the mouth and its caller keeps the count.
LEMMA MouthStepKeepsCount == ASSUME MouthInv, PendingIsExact, MouthStep PROVE PendingIsExact'
<1>1. CASE WorkerStep
  BY <1>1, WorkerKeepsCount
<1>2. CASE AudioPlays
  BY <1>2 DEF AudioPlays, callerVars, PendingIsExact, InMouth
<1>3. CASE Speaks
  BY <1>3, SubmitKeepsCount DEF Speaks
<1>4. CASE Sends
  BY <1>4, SentControl DEF Sends, SendControl, worker, callerVars, PendingIsExact, InMouth,
                           MouthInv, MouthTypeOK
<1>5. CASE Drops
  BY <1>5 DEF Drops, Close, PendingIsExact
<1>6. CASE Drains
  BY <1>6, DrainKeepsCount DEF Drains
<1>7. CASE UNCHANGED mouthVars
  BY <1>7 DEF mouthVars, worker, PendingIsExact, InMouth
<1> QED
  BY <1>1, <1>2, <1>3, <1>4, <1>5, <1>6, <1>7 DEF MouthStep

\* Every utterance the caller still counts is in exactly one place, whatever
\* clears, stops, errors and pauses came in between: pending_mouth_utterances
\* is exact.
THEOREM CountIsExact == MouthSpec => []PendingIsExact
<1>1. MouthInv /\ PendingIsExact /\ [MouthNext]_mouthVars => PendingIsExact'
  BY NextIsMouthStep, MouthStepKeepsCount
<1> QED
  BY <1>1, MouthTyped, InitCount, PTL DEF MouthSpec
-----------------------------------------------------------------------------
(***************************************************************************)
(* The mouth is a queue.                                                   *)
(***************************************************************************)
\* A step of the worker begins the oldest utterance, ends the one in hand,
\* clears what waits, or changes nothing of the three.
LEMMA WorkerKeepsPromise ==
    ASSUME MouthInv, WorkerStep
    PROVE  Promise!Next \/ UNCHANGED <<submitted, Waiting, current>>
<1> USE DEF Promise!Next, Promise!Begin, Promise!End, Promise!Clear
<1>a. SpeaksIn(cmds) \in Seq(Utterances) /\ queue \in Seq(Utterances) /\ cmds \in Seq(Commands)
  BY TotalType DEF MouthInv, MouthTypeOK
<1>b. UNCHANGED submitted
  BY DEF WorkerStep, TakeQueued, TakeSpeak, SynthesizerAccepts, SynthesizerRefuses, SpeechFails,
         DrainSpeak, TakePause, TakeResume, TakeShutup, ClearQueue, ReportInterrupted, TakeShutdown,
         CommandsDrained, NoAudioYet, PlaybackStarts, SynthesisFails, PlaybackGoesOn,
         PlaybackCompletes, callerVars
<1>1. CASE TakeQueued
  <2>1. Waiting # <<>> /\ Head(Waiting) = Head(queue) /\ Tail(Waiting) = Tail(queue) \o SpeaksIn(cmds)
    BY <1>a, <1>1 DEF TakeQueued, Waiting
  <2>2. current = Nobody /\ current' = Head(Waiting) /\ Waiting' = Tail(Waiting)
    BY <1>1, <2>1 DEF TakeQueued, BeginSynthetic, MouthInv, InHand, Waiting
  <2> QED
    BY <1>b, <2>1, <2>2
<1>2. CASE TakeSpeak
  <2> DEFINE u == Head(cmds).id
  <2>1. SpeaksIn(cmds) = <<u>> \o SpeaksIn(cmds') /\ u \in Utterances /\ SpeaksIn(cmds') \in Seq(Utterances)
    BY <1>a, <1>2, ReceivedType, SpeaksType DEF TakeSpeak
  <2>2. queue = <<>> /\ queue' = <<>>
    BY <1>2 DEF TakeSpeak
  <2>3. Waiting = SpeaksIn(cmds) /\ Waiting' = SpeaksIn(cmds')
    BY <1>a, <2>1, <2>2, ConcatEmptySeq DEF Waiting
  <2> HIDE DEF u
  <2>4. Waiting # <<>> /\ Head(Waiting) = u /\ Tail(Waiting) = Waiting'
    BY <2>1, <2>3
  <2>5. current = Nobody /\ current' = u
    BY <1>2 DEF TakeSpeak, BeginSynthetic, MouthInv, InHand, u
  <2> QED
    BY <1>b, <2>4, <2>5
<1>3. CASE SynthesizerAccepts \/ CommandsDrained \/ NoAudioYet \/ PlaybackStarts \/ PlaybackGoesOn
  BY <1>b, <1>3 DEF SynthesizerAccepts, CommandsDrained, NoAudioYet, PlaybackStarts, PlaybackGoesOn, Waiting
<1>4. ASSUME SynthesizerRefuses \/ SynthesisFails \/ ReportInterrupted \/ PlaybackCompletes
      PROVE  Promise!End
  BY <1>b, <1>4 DEF SynthesizerRefuses, SynthesisFails, SpeechFails, ReportInterrupted, PlaybackCompletes,
                    MouthInv, InHand, Waiting
<1>5. CASE DrainSpeak
  <2> DEFINE u == Head(cmds).id
  <2>1. SpeaksIn(cmds) = <<u>> \o SpeaksIn(cmds') /\ u \in Utterances /\ SpeaksIn(cmds') \in Seq(Utterances)
    BY <1>a, <1>5, ReceivedType, SpeaksType DEF DrainSpeak
  <2>2. queue' = Append(queue, u)
    BY <1>5 DEF DrainSpeak
  <2> HIDE DEF u
  <2>3. queue' = queue \o <<u>> /\ <<u>> \in Seq(Utterances)
    BY <1>a, <2>1, <2>2, AppendIsConcat
  <2>4. Waiting' = Waiting
    BY <1>a, <2>1, <2>3, SpeechAssociative DEF Waiting
  <2> QED
    BY <1>b, <1>5, <2>4 DEF DrainSpeak
<1>6. CASE TakePause \/ TakeResume \/ TakeShutup
  <2>1. SpeaksIn(cmds') = SpeaksIn(cmds)
    BY <1>a, <1>6, ReceivedControl DEF TakePause, TakeResume, TakeShutup
  <2> QED
    BY <1>b, <1>6, <2>1 DEF TakePause, TakeResume, TakeShutup, Waiting
<1>7. ASSUME queue' = <<>>, cmds' = <<>>, UNCHANGED current PROVE Promise!Clear
  <2>1. Waiting' = <<>>
    BY <1>7, SpeaksEmpty, <<>> \in Seq(Utterances), ConcatEmptySeq DEF Waiting
  <2> QED
    BY <1>b, <1>7, <2>1
<1>8. CASE ClearQueue
  BY <1>7, <1>8 DEF ClearQueue
<1>9. CASE TakeShutdown
  <2>1. CASE wpc = "idle"
    <3>1. SpeaksIn(cmds') = SpeaksIn(cmds)
      BY <1>a, <1>9, <2>1, ReceivedControl DEF TakeShutdown, Received
    <3> QED
      BY <1>b, <1>9, <2>1, <3>1 DEF TakeShutdown, Waiting
  <2>2. CASE wpc # "idle"
    BY <1>7, <1>9, <2>2 DEF TakeShutdown
  <2> QED
    BY <2>1, <2>2
<1> QED
  BY <1>1, <1>2, <1>3, <1>4, <1>5, <1>6, <1>8, <1>9 DEF WorkerStep

\* An utterance that is submitted goes to the end of the queue.
LEMMA SubmitKeepsPromise ==
    ASSUME MouthInv, NEW controls \in LeadingControls, SubmitSpeech(controls), UNCHANGED worker
    PROVE  Promise!Enqueue
<1>1. SpeaksIn(cmds) \in Seq(Utterances) /\ queue \in Seq(Utterances) /\ submitted + 1 \in Utterances
  BY TotalType, Submitted DEF MouthInv, MouthTypeOK
<1>2. SpeaksIn(cmds') = SpeaksIn(cmds) \o <<submitted + 1>> /\ submitted' = submitted + 1
  BY Submitted
<1>3. Waiting' = Append(Waiting, submitted + 1)
  BY <1>1, <1>2, ConcatAssociative, AppendIsConcat, ConcatProperties DEF Waiting, worker
<1> QED
  BY <1>2, <1>3 DEF Promise!Enqueue, worker

\* Every step of the mouth and its caller is one of the queue's, or none.
LEMMA MouthStepIsQueued ==
    ASSUME MouthInv, MouthStep
    PROVE  Promise!Next \/ UNCHANGED <<submitted, Waiting, current>>
<1>1. CASE WorkerStep
  BY <1>1, WorkerKeepsPromise
<1>2. CASE AudioPlays
  BY <1>2 DEF AudioPlays, callerVars, Waiting
<1>3. CASE Speaks
  BY <1>3, SubmitKeepsPromise DEF Speaks, Promise!Next
<1>4. CASE Sends \/ Drops
  <2>1. SpeaksIn(cmds') = SpeaksIn(cmds)
    BY <1>4, SentControl DEF Sends, SendControl, Drops, Close, MouthInv, MouthTypeOK
  <2> QED
    BY <1>4, <2>1 DEF Sends, Drops, worker, callerVars, Waiting
<1>5. CASE Drains
  BY <1>5 DEF Drains, worker, Waiting
<1>6. CASE UNCHANGED mouthVars
  BY <1>6 DEF mouthVars, worker, Waiting
<1> QED
  BY <1>1, <1>2, <1>3, <1>4, <1>5, <1>6 DEF MouthStep

\* At first nothing waits and nobody speaks.
LEMMA InitKeepsPromise == MouthInit => Promise!Init
BY SpeaksEmpty, <<>> \in Seq(Utterances), ConcatEmptySeq DEF MouthInit, Promise!Init, Waiting, Nobody

\* Utterances have their turns one at a time, in the order they were submitted
\* and none twice; only a clear drops any, and then all that wait.  Of the audio
\* that a turn plays the theorem says nothing.
THEOREM TurnsAreAQueue == MouthSpec => KeepsPromise
<1>1. MouthInv /\ [MouthNext]_mouthVars => [Promise!Next]_<<submitted, Waiting, current>>
  BY NextIsMouthStep, MouthStepIsQueued
<1> QED
  BY <1>1, InitKeepsPromise, MouthTyped, PTL DEF MouthSpec, KeepsPromise, Promise!Spec

\* The numbers of a sequence go up by one and end with n.
EndsWith(seq, n) == \A i \in 1..Len(seq) : seq[i] = (n - Len(seq)) + i

\* Appending the next number, or taking the first, leaves such a sequence.
LEMMA NumbersKept ==
    ASSUME NEW seq \in Seq(Int), NEW n \in Nat, EndsWith(seq, n)
    PROVE  /\ EndsWith(Append(seq, n + 1), n + 1) /\ Len(Append(seq, n + 1)) = Len(seq) + 1
           /\ seq # <<>> => /\ EndsWith(Tail(seq), n) /\ Len(Tail(seq)) = Len(seq) - 1
                            /\ Head(seq) = (n - Len(seq)) + 1
<1>1. Len(seq) \in Nat /\ Len(Append(seq, n + 1)) = Len(seq) + 1
  OBVIOUS
<1>2. EndsWith(Append(seq, n + 1), n + 1)
  <2> SUFFICES ASSUME NEW i \in 1..(Len(seq) + 1)
               PROVE  Append(seq, n + 1)[i] = ((n + 1) - (Len(seq) + 1)) + i
    BY <1>1 DEF EndsWith
  <2>1. CASE i \in 1..Len(seq)
    <3>1. Append(seq, n + 1)[i] = seq[i]
      BY <2>1
    <3> QED
      BY <1>1, <2>1, <3>1 DEF EndsWith
  <2>2. CASE i = Len(seq) + 1
    BY <1>1, <2>2
  <2> QED
    BY <1>1, <2>1, <2>2
<1>3. ASSUME seq # <<>>
      PROVE  /\ EndsWith(Tail(seq), n) /\ Len(Tail(seq)) = Len(seq) - 1
             /\ Head(seq) = (n - Len(seq)) + 1
  <2>1. /\ Len(seq) >= 1 /\ Len(Tail(seq)) = Len(seq) - 1 /\ Head(seq) = seq[1]
        /\ \A i \in 1..Len(Tail(seq)) : Tail(seq)[i] = seq[i + 1]
    BY <1>3, HeadTailProperties
  <2>2. Head(seq) = (n - Len(seq)) + 1
    BY <1>1, <2>1 DEF EndsWith
  <2>3. ASSUME NEW i \in 1..Len(Tail(seq)) PROVE Tail(seq)[i] = (n - Len(Tail(seq))) + i
    <3>1. i + 1 \in 1..Len(seq) /\ Tail(seq)[i] = seq[i + 1]
      BY <1>1, <2>1
    <3>2. seq[i + 1] = (n - Len(seq)) + (i + 1)
      BY <3>1 DEF EndsWith
    <3>3. (n - Len(seq)) + (i + 1) = (n - (Len(seq) - 1)) + i
      BY <1>1
    <3> QED
      BY <2>1, <3>1, <3>2, <3>3
  <2> QED
    BY <2>1, <2>2, <2>3 DEF EndsWith
<1> QED
  BY <1>1, <1>2, <1>3

\* What the queue's own steps keep: the newest utterances wait, and the one that
\* begins follows those that are behind.
LEMMA QueueKeepsOrder ==
    ASSUME Waiting \in Seq(Int), submitted \in Nat, EndsWith(Waiting, submitted),
           Promise!Next \/ UNCHANGED <<submitted, Waiting, current>>
    PROVE  /\ EndsWith(Waiting', submitted')
           /\ submitted' - Len(Waiting') >= submitted - Len(Waiting)
           /\ current' \notin {current, Nobody} =>
                  /\ current' = (submitted - Len(Waiting)) + 1
                  /\ submitted' - Len(Waiting') = (submitted - Len(Waiting)) + 1
<1>a. Len(Waiting) \in Nat
  OBVIOUS
<1>1. CASE Promise!Enqueue
  <2>1. /\ Waiting' = Append(Waiting, submitted + 1) /\ submitted' = submitted + 1
        /\ current' = current
    BY <1>1 DEF Promise!Enqueue
  <2>2. EndsWith(Waiting', submitted') /\ Len(Waiting') = Len(Waiting) + 1
    BY <2>1, NumbersKept
  <2> QED
    BY <1>a, <2>1, <2>2
<1>2. CASE Promise!Begin
  <2>1. /\ Waiting # <<>> /\ Waiting' = Tail(Waiting) /\ current' = Head(Waiting)
        /\ submitted' = submitted
    BY <1>2 DEF Promise!Begin
  <2>2. /\ EndsWith(Waiting', submitted') /\ Len(Waiting') = Len(Waiting) - 1
        /\ current' = (submitted - Len(Waiting)) + 1
    BY <2>1, NumbersKept
  <2>3. submitted' - Len(Waiting') = (submitted - Len(Waiting)) + 1
    <3>1. submitted' = submitted /\ Len(Waiting') = Len(Waiting) - 1
      BY <2>1, <2>2
    <3>2. submitted - (Len(Waiting) - 1) = (submitted - Len(Waiting)) + 1
      BY <1>a
    <3> QED
      BY <3>1, <3>2
  <2>4. submitted' - Len(Waiting') >= submitted - Len(Waiting)
    BY <1>a, <2>3
  <2> QED
    BY <2>2, <2>3, <2>4
<1>3. CASE Promise!End \/ UNCHANGED <<submitted, Waiting, current>>
  BY <1>a, <1>3 DEF Promise!End
<1>4. CASE Promise!Clear
  <2>1. Waiting' = <<>> /\ Len(Waiting') = 0 /\ submitted' = submitted /\ current' = current
    BY <1>4 DEF Promise!Clear
  <2>2. EndsWith(Waiting', submitted')
    BY <2>1 DEF EndsWith
  <2> QED
    BY <1>a, <2>1, <2>2
<1> QED
  BY <1>1, <1>2, <1>3, <1>4 DEF Promise!Next

\* The property of the queue, in terms of the mouth.
LEMMA NewestIsEnds == Promise!NewestWait <=> EndsWith(Waiting, submitted)
BY DEF Promise!NewestWait, Promise!Behind, EndsWith

\* What waits is a sequence of utterances.
LEMMA WaitingType == ASSUME MouthInv PROVE Waiting \in Seq(Int)
<1>1. Waiting \in Seq(Utterances)
  BY TotalType, ConcatProperties DEF Waiting, MouthInv, MouthTypeOK
<1>2. Utterances \subseteq Int
  BY DEF Utterances
<1> QED
  BY <1>1, <1>2, SeqMonotonic

\* The utterances that wait are the newest, without a gap: whatever was cleared,
\* none was dropped from the middle and none came back.
THEOREM NewestUtterancesWait == MouthSpec => []Promise!NewestWait
<1>1. MouthInit => EndsWith(Waiting, submitted)
  BY InitKeepsPromise, Len(<<>>) = 0 DEF EndsWith, Promise!Init
<1>2. MouthInv /\ EndsWith(Waiting, submitted) /\ [MouthNext]_mouthVars => EndsWith(Waiting, submitted)'
  BY NextIsMouthStep, MouthStepIsQueued, WaitingType, QueueKeepsOrder DEF MouthInv, MouthTypeOK
<1> QED
  BY <1>1, <1>2, NewestIsEnds, MouthTyped, PTL DEF MouthSpec

\* No utterance has a second turn, or its turn out of the order in which it was
\* enqueued.
THEOREM TurnsComeInOrder == MouthSpec => Promise!TurnsInOrder
<1>1. MouthInv /\ Promise!NewestWait /\ [MouthNext]_mouthVars =>
        [/\ Promise!Behind' >= Promise!Behind
         /\ current' \notin {current, Nobody} =>
                current' = Promise!Behind + 1 /\ Promise!Behind' = Promise!Behind + 1
        ]_<<submitted, Waiting, current>>
  BY NextIsMouthStep, MouthStepIsQueued, WaitingType, NewestIsEnds, QueueKeepsOrder DEF MouthInv, MouthTypeOK, Promise!Behind
<1> QED
  BY <1>1, NewestUtterancesWait, MouthTyped, PTL DEF MouthSpec, Promise!TurnsInOrder
-----------------------------------------------------------------------------
(***************************************************************************)
(* The end.  Shutdown is the one command that the worker never drops.      *)
(***************************************************************************)
\* A command that is put behind others is among them.
LEMMA AppendShutdown ==
    ASSUME NEW commands \in Seq(Commands), NEW c \in Commands
    PROVE  ShutdownIn(Append(commands, c)) <=> ShutdownIn(commands) \/ c.op = "Shutdown"
<1> DEFINE more == Append(commands, c)
<1>1. /\ Len(commands) \in Nat /\ DOMAIN commands = 1..Len(commands)
      /\ DOMAIN more = 1..(Len(commands) + 1) /\ more[Len(commands) + 1] = c
      /\ \A i \in 1..Len(commands) : more[i] = commands[i]
  OBVIOUS
<1> HIDE DEF more
<1> QED
  BY <1>1 DEF ShutdownIn, more

\* Taking another command leaves the Shutdown where it is.
LEMMA TailShutdown ==
    ASSUME NEW commands \in Seq(Commands), commands # <<>>, Head(commands).op # "Shutdown"
    PROVE  ShutdownIn(Tail(commands)) <=> ShutdownIn(commands)
<1> DEFINE rest == Tail(commands)
<1>1. /\ Len(commands) \in Nat \ {0} /\ DOMAIN commands = 1..Len(commands)
      /\ DOMAIN rest = 1..(Len(commands) - 1) /\ commands[1].op # "Shutdown"
      /\ \A i \in 1..(Len(commands) - 1) : rest[i] = commands[i + 1]
  OBVIOUS
<1> HIDE DEF rest
<1>2. ASSUME NEW i \in DOMAIN rest, rest[i].op = "Shutdown" PROVE ShutdownIn(commands)
  <2>1. i + 1 \in DOMAIN commands /\ commands[i + 1].op = "Shutdown"
    BY <1>1, <1>2
  <2> QED
    BY <2>1 DEF ShutdownIn
<1>3. ASSUME NEW i \in DOMAIN commands, commands[i].op = "Shutdown" PROVE ShutdownIn(rest)
  <2>1. i - 1 \in DOMAIN rest /\ rest[i - 1] = commands[(i - 1) + 1]
    BY <1>1, <1>3
  <2>2. (i - 1) + 1 = i
    BY <1>1, <1>3
  <2> QED
    BY <1>3, <2>1, <2>2 DEF ShutdownIn
<1> QED
  BY <1>2, <1>3 DEF ShutdownIn, rest

\* An empty channel holds no Shutdown.
LEMMA NoShutdown == ~ShutdownIn(<<>>)
BY DEF ShutdownIn

\* The worker takes the Shutdown only to obey it, and returns only for one.
LEMMA WorkerObeysShutdown ==
    ASSUME MouthInv, WorkerStep
    PROVE  /\ wpc # "exited" /\ UNCHANGED caller
           /\ wpc' = "exited" => ShutdownIn(cmds)
           /\ wpc' # "exited" => (ShutdownIn(cmds') <=> ShutdownIn(cmds))
<1>a. cmds \in Seq(Commands)
  BY DEF MouthInv, MouthTypeOK
<1>1. CASE \/ TakeQueued \/ SynthesizerAccepts \/ SynthesizerRefuses \/ ReportInterrupted
           \/ CommandsDrained \/ NoAudioYet \/ PlaybackStarts \/ SynthesisFails \/ PlaybackGoesOn
           \/ PlaybackCompletes
  BY <1>1 DEF TakeQueued, BeginSynthetic, SynthesizerAccepts, SynthesizerRefuses, SpeechFails,
              ReportInterrupted, CommandsDrained, NoAudioYet, PlaybackStarts, SynthesisFails,
              PlaybackGoesOn, PlaybackCompletes, callerVars
<1>2. CASE TakeSpeak \/ DrainSpeak \/ TakePause \/ TakeResume \/ TakeShutup
  <2>1. PICK op \in {"Speak", "Pause", "Resume", "Shutup"} : Received(op)
    BY <1>2 DEF TakeSpeak, DrainSpeak, TakePause, TakeResume, TakeShutup
  <2>2. ShutdownIn(cmds') <=> ShutdownIn(cmds)
    BY <1>a, <2>1, TailShutdown DEF Received
  <2>3. wpc # "exited" /\ wpc' # "exited" /\ UNCHANGED caller
    BY <1>2 DEF TakeSpeak, BeginSynthetic, DrainSpeak, TakePause, TakeResume, TakeShutup, Obeys,
                callerVars
  <2> QED
    BY <2>2, <2>3
<1>3. CASE ClearQueue
  BY <1>3, NoShutdown DEF ClearQueue, callerVars
<1>4. CASE TakeShutdown
  <2>1. Head(cmds).op = "Shutdown" /\ cmds # <<>> /\ wpc # "exited" /\ wpc' = "exited" /\ UNCHANGED caller
    BY <1>4 DEF TakeShutdown, Obeys, callerVars
  <2>2. 1 \in DOMAIN cmds /\ cmds[1] = Head(cmds)
    BY <1>a, <2>1
  <2> QED
    BY <2>1, <2>2 DEF ShutdownIn
<1> QED
  BY <1>1, <1>2, <1>3, <1>4 DEF WorkerStep

\* No caller but one that drops the mouth tells it to go.
ShutdownInv ==
    /\ ShutdownNotLost
    /\ caller = "open" => wpc # "exited" /\ ~ShutdownIn(cmds)

\* At first nothing is in the channel.
LEMMA InitShutdown == MouthInit => ShutdownInv
BY NoShutdown DEF MouthInit, ShutdownInv, ShutdownNotLost

\* What is submitted leaves the Shutdown as it is.
LEMMA SubmitKeepsShutdown ==
    ASSUME MouthInv, NEW controls \in LeadingControls, SubmitSpeech(controls)
    PROVE  ShutdownIn(cmds') <=> ShutdownIn(cmds)
<1> DEFINE said == Speak(submitted + 1)
<1>1. cmds \in Seq(Commands) /\ said \in Commands /\ said.op # "Shutdown"
  BY Submitted DEF MouthInv, MouthTypeOK, Commands, Speak
<1>2. cmds' = cmds \o controls \o <<said>>
  BY DEF SubmitSpeech
<1> HIDE DEF said
<1>3. CASE controls = <<>>
  <2>1. cmds' = Append(cmds, said)
    BY <1>1, <1>2, <1>3, ConcatEmptySeq, AppendIsConcat
  <2> QED
    BY <1>1, <2>1, AppendShutdown
<1>4. CASE \E op \in Controls : controls = <<Control(op)>>
  <2> PICK op \in Controls : controls = <<Control(op)>>
    BY <1>4
  <2>1. Control(op) \in Commands /\ Control(op).op # "Shutdown"
    BY DEF Commands, Control, Controls
  <2>2. Append(cmds, Control(op)) \in Seq(Commands) /\ cmds \o controls = Append(cmds, Control(op))
    BY <1>1, <2>1, AppendIsConcat
  <2>3. cmds' = Append(Append(cmds, Control(op)), said)
    BY <1>1, <1>2, <2>2, AppendIsConcat
  <2>4. ShutdownIn(Append(cmds, Control(op))) <=> ShutdownIn(cmds)
    BY <1>1, <2>1, AppendShutdown
  <2> QED
    BY <1>1, <2>2, <2>3, <2>4, AppendShutdown
<1> QED
  BY <1>3, <1>4 DEF LeadingControls

\* Every step of the mouth and its caller keeps the Shutdown that is waiting.
LEMMA MouthStepKeepsShutdown == ASSUME MouthInv, ShutdownInv, MouthStep PROVE ShutdownInv'
<1> USE DEF ShutdownInv, ShutdownNotLost
<1>a. cmds \in Seq(Commands) /\ caller \in {"open", "closed"}
  BY DEF MouthInv, MouthTypeOK
<1>1. CASE WorkerStep
  BY <1>a, <1>1, WorkerObeysShutdown
<1>2. CASE AudioPlays \/ Drains \/ UNCHANGED mouthVars
  BY <1>2 DEF AudioPlays, Drains, mouthVars, worker, callerVars
<1>3. CASE Speaks
  <2>1. ShutdownIn(cmds') <=> ShutdownIn(cmds)
    BY <1>3, SubmitKeepsShutdown DEF Speaks
  <2> QED
    BY <1>3, <2>1 DEF Speaks, worker
<1>4. CASE Sends
  <2> PICK op \in Controls : cmds' = Append(cmds, Control(op))
    BY <1>4 DEF Sends, SendControl
  <2>1. Control(op) \in Commands /\ Control(op).op # "Shutdown"
    BY DEF Commands, Control, Controls
  <2>2. ShutdownIn(cmds') <=> ShutdownIn(cmds)
    BY <1>a, <2>1, AppendShutdown
  <2> QED
    BY <1>4, <2>2 DEF Sends, worker, callerVars
<1>5. CASE Drops
  <2>1. Control("Shutdown") \in Commands /\ Control("Shutdown").op = "Shutdown"
    BY DEF Commands, Control
  <2> QED
    BY <1>a, <1>5, <2>1, AppendShutdown DEF Drops, Close
<1> QED
  BY <1>1, <1>2, <1>3, <1>4, <1>5 DEF MouthStep

\* The safety half of MouthVoice's JoinReturns: a worker that is being joined has its Shutdown
\* before it, for every step but obeying it leaves it in the channel.
THEOREM ShutdownWaits == MouthSpec => []ShutdownNotLost
<1>1. MouthInv /\ ShutdownInv /\ [MouthNext]_mouthVars => ShutdownInv'
  BY NextIsMouthStep, MouthStepKeepsShutdown
<1>2. ShutdownInv => ShutdownNotLost
  BY DEF ShutdownInv
<1> QED
  BY <1>1, <1>2, MouthTyped, InitShutdown, PTL DEF MouthSpec
=============================================================================
