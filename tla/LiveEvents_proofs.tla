-------------------------- MODULE LiveEvents_proofs --------------------------
(***************************************************************************)
(* Proofs about LiveEvents, for any emitters, browsers and numbers of      *)
(* events: an open stream lacks only what was sent while it was replaying. *)
(***************************************************************************)
EXTENDS LiveEvents, SequenceTheorems, TLAPS

\* Every variable of the broadcaster keeps its type.
THEOREM TypeCorrect == Spec => []TypeOK
<1> USE MaxEventsAssumption DEF TypeOK, Events, None
<1>1. Init => TypeOK
  BY DEF Init
<1>2. TypeOK /\ [Next]_vars => TypeOK'
  <2> SUFFICES ASSUME TypeOK, [Next]_vars PROVE TypeOK'
    OBVIOUS
  <2>1. ASSUME NEW e \in Emitters, Record(e) PROVE TypeOK'
    <3>1. emitted[e] + 1 \in 1 .. MaxEvents
      BY <2>1 DEF Record
    <3>2. emitting'[e] \in Events
      BY <2>1, <3>1 DEF Record
    <3> QED
      BY <2>1, <3>1, <3>2 DEF Record
  <2>2. ASSUME NEW e \in Emitters, Broadcast(e) PROVE TypeOK'
    <3>1. emitting[e] \in Events
      BY <2>2 DEF Broadcast
    <3>2. inbox' \in [Browsers -> Seq(Events)]
      BY <2>2, <3>1 DEF Broadcast
    <3> QED
      BY <2>2, <3>1, <3>2 DEF Broadcast, Connected
  <2>3. ASSUME NEW b \in Browsers, Replay(b) \/ Register(b) \/ Hangup(b) PROVE TypeOK'
    <3>1. CASE Replay(b)
      <4>1. Len(history) \in Nat
        BY LenProperties
      <4>2. inbox' \in [Browsers -> Seq(Events)] /\ replayed' \in [Browsers -> Nat]
        BY <3>1, <4>1 DEF Replay
      <4> QED
        BY <3>1, <4>2 DEF Replay
    <3>2. CASE Register(b)
      BY <3>2 DEF Register
    <3>3. CASE Hangup(b)
      BY <3>3 DEF Hangup
    <3> QED
      BY <2>3, <3>1, <3>2, <3>3
  <2>4. CASE UNCHANGED vars
    BY <2>4 DEF vars
  <2> QED
    BY <2>1, <2>2, <2>3, <2>4 DEF Next, Emit, Browse
<1> QED
  BY <1>1, <1>2, PTL DEF Spec

\* An open stream is among the senders; and from the moment of its replay a
\* browser has every settled event, or has missed it.
SubscribedInv ==
    /\ \A b \in Browsers : stream[b] = "open" => b \in senders
    /\ \A b \in Browsers, event \in Events :
          stream[b] \in {"replaying", "open"} /\ Settled(event) =>
              Got(b, event) \/ event \in missed[b]

\* Recording settles nothing: the event is still to be sent.
LEMMA RecordKeepsSubscribed ==
    ASSUME TypeOK, SubscribedInv, NEW e \in Emitters, Record(e)
    PROVE  SubscribedInv'
<1>1. ASSUME NEW event \in Events, Settled(event)' PROVE Settled(event)
  <2>1. event # <<e, emitted[e] + 1>>
    BY <1>1 DEF Record, Settled, TypeOK, Events
  <2>2. Recorded(event)
    BY <1>1, <2>1 DEF Record, Settled, Recorded, TypeOK, Events
  <2>3. emitting[event[1]] # event
    BY <1>1, <2>1 DEF Record, Settled, TypeOK, Events, None
  <2> QED
    BY <2>2, <2>3 DEF Settled
<1> QED
  BY <1>1 DEF Record, SubscribedInv, Got, TypeOK

\* What was in a sequence, and what is appended, is in the longer one.
LEMMA AppendHolds ==
    ASSUME NEW q \in Seq(Events), NEW x \in Events, NEW y,
           y = x \/ \E i \in DOMAIN q : q[i] = y
    PROVE  \E i \in DOMAIN Append(q, x) : Append(q, x)[i] = y
<1>1. CASE y = x
  <2>1. Len(q) + 1 \in DOMAIN Append(q, x) /\ Append(q, x)[Len(q) + 1] = x
    OBVIOUS
  <2> QED
    BY <1>1, <2>1
<1>2. CASE \E i \in DOMAIN q : q[i] = y
  <2>1. PICK i \in DOMAIN q : q[i] = y
    BY <1>2
  <2>2. i \in DOMAIN Append(q, x) /\ Append(q, x)[i] = q[i]
    OBVIOUS
  <2> QED
    BY <2>1, <2>2
<1> QED
  BY <1>1, <1>2

\* A broadcast settles one event: it is sent to the open streams, and missed
\* by those that are replaying.
LEMMA BroadcastKeepsSubscribed ==
    ASSUME TypeOK, SubscribedInv, NEW e \in Emitters, Broadcast(e)
    PROVE  SubscribedInv'
<1>1. ASSUME NEW b \in Browsers, stream'[b] = "open" PROVE b \in senders' /\ b \in Connected
  BY <1>1 DEF Broadcast, SubscribedInv, Connected
<1>2. emitting[e] \in Events
  BY DEF Broadcast, TypeOK
<1>3. ASSUME NEW event \in Events, Settled(event)', event # emitting[e] PROVE Settled(event)
  BY <1>3 DEF Broadcast, Settled, Recorded, TypeOK, Events
<1>4. ASSUME NEW b \in Browsers, NEW event \in Events,
             stream'[b] \in {"replaying", "open"}, Settled(event)'
      PROVE  Got(b, event)' \/ event \in missed'[b]
  <2>1. missed[b] \subseteq missed'[b]
    BY DEF Broadcast, TypeOK
  <2>0. inbox[b] \in Seq(Events)
    BY DEF TypeOK
  <2>2. Got(b, event) => Got(b, event)'
    <3>1. CASE inbox'[b] = inbox[b]
      BY <3>1 DEF Got
    <3>2. CASE inbox'[b] = Append(inbox[b], emitting[e])
      BY <3>2, <1>2, <2>0, AppendHolds DEF Got
    <3> QED
      BY <3>1, <3>2 DEF Broadcast
  <2>3. CASE event # emitting[e]
    BY <1>3, <1>4, <2>1, <2>2, <2>3 DEF Broadcast, SubscribedInv
  <2>4. CASE event = emitting[e] /\ stream[b] = "replaying"
    BY <2>4 DEF Broadcast, TypeOK
  <2>5. CASE event = emitting[e] /\ stream[b] = "open"
    <3>1. inbox'[b] = Append(inbox[b], event)
      BY <1>1, <2>5 DEF Broadcast
    <3> QED
      BY <3>1, <2>0, AppendHolds DEF Got
  <2> QED
    BY <1>4, <2>3, <2>4, <2>5 DEF Broadcast
<1> QED
  BY <1>1, <1>4 DEF SubscribedInv

\* A replay gives the browser everything that is recorded.
LEMMA BrowseKeepsSubscribed ==
    ASSUME TypeOK, SubscribedInv, NEW b \in Browsers, Replay(b) \/ Register(b) \/ Hangup(b)
    PROVE  SubscribedInv'
<1>1. CASE Replay(b)
  BY <1>1 DEF Replay, SubscribedInv, Settled, Recorded, Got, TypeOK
<1>2. CASE Register(b) \/ Hangup(b)
  BY <1>2 DEF Register, Hangup, SubscribedInv, Settled, Recorded, Got, TypeOK
<1> QED
  BY <1>1, <1>2

\* An open stream lacks only the events that were sent while it was replaying.
THEOREM LossIsBounded == Spec => []LosesOnlyWhileReplaying
<1>1. Init => SubscribedInv
  BY DEF Init, SubscribedInv
<1>2. TypeOK /\ SubscribedInv /\ [Next]_vars => SubscribedInv'
  <2> SUFFICES ASSUME TypeOK, SubscribedInv, [Next]_vars PROVE SubscribedInv'
    OBVIOUS
  <2>1. CASE Emit
    BY <2>1, RecordKeepsSubscribed, BroadcastKeepsSubscribed DEF Emit
  <2>2. CASE Browse
    BY <2>2, BrowseKeepsSubscribed DEF Browse
  <2>3. CASE UNCHANGED vars
    BY <2>3 DEF vars, SubscribedInv, Settled, Recorded, Got
  <2> QED
    BY <2>1, <2>2, <2>3 DEF Next
<1>3. SubscribedInv => LosesOnlyWhileReplaying
  BY DEF SubscribedInv, LosesOnlyWhileReplaying
<1> QED
  BY <1>1, <1>2, <1>3, TypeCorrect, PTL DEF Spec

\* How much of what a browser got was live, and what it got, newest first.
LiveLen(b) == Len(inbox[b]) - replayed[b]
Newest(b, i) == inbox[b][Len(inbox[b]) - i + 1]

\* Senders are the streams that are open or were; as long as a browser replays it
\* has nothing live; and two open streams agree on their newest live events.
AgreeInv ==
    /\ \A b \in Browsers :
          /\ stream[b] = "open" => b \in senders
          /\ b \in senders => stream[b] \in {"open", "closed"}
    /\ \A b \in Browsers : replayed[b] <= Len(inbox[b])
    /\ \A b \in Browsers : stream[b] \in {"away", "replaying"} => LiveLen(b) = 0
    /\ \A b, c \in Browsers :
          stream[b] = "open" /\ stream[c] = "open" /\ LiveLen(b) <= LiveLen(c) =>
              \A i \in 1 .. LiveLen(b) : Newest(b, i) = Newest(c, i)

\* Only a broadcast changes what is live: each open stream gets the same event.
LEMMA BroadcastKeepsAgreement ==
    ASSUME TypeOK, AgreeInv, NEW e \in Emitters, Broadcast(e)
    PROVE  AgreeInv'
<1> DEFINE x == emitting[e]
<1>1. x \in Events
  BY DEF Broadcast, TypeOK
<1>2. ASSUME NEW b \in Browsers
      PROVE  inbox[b] \in Seq(Events) /\ Len(inbox[b]) \in Nat /\ replayed[b] \in Nat
  BY LenProperties DEF TypeOK
<1>3. UNCHANGED <<stream, replayed>> /\ senders' = Connected
  BY DEF Broadcast
<1>4. ASSUME NEW b \in Browsers, stream[b] = "open"
      PROVE  inbox'[b] = Append(inbox[b], x)
  BY <1>4 DEF Broadcast, Connected, AgreeInv
<1>5. ASSUME NEW b \in Browsers, stream[b] # "open"
      PROVE  inbox'[b] = inbox[b]
  BY <1>5 DEF Broadcast, Connected, AgreeInv
<1> HIDE DEF x
<1>6. ASSUME NEW b \in Browsers, stream[b] = "open"
      PROVE  /\ Len(inbox'[b]) = Len(inbox[b]) + 1
             /\ LiveLen(b)' = LiveLen(b) + 1
             /\ Newest(b, 1)' = x
             /\ \A i \in 2 .. Len(inbox[b]) + 1 : Newest(b, i)' = Newest(b, i - 1)
  <2> DEFINE q == inbox[b]
  <2>1. q \in Seq(Events) /\ Len(q) \in Nat
    BY <1>2
  <2> HIDE DEF q
  <2>2. /\ Len(Append(q, x)) = Len(q) + 1 /\ Append(q, x)[Len(q) + 1] = x
        /\ \A j \in 1 .. Len(q) : Append(q, x)[j] = q[j]
    BY <1>1, <2>1, AppendProperties
  <2>3. inbox'[b] = Append(q, x) /\ inbox[b] = q /\ replayed'[b] = replayed[b]
    BY <1>3, <1>4, <1>6 DEF q
  <2>4. Newest(b, 1)' = x
    BY <2>1, <2>2, <2>3 DEF Newest
  <2>5. ASSUME NEW i \in 2 .. Len(q) + 1 PROVE Newest(b, i)' = Newest(b, i - 1)
    <3>1. Len(q) + 1 - i + 1 \in 1 .. Len(q) /\ Len(q) + 1 - i + 1 = Len(q) - (i - 1) + 1
      BY <2>1, <2>5
    <3> QED
      BY <2>2, <2>3, <3>1 DEF Newest
  <2>6. Len(inbox'[b]) = Len(q) + 1
    BY <2>2, <2>3
  <2>7. LiveLen(b)' = LiveLen(b) + 1
    <3>1. LiveLen(b)' = Len(inbox'[b]) - replayed'[b] /\ LiveLen(b) = Len(q) - replayed[b]
      BY <2>3 DEF LiveLen
    <3>2. replayed[b] \in Nat
      BY <1>2
    <3> QED
      BY <2>1, <2>3, <2>6, <3>1, <3>2
  <2> QED
    BY <2>3, <2>4, <2>5, <2>6, <2>7
<1>7. ASSUME NEW b \in Browsers
      PROVE  /\ (stream[b] = "open" => b \in senders)'
             /\ (b \in senders => stream[b] \in {"open", "closed"})'
  BY <1>3 DEF Connected, AgreeInv
<1>8. ASSUME NEW b \in Browsers
      PROVE  /\ (replayed[b] <= Len(inbox[b]))'
             /\ (stream[b] \in {"away", "replaying"} => LiveLen(b) = 0)'
  BY <1>2, <1>3, <1>5, <1>6 DEF AgreeInv, LiveLen
<1>9. ASSUME NEW b \in Browsers, NEW c \in Browsers, stream'[b] = "open", stream'[c] = "open",
             (LiveLen(b) <= LiveLen(c))', NEW i \in 1 .. LiveLen(b)'
      PROVE  (Newest(b, i) = Newest(c, i))'
  <2>1. stream[b] = "open" /\ stream[c] = "open"
    BY <1>3, <1>9
  <2>2. LiveLen(b) \in Nat /\ LiveLen(c) \in Nat /\ LiveLen(b) <= LiveLen(c)
    <3>1. LiveLen(b) \in Nat /\ LiveLen(c) \in Nat
      BY <1>2 DEF AgreeInv, LiveLen
    <3> QED
      BY <1>6, <1>9, <2>1, <3>1
  <2>3. CASE i = 1
    BY <1>6, <2>1, <2>3
  <2>4. CASE i # 1
    <3>1. i - 1 \in 1 .. LiveLen(b)
      BY <1>6, <1>9, <2>1, <2>2, <2>4
    <3>2. Newest(b, i - 1) = Newest(c, i - 1)
      BY <2>1, <2>2, <3>1 DEF AgreeInv
    <3>3. i \in 2 .. Len(inbox[b]) + 1 /\ i \in 2 .. Len(inbox[c]) + 1
      BY <1>2, <2>2, <3>1 DEF LiveLen
    <3> QED
      BY <1>6, <2>1, <3>2, <3>3
  <2> QED
    BY <2>3, <2>4
<1> QED
  BY <1>7, <1>8, <1>9 DEF AgreeInv

LEMMA AgreeInductive == TypeOK /\ AgreeInv /\ [Next]_vars => AgreeInv'
<1> SUFFICES ASSUME TypeOK, AgreeInv, [Next]_vars PROVE AgreeInv'
  OBVIOUS
<1>t. ASSUME NEW b \in Browsers
      PROVE  Len(inbox[b]) \in Nat /\ replayed[b] \in Nat /\ Len(history) \in Nat
  BY LenProperties DEF TypeOK
<1>1. ASSUME NEW e \in Emitters, Record(e) PROVE AgreeInv'
  BY <1>1 DEF Record, AgreeInv, LiveLen, Newest
<1>2. ASSUME NEW e \in Emitters, Broadcast(e) PROVE AgreeInv'
  BY <1>2, BroadcastKeepsAgreement
<1>3. ASSUME NEW b \in Browsers, Replay(b) PROVE AgreeInv'
  <2>1. ASSUME NEW c \in Browsers, c # b
        PROVE  inbox'[c] = inbox[c] /\ replayed'[c] = replayed[c] /\ stream'[c] = stream[c]
    BY <1>3, <2>1 DEF Replay, TypeOK
  <2>2. stream'[b] = "replaying" /\ inbox'[b] = history /\ replayed'[b] = Len(history)
    BY <1>3 DEF Replay, TypeOK
  <2>3. UNCHANGED senders /\ stream[b] = "away"
    BY <1>3 DEF Replay
  <2>4. ASSUME NEW c \in Browsers
        PROVE  /\ (stream[c] = "open" => c \in senders)'
               /\ (c \in senders => stream[c] \in {"open", "closed"})'
               /\ (replayed[c] <= Len(inbox[c]))'
               /\ (stream[c] \in {"away", "replaying"} => LiveLen(c) = 0)'
    <3>1. CASE c = b
      BY <1>t, <2>2, <2>3, <3>1 DEF AgreeInv, LiveLen
    <3>2. CASE c # b
      BY <2>1, <2>3, <3>2 DEF AgreeInv, LiveLen
    <3> QED
      BY <3>1, <3>2
  <2>5. ASSUME NEW c \in Browsers, stream'[c] = "open"
        PROVE  /\ inbox'[c] = inbox[c] /\ replayed'[c] = replayed[c] /\ stream[c] = "open"
    BY <2>1, <2>2, <2>5
  <2>6. ASSUME NEW c \in Browsers, NEW d \in Browsers, stream'[c] = "open", stream'[d] = "open",
               (LiveLen(c) <= LiveLen(d))', NEW i \in 1 .. LiveLen(c)'
        PROVE  (Newest(c, i) = Newest(d, i))'
    <3>1. LiveLen(c)' = LiveLen(c) /\ LiveLen(d)' = LiveLen(d)
      BY <2>5, <2>6 DEF LiveLen
    <3>2. Newest(c, i)' = Newest(c, i) /\ Newest(d, i)' = Newest(d, i)
      BY <2>5, <2>6 DEF Newest
    <3>3. stream[c] = "open" /\ stream[d] = "open"
      BY <2>5, <2>6
    <3> QED
      BY <2>6, <3>1, <3>2, <3>3 DEF AgreeInv
  <2> QED
    BY <2>4, <2>6 DEF AgreeInv
<1>4. ASSUME NEW b \in Browsers, Register(b) PROVE AgreeInv'
  <2>1. LiveLen(b) = 0
    BY <1>4 DEF Register, AgreeInv
  <2>2. \A c \in Browsers : LiveLen(c) \in Int
    BY <1>t DEF LiveLen
  <2> QED
    BY <1>4, <2>1, <2>2 DEF Register, AgreeInv, LiveLen, Newest, TypeOK
<1>5. ASSUME NEW b \in Browsers, Hangup(b) PROVE AgreeInv'
  BY <1>5 DEF Hangup, AgreeInv, LiveLen, Newest, TypeOK
<1>6. CASE UNCHANGED vars
  BY <1>6 DEF vars, AgreeInv, LiveLen, Newest
<1> QED
  BY <1>1, <1>2, <1>3, <1>4, <1>5, <1>6 DEF Next, Emit, Browse

\* One sequence is the end of another if their last elements are the same.
LEMMA SuffixFromTheEnd ==
    ASSUME NEW S, NEW s \in Seq(S), NEW t \in Seq(S), Len(s) <= Len(t),
           \A i \in 1 .. Len(s) : s[Len(s) - i + 1] = t[Len(t) - i + 1]
    PROVE  IsSuffix(s, t)
<1> DEFINE r == Reverse(s)
           q == Reverse(t)
<1>1. Len(s) \in Nat /\ Len(t) \in Nat
  BY LenProperties
<1>2. r \in Seq(S) /\ Len(r) = Len(s) /\ \A i \in 1 .. Len(s) : r[i] = s[Len(s) - i + 1]
  BY <1>1 DEF Reverse
<1>3. q \in Seq(S) /\ Len(q) = Len(t) /\ \A i \in 1 .. Len(t) : q[i] = t[Len(t) - i + 1]
  BY <1>1 DEF Reverse
<1> HIDE DEF r, q
<1>4. \A i \in 1 .. Len(s) : r[i] = q[i]
  <2> SUFFICES ASSUME NEW i \in 1 .. Len(s) PROVE r[i] = q[i]
    OBVIOUS
  <2>1. i \in 1 .. Len(t)
    BY <1>1
  <2> QED
    BY <1>2, <1>3, <2>1
<1>5. SubSeq(r, 1, Len(r)) = SubSeq(q, 1, Len(r))
  BY <1>1, <1>2, <1>3, <1>4
<1> QED
  BY <1>1, <1>2, <1>3, <1>5 DEF IsSuffix, IsPrefix, r, q

\* Open streams agree on what is live, whenever they were opened.
THEOREM StreamsAreInStep == Spec => []StreamsAgree
<1>1. Init => AgreeInv
  BY DEF Init, AgreeInv, LiveLen
<1>2. TypeOK /\ AgreeInv => StreamsAgree
  <2> SUFFICES ASSUME TypeOK, AgreeInv PROVE StreamsAgree
    OBVIOUS
  <2>3. ASSUME NEW d \in Browsers PROVE LiveLen(d) \in Int
    <3>1. inbox[d] \in Seq(Events) /\ replayed[d] \in Nat
      BY DEF TypeOK
    <3> QED
      BY <3>1, LenProperties DEF LiveLen
  <2> SUFFICES ASSUME NEW b \in Browsers, NEW c \in Browsers,
                      stream[b] = "open", stream[c] = "open", LiveLen(b) <= LiveLen(c)
               PROVE  IsSuffix(Live(b), Live(c))
    <3>1. \A d, e \in Browsers : LiveLen(d) <= LiveLen(e) \/ LiveLen(e) <= LiveLen(d)
      BY <2>3
    <3> QED
      BY <3>1 DEF StreamsAgree
  <2>1. ASSUME NEW d \in Browsers
        PROVE  /\ Live(d) \in Seq(Events) /\ Len(Live(d)) = LiveLen(d)
               /\ \A i \in 1 .. LiveLen(d) : Live(d)[LiveLen(d) - i + 1] = Newest(d, i)
    <3>1. /\ inbox[d] \in Seq(Events) /\ Len(inbox[d]) \in Nat /\ replayed[d] \in Nat
          /\ replayed[d] <= Len(inbox[d])
      BY LenProperties DEF TypeOK, AgreeInv
    <3>2. \A i \in replayed[d] + 1 .. Len(inbox[d]) : inbox[d][i] \in Events
      BY <3>1
    <3>3. /\ Live(d) \in Seq(Events)
          /\ Len(Live(d)) = LiveLen(d)
          /\ \A j \in 1 .. LiveLen(d) : Live(d)[j] = inbox[d][replayed[d] + j]
      <4> DEFINE m == replayed[d] + 1
                 n == Len(inbox[d])
      <4>1. m \in Int /\ n \in Int /\ \A i \in m .. n : inbox[d][i] \in Events
        BY <3>1, <3>2
      <4>2. /\ SubSeq(inbox[d], m, n) \in Seq(Events)
            /\ Len(SubSeq(inbox[d], m, n)) = IF m <= n THEN n - m + 1 ELSE 0
            /\ \A j \in 1 .. n - m + 1 : SubSeq(inbox[d], m, n)[j] = inbox[d][m + j - 1]
        BY <4>1, SubSeqProperties
      <4>3. n - m + 1 = LiveLen(d) /\ (n < m => LiveLen(d) = 0)
        BY <3>1 DEF LiveLen
      <4>4. \A j \in 1 .. LiveLen(d) : m + j - 1 = replayed[d] + j
        BY <3>1
      <4> QED
        BY <4>1, <4>2, <4>3, <4>4 DEF Live
    <3>4. ASSUME NEW i \in 1 .. LiveLen(d)
          PROVE  Live(d)[LiveLen(d) - i + 1] = Newest(d, i)
      <4>1. /\ LiveLen(d) - i + 1 \in 1 .. LiveLen(d)
            /\ replayed[d] + (LiveLen(d) - i + 1) = Len(inbox[d]) - i + 1
        BY <3>1 DEF LiveLen
      <4> QED
        BY <3>3, <4>1 DEF Newest
    <3> QED
      BY <3>3, <3>4
  <2>2. \A i \in 1 .. LiveLen(b) : Newest(b, i) = Newest(c, i)
    BY DEF AgreeInv
  <2>4. \A i \in 1 .. Len(Live(b)) :
            Live(b)[Len(Live(b)) - i + 1] = Live(c)[Len(Live(c)) - i + 1]
    BY <2>1, <2>2, <2>3
  <2>5. Live(b) \in Seq(Events) /\ Live(c) \in Seq(Events) /\ Len(Live(b)) <= Len(Live(c))
    BY <2>1
  <2> QED
    BY <2>4, <2>5, SuffixFromTheEnd
<1> QED
  BY <1>1, <1>2, AgreeInductive, TypeCorrect, PTL DEF Spec
=============================================================================
