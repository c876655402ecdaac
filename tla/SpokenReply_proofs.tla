-------------------------- MODULE SpokenReply_proofs --------------------------
(***************************************************************************)
(* Proofs about SpokenReply, for any number of replies and units: speech   *)
(* is heard in the order in which it was planned, audio of an earlier      *)
(* reply intrudes only if it was unfinished, and a unit is lost only to a  *)
(* cancellation.                                                           *)
(***************************************************************************)
EXTENDS SpokenReply, SequenceTheorems, TLAPS

(***************************************************************************)
(* Sequences and the sets of their elements.                               *)
(***************************************************************************)
LEMMA EmptySet == ToSet(<<>>) = {}
  BY EmptySeq, LenProperties DEF ToSet

LEMMA InSet ==
    ASSUME NEW S, NEW s \in Seq(S)
    PROVE  /\ ToSet(s) \subseteq S
           /\ \A i \in 1 .. Len(s) : s[i] \in ToSet(s)
           /\ \A x \in ToSet(s) : \E i \in 1 .. Len(s) : s[i] = x
  BY LenProperties, ElementOfSeq DEF ToSet

LEMMA AppendSet ==
    ASSUME NEW S, NEW s \in Seq(S), NEW x \in S
    PROVE  /\ Append(s, x) \in Seq(S)
           /\ ToSet(Append(s, x)) = ToSet(s) \cup {x}
<1>1. /\ Append(s, x) \in Seq(S) /\ Len(Append(s, x)) = Len(s) + 1 /\ Len(s) \in Nat
      /\ \A i \in 1 .. Len(s) : Append(s, x)[i] = s[i]
      /\ Append(s, x)[Len(s) + 1] = x
  BY AppendProperties, LenProperties
<1>2. DOMAIN s = 1 .. Len(s) /\ DOMAIN Append(s, x) = 1 .. Len(s) + 1
  BY <1>1, LenProperties
<1>3. ToSet(Append(s, x)) \subseteq ToSet(s) \cup {x}
  <2> SUFFICES ASSUME NEW i \in 1 .. Len(s) + 1 PROVE Append(s, x)[i] \in ToSet(s) \cup {x}
    BY <1>2 DEF ToSet
  <2>1. i \in 1 .. Len(s) \/ i = Len(s) + 1
    BY <1>1
  <2> QED
    BY <1>1, <1>2, <2>1 DEF ToSet
<1>4. ToSet(s) \cup {x} \subseteq ToSet(Append(s, x))
  <2>1. \A i \in 1 .. Len(s) : i \in 1 .. Len(s) + 1
    BY <1>1
  <2>2. Len(s) + 1 \in 1 .. Len(s) + 1
    BY <1>1
  <2> QED
    BY <1>1, <1>2, <2>1, <2>2 DEF ToSet
<1> QED
  BY <1>1, <1>3, <1>4

LEMMA TailSet ==
    ASSUME NEW S, NEW s \in Seq(S), s # <<>>
    PROVE  /\ Tail(s) \in Seq(S) /\ Head(s) \in ToSet(s) /\ ToSet(Tail(s)) \subseteq ToSet(s)
           /\ Len(Tail(s)) = Len(s) - 1 /\ Len(s) \in Nat \ {0} /\ Head(s) = s[1]
           /\ \A i \in 1 .. Len(s) - 1 : Tail(s)[i] = s[i + 1]
<1>1. /\ Tail(s) \in Seq(S) /\ Len(Tail(s)) = Len(s) - 1 /\ Len(s) \in Nat \ {0}
      /\ Head(s) = s[1] /\ \A i \in 1 .. Len(s) - 1 : Tail(s)[i] = s[i + 1]
  BY HeadTailProperties, EmptySeq, LenProperties
<1>2. DOMAIN Tail(s) = 1 .. Len(s) - 1 /\ DOMAIN s = 1 .. Len(s)
  BY <1>1, LenProperties
<1>3. \A i \in 1 .. Len(s) - 1 : i + 1 \in 1 .. Len(s)
  BY <1>1
<1> QED
  BY <1>1, <1>2, <1>3 DEF ToSet

LEMMA ConcatSet ==
    ASSUME NEW S, NEW s \in Seq(S), NEW t \in Seq(S)
    PROVE  s \o t \in Seq(S) /\ ToSet(s \o t) = ToSet(s) \cup ToSet(t)
<1>1. /\ s \o t \in Seq(S) /\ Len(s \o t) = Len(s) + Len(t) /\ Len(s) \in Nat /\ Len(t) \in Nat
      /\ \A i \in 1 .. Len(s) + Len(t) :
            (s \o t)[i] = IF i <= Len(s) THEN s[i] ELSE t[i - Len(s)]
  BY ConcatProperties, LenProperties
<1>2. /\ DOMAIN s = 1 .. Len(s) /\ DOMAIN t = 1 .. Len(t)
      /\ DOMAIN (s \o t) = 1 .. Len(s) + Len(t)
  BY <1>1, LenProperties
<1>3. ToSet(s \o t) \subseteq ToSet(s) \cup ToSet(t)
  <2> SUFFICES ASSUME NEW i \in 1 .. Len(s) + Len(t) PROVE (s \o t)[i] \in ToSet(s) \cup ToSet(t)
    BY <1>2 DEF ToSet
  <2>1. CASE i <= Len(s)
    BY <1>1, <1>2, <2>1 DEF ToSet
  <2>2. CASE ~(i <= Len(s))
    <3>1. i - Len(s) \in 1 .. Len(t)
      BY <1>1, <2>2
    <3> QED
      BY <1>1, <1>2, <2>2, <3>1 DEF ToSet
  <2> QED
    BY <2>1, <2>2
<1>4. ToSet(s) \subseteq ToSet(s \o t)
  <2>1. \A i \in 1 .. Len(s) : i \in 1 .. Len(s) + Len(t) /\ i <= Len(s)
    BY <1>1
  <2> QED
    BY <1>1, <1>2, <2>1 DEF ToSet
<1>5. ToSet(t) \subseteq ToSet(s \o t)
  <2> SUFFICES ASSUME NEW i \in 1 .. Len(t) PROVE t[i] \in ToSet(s \o t)
    BY <1>2 DEF ToSet
  <2>1. Len(s) + i \in 1 .. Len(s) + Len(t) /\ ~(Len(s) + i <= Len(s)) /\ Len(s) + i - Len(s) = i
    BY <1>1
  <2> QED
    BY <1>1, <1>2, <2>1 DEF ToSet
<1> QED
  BY <1>1, <1>3, <1>4, <1>5

(***************************************************************************)
(* Types.                                                                  *)
(***************************************************************************)
Speaking == {"prepare", "speak", "flush", "fallback"}

\* A reply that is being spoken has a number, and room for its fallback.
TypeInv ==
    /\ TypeOK
    /\ phase \in Speaking => reply \in 1 .. MaxReplies
    /\ phase \in {"prepare", "speak", "flush"} => planned \in 0 .. MaxUnits

LEMMA Signals ==
    /\ Signal("stop") \in Commands /\ Signal("shutdown") \in Commands
    /\ Signal("stop") \notin Requests /\ Signal("shutdown") \notin Requests
    /\ Idle \notin Requests /\ Gone \notin Requests
    /\ Requests \subseteq Commands
  BY DEF Signal, Commands, Requests, Idle, Gone

LEMMA WorkerType ==
    ASSUME PiperTypeOK, Worker PROVE PiperTypeOK'
<1> USE Signals DEF PiperTypeOK
<1>0. ToSet(commands) \subseteq Commands
  BY InSet
<1>1. CASE BeginSynthesis
  BY <1>1, TailSet DEF BeginSynthesis
<1>2. CASE EndSynthesis
  <2>1. audio' \in Seq(Requests)
    BY <1>2, AppendSet DEF EndSynthesis
  <2> QED
    BY <1>2, <2>1 DEF EndSynthesis
<1>3. CASE TakeStop
  <2>1. commands' \in Seq(Commands)
    BY <1>3, EmptySeq DEF TakeStop
  <2>2. working' \in Requests \cup {Idle, Gone}
    BY <1>3 DEF TakeStop
  <2> QED
    BY <1>3, <2>1, <2>2 DEF TakeStop
<1>4. CASE TakeShutdown
  BY <1>4, TailSet DEF TakeShutdown
<1> QED
  BY <1>1, <1>2, <1>3, <1>4 DEF Worker

LEMMA HandleType ==
    ASSUME PiperTypeOK
    PROVE  /\ \A request \in Requests : PiperEnqueue(request) => PiperTypeOK'
           /\ PiperPoll => PiperTypeOK'
           /\ PiperStop => PiperTypeOK'
           /\ PiperDrop /\ UNCHANGED <<working, audio, failed, swallowed>> => PiperTypeOK'
           /\ UNCHANGED piperVars => PiperTypeOK'
<1> USE Signals DEF PiperTypeOK
<1>1. \A request \in Requests : PiperEnqueue(request) => PiperTypeOK'
  BY AppendSet DEF PiperEnqueue
<1>2. PiperPoll => PiperTypeOK'
  BY EmptySeq DEF PiperPoll
<1>3. PiperStop => PiperTypeOK'
  BY EmptySeq, AppendSet DEF PiperStop
<1>4. PiperDrop /\ UNCHANGED <<working, audio, failed, swallowed>> => PiperTypeOK'
  BY AppendSet DEF PiperDrop
<1>5. UNCHANGED piperVars => PiperTypeOK'
  BY DEF piperVars
<1> QED
  BY <1>1, <1>2, <1>3, <1>4, <1>5

CacheTypeOK ==
    /\ caching \in BOOLEAN /\ collecting \in BOOLEAN /\ mixed \in BOOLEAN
    /\ cached \in Seq(Requests) /\ hits \in Seq(Requests) /\ collected \in Seq(Requests)

LEMMA NobodysType ==
    ASSUME NEW x \in Requests
    PROVE  /\ [x EXCEPT !.reply = 0] \in Requests /\ [x EXCEPT !.reply = 0].reply = 0
           /\ [x EXCEPT !.reply = 0].kind = x.kind
<1>1. 0 \in 0 .. MaxReplies
  BY ReplyAssumption
<1> QED
  BY <1>1 DEF Requests

LEMMA StoredType ==
    ASSUME NEW s \in Seq(Requests)
    PROVE  /\ Stored(s) \in Seq(Requests)
           /\ \A x \in ToSet(Stored(s)) : x.reply = 0
           /\ \A x \in ToSet(Stored(s)) : \E y \in ToSet(s) : x.kind = y.kind
<1>1. Len(s) \in Nat /\ DOMAIN s = 1 .. Len(s)
  BY LenProperties
<1>2. \A i \in 1 .. Len(s) : /\ [s[i] EXCEPT !.reply = 0] \in Requests
                              /\ [s[i] EXCEPT !.reply = 0].reply = 0
                              /\ [s[i] EXCEPT !.reply = 0].kind = s[i].kind
  <2> SUFFICES ASSUME NEW i \in 1 .. Len(s)
               PROVE  /\ [s[i] EXCEPT !.reply = 0] \in Requests
                      /\ [s[i] EXCEPT !.reply = 0].reply = 0
                      /\ [s[i] EXCEPT !.reply = 0].kind = s[i].kind
    OBVIOUS
  <2>1. s[i] \in Requests
    BY ElementOfSeq
  <2> QED
    BY <2>1, NobodysType
<1>3. Stored(s) = [i \in 1 .. Len(s) |-> [s[i] EXCEPT !.reply = 0]]
  BY <1>1 DEF Stored
<1>4. Stored(s) \in Seq(Requests)
  <2>1. Stored(s) \in [1 .. Len(s) -> Requests]
    BY <1>2, <1>3
  <2> QED
    BY <1>1, <2>1, SeqDef
<1>5. \A x \in ToSet(Stored(s)) : x.reply = 0
  <2>1. DOMAIN Stored(s) = 1 .. Len(s) /\ \A i \in 1 .. Len(s) : Stored(s)[i].reply = 0
    BY <1>2, <1>3
  <2> QED
    BY <2>1 DEF ToSet
<1>6. \A x \in ToSet(Stored(s)) : \E y \in ToSet(s) : x.kind = y.kind
  <2>1. DOMAIN Stored(s) = 1 .. Len(s) /\ \A i \in 1 .. Len(s) : Stored(s)[i].kind = s[i].kind
    BY <1>2, <1>3
  <2> QED
    BY <1>1, <2>1 DEF ToSet
<1> QED
  BY <1>4, <1>5, <1>6

LEMMA CacheType ==
    ASSUME PiperTypeOK, CacheTypeOK
    PROVE  /\ \A request \in Requests : TtsEnqueue(request) /\ UNCHANGED <<caching, cached>> =>
                 PiperTypeOK' /\ CacheTypeOK'
           /\ TtsPoll => PiperTypeOK' /\ CacheTypeOK' /\ Brings \in Seq(Requests)
           /\ TtsStop => PiperTypeOK' /\ CacheTypeOK'
<1> USE DEF CacheTypeOK
<1>1. ASSUME NEW request \in Requests, TtsEnqueue(request), UNCHANGED <<caching, cached>>
      PROVE  PiperTypeOK' /\ CacheTypeOK'
  <2>1. CASE Hit(request.kind)
    <3>1. /\ hits' = hits \o cached /\ collecting' = FALSE /\ collected' = <<>>
          /\ UNCHANGED <<piperVars, mixed>>
      BY <1>1, <2>1 DEF TtsEnqueue
    <3>2. hits' \in Seq(Requests) /\ collected' \in Seq(Requests)
      BY <3>1, ConcatSet, EmptySeq
    <3> QED
      BY <1>1, <3>1, <3>2, HandleType
  <2>2. CASE ~Hit(request.kind)
    <3>1. /\ PiperEnqueue(request)
          /\ collecting' \in BOOLEAN /\ collected' = <<>>
          /\ mixed' = (mixed \/ (caching /\ request.kind = "marker" /\ Outstanding # {}))
          /\ UNCHANGED hits
      BY <1>1, <2>2 DEF TtsEnqueue
    <3>2. mixed' \in BOOLEAN
      BY <3>1
    <3>3. collected' \in Seq(Requests)
      BY <3>1, EmptySeq
    <3> QED
      BY <1>1, <3>1, <3>2, <3>3, HandleType
  <2> QED
    BY <2>1, <2>2
<1>2. ASSUME TtsPoll PROVE PiperTypeOK' /\ CacheTypeOK' /\ Brings \in Seq(Requests)
  <2>0. Brings \in Seq(Requests)
    BY DEF Brings, PiperTypeOK
  <2>1. CASE PollHits
    <3>1. hits' \in Seq(Requests)
      BY <2>1, EmptySeq DEF PollHits
    <3> QED
      BY <1>2, <2>0, <2>1, <3>1, HandleType DEF TtsPoll, PollHits
  <2>2. CASE PollPiper
    <3>1. PiperTypeOK'
      BY <2>2, HandleType DEF PollPiper
    <3>2. <<>> \in Seq(Requests) /\ collected \o audio \in Seq(Requests)
          /\ Stored(collected) \in Seq(Requests)
      BY ConcatSet, EmptySeq, StoredType DEF PiperTypeOK
    <3>3. cached' \in Seq(Requests) /\ collected' \in Seq(Requests) /\ collecting' \in BOOLEAN
      BY <2>2, <3>2 DEF PollPiper
    <3> QED
      BY <1>2, <2>0, <2>2, <3>1, <3>3 DEF TtsPoll, PollPiper
  <2> QED
    BY <1>2, <2>1, <2>2 DEF TtsPoll
<1>3. ASSUME TtsStop PROVE PiperTypeOK' /\ CacheTypeOK'
  <2>1. hits' \in Seq(Requests) /\ collected' \in Seq(Requests)
    BY <1>3, EmptySeq DEF TtsStop
  <2> QED
    BY <1>3, <2>1, HandleType DEF TtsStop
<1> QED
  BY <1>1, <1>2, <1>3

\* A request of the reply that is spoken, and its count after it.
LEMMA NextUnit ==
    ASSUME TypeInv, phase \in Speaking, phase # "fallback", NEW kind \in {"words", "marker"}
    PROVE  /\ [reply |-> reply, n |-> planned + 1, kind |-> kind] \in Requests
           /\ planned + 1 \in 0 .. MaxUnits + 1
<1>1. reply \in 0 .. MaxReplies /\ planned + 1 \in 0 .. MaxUnits + 1
  BY ReplyAssumption DEF TypeInv, Speaking
<1> QED
  BY <1>1 DEF Requests

LEMMA EnqueueType ==
    ASSUME TypeInv, phase \in Speaking, phase # "fallback", NEW kind \in {"words", "marker"},
           Enqueue(kind)
    PROVE  /\ PiperTypeOK' /\ CacheTypeOK' /\ planned' \in 0 .. MaxUnits + 1
           /\ planned' = planned + 1
           /\ UNCHANGED <<reply, prepared, heard, left, cancelled>>
<1>1. [reply |-> reply, n |-> planned + 1, kind |-> kind] \in Requests
      /\ planned + 1 \in 0 .. MaxUnits + 1
  BY NextUnit
<1>2. /\ TtsEnqueue([reply |-> reply, n |-> planned + 1, kind |-> kind])
      /\ planned' = planned + 1 /\ UNCHANGED <<caching, cached>>
      /\ UNCHANGED <<reply, prepared, heard, left, cancelled>>
  BY DEF Enqueue
<1>3. PiperTypeOK /\ CacheTypeOK
  BY DEF TypeInv, TypeOK, CacheTypeOK
<1> QED
  BY <1>1, <1>2, <1>3, CacheType

\* What TypeInv says of a reply.
ReplyTypeOK ==
    /\ phase \in {"idle", "prepare", "speak", "flush", "fallback", "over"}
    /\ reply \in 0 .. MaxReplies /\ planned \in 0 .. MaxUnits + 1 /\ played \in BOOLEAN
    /\ prepared \in Seq(Requests) /\ heard \in Seq(Requests)
    /\ left \subseteq Requests /\ cancelled \subseteq 1 .. MaxReplies
    /\ phase \in Speaking => reply \in 1 .. MaxReplies
    /\ phase \in {"prepare", "speak", "flush"} => planned \in 0 .. MaxUnits

LEMMA TypeParts == TypeInv <=> PiperTypeOK /\ CacheTypeOK /\ ReplyTypeOK
  BY DEF TypeInv, TypeOK, CacheTypeOK, ReplyTypeOK

LEMMA TypePartsNext == TypeInv' <=> PiperTypeOK' /\ CacheTypeOK' /\ ReplyTypeOK'
  BY DEF TypeInv, TypeOK, CacheTypeOK, ReplyTypeOK

LEMMA EnqueuesType ==
    ASSUME TypeInv, PlanFiller \/ PlanUnit \/ SpeakFallback PROVE TypeInv'
<1>0. ReplyTypeOK
  BY TypeParts
<1>1. CASE PlanFiller
  <2>1. phase \in Speaking /\ phase # "fallback" /\ Enqueue("marker") /\ planned = 0
        /\ UNCHANGED <<phase, played>>
    BY <1>1 DEF PlanFiller, Speaking
  <2>2. /\ PiperTypeOK' /\ CacheTypeOK' /\ planned' = planned + 1
        /\ UNCHANGED <<reply, prepared, heard, left, cancelled>>
    BY <2>1, EnqueueType
  <2>3. planned' \in 0 .. MaxUnits /\ planned' \in 0 .. MaxUnits + 1
    BY <2>1, <2>2, ReplyAssumption
  <2>4. ReplyTypeOK'
    BY <1>0, <2>1, <2>2, <2>3 DEF ReplyTypeOK
  <2> QED
    BY <2>2, <2>4, TypePartsNext
<1>2. CASE PlanUnit
  <2>1. PICK kind \in {"words", "marker"} : Enqueue(kind)
    BY <1>2 DEF PlanUnit
  <2>2. phase \in Speaking /\ phase # "fallback" /\ planned < MaxUnits /\ UNCHANGED <<phase, played>>
    BY <1>2 DEF PlanUnit, Speaking
  <2>3. /\ PiperTypeOK' /\ CacheTypeOK' /\ planned' = planned + 1
        /\ UNCHANGED <<reply, prepared, heard, left, cancelled>>
    BY <2>1, <2>2, EnqueueType
  <2>4. planned' \in 0 .. MaxUnits /\ planned' \in 0 .. MaxUnits + 1
    BY <1>0, <2>2, <2>3, ReplyAssumption DEF ReplyTypeOK
  <2>5. ReplyTypeOK'
    BY <1>0, <2>2, <2>3, <2>4 DEF ReplyTypeOK
  <2> QED
    BY <2>3, <2>5, TypePartsNext
<1>3. CASE SpeakFallback
  <2>1. phase \in Speaking /\ phase # "fallback" /\ Enqueue("words") /\ phase' = "fallback"
        /\ UNCHANGED played
    BY <1>3 DEF SpeakFallback, Speaking
  <2>2. /\ PiperTypeOK' /\ CacheTypeOK' /\ planned' \in 0 .. MaxUnits + 1
        /\ UNCHANGED <<reply, prepared, heard, left, cancelled>>
    BY <2>1, EnqueueType
  <2>3. ReplyTypeOK'
    BY <1>0, <2>1, <2>2 DEF ReplyTypeOK, Speaking
  <2> QED
    BY <2>2, <2>3, TypePartsNext
<1> QED
  BY <1>1, <1>2, <1>3

LEMMA PollsType ==
    ASSUME TypeInv, Collect \/ Play PROVE TypeInv'
<1>0. PiperTypeOK /\ CacheTypeOK /\ ReplyTypeOK
  BY TypeParts
<1>1. TtsPoll /\ UNCHANGED <<phase, reply, planned, left, cancelled>>
  BY DEF Collect, Play
<1>2. PiperTypeOK' /\ CacheTypeOK' /\ Brings \in Seq(Requests)
  BY <1>0, <1>1, CacheType
<1>3. prepared' \in Seq(Requests) /\ heard' \in Seq(Requests) /\ played' \in BOOLEAN
  <2>1. prepared \o Brings \in Seq(Requests) /\ heard \o Brings \in Seq(Requests)
    BY <1>0, <1>2, ConcatSet DEF ReplyTypeOK
  <2> QED
    BY <1>0, <2>1 DEF ReplyTypeOK, Collect, Play
<1>4. ReplyTypeOK'
  BY <1>0, <1>1, <1>3 DEF ReplyTypeOK
<1> QED
  BY <1>2, <1>4, TypePartsNext

LEMMA PhasesType ==
    ASSUME TypeInv, BeginReply \/ Interrupted \/ GapReady \/ GenerationEnds \/ ReplyEnds PROVE TypeInv'
<1>0. PiperTypeOK /\ CacheTypeOK /\ ReplyTypeOK
  BY TypeParts
<1>a. <<>> \in Seq(Requests)
  BY EmptySeq
<1>1. CASE BeginReply
  <2>1. PiperTypeOK' /\ CacheTypeOK'
    BY <1>0, <1>1, HandleType DEF BeginReply, cacheVars, CacheTypeOK
  <2>2. reply' \in 1 .. MaxReplies /\ reply' \in 0 .. MaxReplies
        /\ planned' \in 0 .. MaxUnits /\ planned' \in 0 .. MaxUnits + 1
    BY <1>0, <1>1, ReplyAssumption DEF BeginReply, ReplyTypeOK
  <2>3. ReplyTypeOK'
    BY <1>0, <1>1, <1>a, <2>2 DEF ReplyTypeOK, BeginReply
  <2> QED
    BY <2>1, <2>3, TypePartsNext
<1>2. CASE Interrupted
  <2>1. PiperTypeOK' /\ CacheTypeOK'
    BY <1>0, <1>2, CacheType DEF Interrupted
  <2>2. left' \subseteq Requests
    BY <1>0, <1>2 DEF Interrupted, Waiting, ReplyTypeOK
  <2>3. cancelled' \subseteq 1 .. MaxReplies
    BY <1>0, <1>2 DEF Interrupted, ReplyTypeOK, Speaking
  <2>4. ReplyTypeOK'
    BY <1>0, <1>2, <1>a, <2>2, <2>3 DEF ReplyTypeOK, Interrupted, Speaking
  <2> QED
    BY <2>1, <2>4, TypePartsNext
<1>3. CASE GapReady
  <2>1. PiperTypeOK' /\ CacheTypeOK'
    BY <1>0, <1>3, HandleType DEF GapReady, cacheVars, CacheTypeOK
  <2>2. heard' \in Seq(Requests) /\ played' \in BOOLEAN
    BY <1>0, <1>3, ConcatSet DEF GapReady, ReplyTypeOK
  <2>3. ReplyTypeOK'
    BY <1>0, <1>3, <1>a, <2>2 DEF ReplyTypeOK, GapReady, Speaking
  <2> QED
    BY <2>1, <2>3, TypePartsNext
<1>4. CASE GenerationEnds
  <2>1. PiperTypeOK' /\ CacheTypeOK'
    BY <1>0, <1>4, HandleType DEF GenerationEnds, cacheVars, CacheTypeOK
  <2>2. ReplyTypeOK'
    BY <1>0, <1>4 DEF ReplyTypeOK, GenerationEnds, Speaking
  <2> QED
    BY <2>1, <2>2, TypePartsNext
<1>5. CASE ReplyEnds
  <2>1. PiperTypeOK' /\ CacheTypeOK'
    BY <1>0, <1>5, HandleType DEF ReplyEnds, cacheVars, CacheTypeOK
  <2>2. left' \subseteq Requests
    <3>1. ToSet(audio) \subseteq Requests
      BY <1>0, InSet DEF PiperTypeOK
    <3> QED
      BY <1>0, <1>5, <3>1 DEF ReplyEnds, Outstanding, Waiting, ReplyTypeOK
  <2>3. ReplyTypeOK'
    BY <1>0, <1>5, <2>2 DEF ReplyTypeOK, ReplyEnds, Speaking
  <2> QED
    BY <2>1, <2>3, TypePartsNext
<1> QED
  BY <1>1, <1>2, <1>3, <1>4, <1>5

LEMMA EndsType ==
    ASSUME TypeInv, SessionEnds \/ PollFails PROVE TypeInv'
<1>0. PiperTypeOK /\ CacheTypeOK /\ ReplyTypeOK
  BY TypeParts
<1>1. /\ phase' = "over" /\ PiperDrop /\ UNCHANGED <<working, audio, swallowed>>
      /\ UNCHANGED <<cacheVars, reply, planned, played, prepared, heard, left, cancelled>>
  BY DEF SessionEnds, PollFails
<1>2. failed' \in Nat
  BY <1>0 DEF SessionEnds, PollFails, PiperTypeOK
<1>3. commands' \in Seq(Commands)
  BY <1>0, <1>1, AppendSet, Signals DEF PiperDrop, PiperTypeOK
<1>4. PiperTypeOK'
  BY <1>0, <1>1, <1>2, <1>3 DEF PiperTypeOK
<1>5. CacheTypeOK' /\ ReplyTypeOK'
  BY <1>0, <1>1 DEF CacheTypeOK, cacheVars, ReplyTypeOK, Speaking
<1> QED
  BY <1>4, <1>5, TypePartsNext

LEMMA InitType == Init => TypeInv
<1> SUFFICES ASSUME Init PROVE TypeInv
  OBVIOUS
<1>1. <<>> \in Seq(Requests) /\ <<>> \in Seq(Commands)
  BY EmptySeq
<1>2. Prewarmed \in Requests
  BY ReplyAssumption DEF Prewarmed, Requests
<1>3. <<Prewarmed>> \in Seq(Requests)
  BY <1>2
<1>4. PiperTypeOK
  BY <1>1 DEF Init, PiperInit, PiperTypeOK
<1>5. CacheTypeOK
  BY <1>1, <1>3 DEF Init, CacheTypeOK
<1>6. ReplyTypeOK
  <2>1. 0 \in 0 .. MaxReplies /\ 0 \in 0 .. MaxUnits + 1
    BY ReplyAssumption
  <2>2. /\ phase = "idle" /\ reply = 0 /\ planned = 0 /\ played = FALSE
        /\ prepared = <<>> /\ heard = <<>> /\ left = {} /\ cancelled = {}
    BY DEF Init
  <2> QED
    BY <1>1, <2>1, <2>2 DEF ReplyTypeOK, Speaking
<1> QED
  BY <1>4, <1>5, <1>6, TypeParts

LEMMA StepKeepsType == TypeInv /\ [Next]_vars => TypeInv'
<1> SUFFICES ASSUME TypeInv, [Next]_vars PROVE TypeInv'
  OBVIOUS
<1>0. PiperTypeOK /\ CacheTypeOK /\ ReplyTypeOK
  BY TypeParts
<1>1. CASE Session
  BY <1>1, EnqueuesType, PollsType, PhasesType, EndsType DEF Session
<1>2. CASE Worker /\ UNCHANGED <<cacheVars, replyVars>>
  BY <1>0, <1>2, WorkerType, TypePartsNext DEF cacheVars, replyVars, CacheTypeOK, ReplyTypeOK
<1>3. CASE UNCHANGED vars
  BY <1>0, <1>3, HandleType, TypePartsNext DEF vars, cacheVars, replyVars, CacheTypeOK, ReplyTypeOK
<1> QED
  BY <1>1, <1>2, <1>3 DEF Next

\* Whatever is queued, prepared, cached or heard is a unit of some reply; a reply
\* plans at most its units and one fallback.
THEOREM TypeCorrect == Spec => []TypeOK
<1>1. TypeInv => TypeOK
  BY DEF TypeInv
<1> QED
  BY <1>1, InitType, StepKeepsType, PTL DEF Spec

(***************************************************************************)
(* What a step does to the units on their way.                             *)
(***************************************************************************)
InWork == {working} \cap Requests
InQueue == ToSet(commands) \cap Requests

\* The worker only moves units on, from the queue through its hands to the audio.
LEMMA WorkerMoves ==
    ASSUME PiperTypeOK, Worker
    PROVE  /\ Outstanding' \subseteq Outstanding /\ InQueue' \subseteq InQueue
           /\ ToSet(commands)' \subseteq ToSet(commands)
<1>1. CASE BeginSynthesis
  <2>1. /\ ToSet(commands') \subseteq ToSet(commands) /\ working' \in ToSet(commands)
        /\ audio' = audio
    BY <1>1, TailSet DEF BeginSynthesis, PiperTypeOK
  <2> QED
    BY <2>1 DEF Outstanding, Waiting, InQueue
<1>2. CASE EndSynthesis
  <2>1. ToSet(audio') \subseteq ToSet(audio) \cup {working}
    BY <1>2, AppendSet DEF EndSynthesis, PiperTypeOK
  <2>2. commands' = commands /\ working \in Requests /\ working' \notin Requests
    BY <1>2, Signals DEF EndSynthesis
  <2> QED
    BY <2>1, <2>2 DEF Outstanding, Waiting, InQueue
<1>3. CASE TakeStop
  <2>1. commands' = <<>> /\ audio' = audio /\ working' \notin Requests
    BY <1>3, Signals DEF TakeStop
  <2>2. ToSet(commands') = {}
    BY <2>1, EmptySet
  <2> QED
    BY <2>1, <2>2 DEF Outstanding, Waiting, InQueue
<1>4. CASE TakeShutdown
  <2>1. /\ ToSet(commands') \subseteq ToSet(commands) /\ working' \notin Requests
        /\ audio' = audio
    BY <1>4, TailSet, Signals DEF TakeShutdown, PiperTypeOK
  <2> QED
    BY <2>1 DEF Outstanding, Waiting, InQueue
<1> QED
  BY <1>1, <1>2, <1>3, <1>4 DEF Worker

\* A unit is queued behind the others, or not at all.
LEMMA EnqueueMoves ==
    ASSUME PiperTypeOK, CacheTypeOK, NEW request \in Requests, TtsEnqueue(request)
    PROVE  /\ Outstanding' \subseteq Outstanding \cup {request}
           /\ commands' \in {commands, Append(commands, request)}
           /\ UNCHANGED <<working, audio, failed, swallowed>>
           /\ ToSet(hits)' \subseteq ToSet(hits) \cup ToSet(cached)
<1>1. CASE Hit(request.kind)
  <2>1. hits' = hits \o cached /\ UNCHANGED piperVars
    BY <1>1 DEF TtsEnqueue
  <2>2. ToSet(hits') = ToSet(hits) \cup ToSet(cached)
    BY <2>1, ConcatSet DEF CacheTypeOK
  <2> QED
    BY <2>1, <2>2 DEF piperVars, Outstanding, Waiting
<1>2. CASE ~Hit(request.kind)
  <2>1. PiperEnqueue(request) /\ hits' = hits
    BY <1>2 DEF TtsEnqueue
  <2>2. ToSet(commands') \subseteq ToSet(commands) \cup {request}
    <3>1. commands \in Seq(Commands) /\ request \in Commands
      BY Signals DEF PiperTypeOK
    <3>2. ToSet(Append(commands, request)) = ToSet(commands) \cup {request}
      BY <3>1, AppendSet
    <3> QED
      BY <2>1, <3>2 DEF PiperEnqueue
  <2> QED
    BY <2>1, <2>2 DEF PiperEnqueue, Outstanding, Waiting
<1> QED
  BY <1>1, <1>2

\* A poll takes what it brings from the cache or from the audio.
LEMMA PollMoves ==
    ASSUME PiperTypeOK, CacheTypeOK, TtsPoll
    PROVE  /\ Brings \in {hits, audio} /\ audio' \in {<<>>, audio} /\ hits' \in {<<>>, hits}
           /\ hits = <<>> => audio' = <<>>
           /\ UNCHANGED <<commands, working, swallowed>>
           /\ cached' \in {cached, Stored(collected)}
           /\ Outstanding' \subseteq Outstanding
<1>1. Brings \in {hits, audio}
  BY DEF Brings
<1>2. CASE PollHits
  BY <1>1, <1>2 DEF PollHits, piperVars, Outstanding, Waiting
<1>3. CASE PollPiper
  <2>1. audio' = <<>> /\ UNCHANGED <<commands, working, swallowed>> /\ hits' = hits /\ hits = <<>>
    BY <1>3 DEF PollPiper, PiperPoll
  <2>2. ToSet(audio') = {}
    BY <2>1, EmptySet
  <2>3. cached' \in {cached, Stored(collected)}
    BY <1>3 DEF PollPiper
  <2> QED
    BY <1>1, <2>1, <2>2, <2>3 DEF Outstanding, Waiting
<1> QED
  BY <1>2, <1>3 DEF TtsPoll

\* A stop discards the audio and what the cache was about to bring.
LEMMA StopMoves ==
    ASSUME PiperTypeOK, TtsStop
    PROVE  /\ commands' = Append(commands, Signal("stop")) /\ audio' = <<>> /\ hits' = <<>>
           /\ UNCHANGED <<working, swallowed, cached>>
           /\ Outstanding' = Waiting /\ Waiting \subseteq Outstanding
           /\ InQueue' = InQueue
<1>1. /\ commands' = Append(commands, Signal("stop")) /\ audio' = <<>> /\ hits' = <<>>
      /\ UNCHANGED <<working, swallowed, cached>>
  BY DEF TtsStop, PiperStop
<1>2. ToSet(commands') = ToSet(commands) \cup {Signal("stop")}
  BY <1>1, AppendSet, Signals DEF PiperTypeOK
<1>3. ToSet(audio') = {}
  BY <1>1, EmptySet
<1>4. InQueue' = InQueue
  BY <1>2, Signals DEF InQueue
<1>5. Outstanding' = Waiting
  BY <1>1, <1>2, <1>3, Signals DEF Outstanding, Waiting
<1> QED
  BY <1>1, <1>4, <1>5 DEF Outstanding

\* Leaving queues a Shutdown.
LEMMA EndMoves ==
    ASSUME PiperTypeOK, SessionEnds \/ PollFails
    PROVE  /\ commands' = Append(commands, Signal("shutdown"))
           /\ phase' = "over" /\ UNCHANGED <<working, audio, swallowed, cacheVars>>
           /\ UNCHANGED <<reply, planned, played, prepared, heard, left, cancelled>>
           /\ Outstanding' = Outstanding
<1>1. /\ commands' = Append(commands, Signal("shutdown"))
      /\ phase' = "over" /\ UNCHANGED <<working, audio, swallowed, cacheVars>>
      /\ UNCHANGED <<reply, planned, played, prepared, heard, left, cancelled>>
  BY DEF SessionEnds, PollFails, PiperDrop
<1>2. ToSet(commands') = ToSet(commands) \cup {Signal("shutdown")}
  BY <1>1, AppendSet, Signals DEF PiperTypeOK
<1> QED
  BY <1>1, <1>2, Signals DEF Outstanding, Waiting

(***************************************************************************)
(* Speech of an earlier reply.                                             *)
(***************************************************************************)
\* What is heard or on its way is nobody's, this reply's, or was left by an
\* earlier one; between replies all of it is left.
Explained(x) == x.reply \in {0, reply} \/ x \in left
IntrudeInv ==
    /\ \A x \in Outstanding \cup ToSet(heard) \cup ToSet(prepared) : Explained(x)
    /\ \A x \in ToSet(hits) \cup ToSet(cached) : x.reply = 0
    /\ phase = "idle" => Outstanding \subseteq left

\* A step within a reply that brings nothing new keeps it.
LEMMA IntrudeKept ==
    ASSUME TypeInv, IntrudeInv, Outstanding' \subseteq Outstanding, reply' = reply, left \subseteq left',
           ToSet(heard)' \cup ToSet(prepared)' \subseteq
               ToSet(heard) \cup ToSet(prepared) \cup ToSet(hits) \cup ToSet(audio),
           ToSet(hits)' \subseteq ToSet(hits) \cup ToSet(cached),
           cached' \in {cached, Stored(collected)},
           phase' = "idle" => phase = "idle" \/ Outstanding' \subseteq left'
    PROVE  IntrudeInv'
<1>1. ToSet(audio) \subseteq Outstanding
  BY DEF Outstanding
<1>2. \A x \in ToSet(hits) \cup ToSet(cached) : x.reply = 0
  BY DEF IntrudeInv
<1>3. \A x \in Outstanding \cup ToSet(heard) \cup ToSet(prepared) \cup ToSet(hits) :
         x.reply \in {0, reply'} \/ x \in left'
  BY <1>2 DEF IntrudeInv, Explained
<1>4. \A x \in Outstanding' \cup ToSet(heard)' \cup ToSet(prepared)' :
         x.reply \in {0, reply'} \/ x \in left'
  BY <1>1, <1>3
<1>5. \A x \in ToSet(Stored(collected)) : x.reply = 0
  BY TypeParts, StoredType DEF CacheTypeOK
<1>6. \A x \in ToSet(hits)' \cup ToSet(cached)' : x.reply = 0
  BY <1>2, <1>5
<1>7. phase' = "idle" => Outstanding' \subseteq left'
  BY DEF IntrudeInv
<1> QED
  BY <1>4, <1>6, <1>7 DEF IntrudeInv, Explained

LEMMA EnqueueKeepsIntrude ==
    ASSUME TypeInv, IntrudeInv, PlanFiller \/ PlanUnit \/ SpeakFallback PROVE IntrudeInv'
<1>1. PICK kind \in {"words", "marker"} : Enqueue(kind)
  BY DEF PlanFiller, PlanUnit, SpeakFallback
<1>2. phase \in Speaking /\ phase # "fallback" /\ phase' # "idle"
  BY DEF PlanFiller, PlanUnit, SpeakFallback, Speaking
<1> DEFINE request == [reply |-> reply, n |-> planned + 1, kind |-> kind]
<1>3. request \in Requests /\ request.reply = reply
  BY <1>2, NextUnit
<1>4. TtsEnqueue(request) /\ UNCHANGED <<cached, reply, prepared, heard, left>>
  BY <1>1 DEF Enqueue
<1> HIDE DEF request
<1>5. Outstanding' \subseteq Outstanding \cup {request} /\ ToSet(hits)' \subseteq ToSet(hits) \cup ToSet(cached)
  BY <1>3, <1>4, TypeParts, EnqueueMoves
<1>6. Explained(request) /\ \A x \in Outstanding \cup ToSet(heard) \cup ToSet(prepared) : Explained(x)
  BY <1>3 DEF Explained, IntrudeInv
<1>7. \A x \in Outstanding' \cup ToSet(heard)' \cup ToSet(prepared)' :
         x.reply \in {0, reply'} \/ x \in left'
  BY <1>4, <1>5, <1>6 DEF Explained
<1>8. \A x \in ToSet(hits)' \cup ToSet(cached)' : x.reply = 0
  BY <1>4, <1>5 DEF IntrudeInv
<1> QED
  BY <1>2, <1>7, <1>8 DEF IntrudeInv, Explained

LEMMA PollKeepsIntrude ==
    ASSUME TypeInv, IntrudeInv, Collect \/ Play PROVE IntrudeInv'
<1>0. PiperTypeOK /\ CacheTypeOK /\ ReplyTypeOK
  BY TypeParts
<1>1. TtsPoll /\ UNCHANGED <<phase, reply, left>>
  BY DEF Collect, Play
<1>2. /\ Brings \in {hits, audio} /\ hits' \in {<<>>, hits}
      /\ cached' \in {cached, Stored(collected)} /\ Outstanding' \subseteq Outstanding
  BY <1>0, <1>1, PollMoves
<1>3. Brings \in Seq(Requests)
  BY <1>0, <1>1, CacheType
<1>4. /\ ToSet(prepared \o Brings) = ToSet(prepared) \cup ToSet(Brings)
      /\ ToSet(heard \o Brings) = ToSet(heard) \cup ToSet(Brings)
  BY <1>0, <1>3, ConcatSet DEF ReplyTypeOK
<1>5. ToSet(heard)' \cup ToSet(prepared)' \subseteq
          ToSet(heard) \cup ToSet(prepared) \cup ToSet(hits) \cup ToSet(audio)
  BY <1>2, <1>4 DEF Collect, Play
<1>6. ToSet(hits)' \subseteq ToSet(hits) \cup ToSet(cached)
  BY <1>2, EmptySet
<1> QED
  BY <1>1, <1>2, <1>5, <1>6, IntrudeKept

LEMMA PhasesKeepIntrude ==
    ASSUME TypeInv, IntrudeInv, BeginReply \/ Interrupted \/ GapReady \/ GenerationEnds \/ ReplyEnds
    PROVE  IntrudeInv'
<1>0. PiperTypeOK /\ CacheTypeOK /\ ReplyTypeOK
  BY TypeParts
<1>1. CASE BeginReply
  <2>1. /\ phase = "idle" /\ phase' # "idle" /\ UNCHANGED <<piperVars, hits, cached, left>>
        /\ heard' = <<>> /\ prepared' = <<>>
    BY <1>1 DEF BeginReply, cacheVars
  <2>2. Outstanding' = Outstanding /\ Outstanding \subseteq left
    BY <2>1 DEF piperVars, Outstanding, Waiting, IntrudeInv
  <2>3. \A x \in Outstanding' \cup ToSet(heard)' \cup ToSet(prepared)' : x \in left'
    BY <2>1, <2>2, EmptySet
  <2> QED
    BY <2>1, <2>3 DEF IntrudeInv, Explained
<1>2. CASE Interrupted
  <2>1. TtsStop /\ prepared' = <<>> /\ heard' = heard /\ left' = left \cup Waiting /\ reply' = reply
    BY <1>2 DEF Interrupted
  <2>2. hits' = <<>> /\ cached' = cached /\ Outstanding' = Waiting /\ Waiting \subseteq Outstanding
    BY <1>0, <2>1, StopMoves
  <2> QED
    BY <2>1, <2>2, EmptySet, IntrudeKept
<1>3. CASE GapReady
  <2>1. /\ UNCHANGED <<piperVars, hits, cached, reply, left>> /\ phase' # "idle"
        /\ heard' = heard \o prepared /\ prepared' = <<>>
    BY <1>3 DEF GapReady, cacheVars
  <2>2. ToSet(heard') = ToSet(heard) \cup ToSet(prepared) /\ ToSet(prepared') = {}
    BY <1>0, <2>1, ConcatSet, EmptySet DEF ReplyTypeOK
  <2>3. Outstanding' = Outstanding
    BY <2>1 DEF piperVars, Outstanding, Waiting
  <2> QED
    BY <2>1, <2>2, <2>3, IntrudeKept
<1>4. CASE GenerationEnds
  <2>1. UNCHANGED <<piperVars, hits, cached, reply, left, heard, prepared>> /\ phase' # "idle"
    BY <1>4 DEF GenerationEnds, cacheVars
  <2>2. Outstanding' = Outstanding
    BY <2>1 DEF piperVars, Outstanding, Waiting
  <2> QED
    BY <2>1, <2>2, IntrudeKept
<1>5. CASE ReplyEnds
  <2>1. UNCHANGED <<piperVars, hits, cached, reply, heard, prepared>> /\ left' = left \cup Outstanding
    BY <1>5 DEF ReplyEnds, cacheVars
  <2>2. Outstanding' = Outstanding
    BY <2>1 DEF piperVars, Outstanding, Waiting
  <2> QED
    BY <2>1, <2>2, IntrudeKept
<1> QED
  BY <1>1, <1>2, <1>3, <1>4, <1>5

LEMMA StepKeepsIntrude == TypeInv /\ IntrudeInv /\ [Next]_vars => IntrudeInv'
<1> SUFFICES ASSUME TypeInv, IntrudeInv, [Next]_vars PROVE IntrudeInv'
  OBVIOUS
<1>0. PiperTypeOK
  BY TypeParts
<1>1. CASE SessionEnds \/ PollFails
  <2>1. /\ phase' = "over" /\ UNCHANGED <<hits, cached, reply, left, heard, prepared>>
        /\ Outstanding' = Outstanding
    BY <1>0, <1>1, EndMoves DEF cacheVars
  <2> QED
    BY <2>1, IntrudeKept
<1>2. CASE Worker /\ UNCHANGED <<cacheVars, replyVars>>
  <2>1. UNCHANGED <<phase, hits, cached, reply, left, heard, prepared>>
    BY <1>2 DEF cacheVars, replyVars
  <2>2. Outstanding' \subseteq Outstanding
    BY <1>0, <1>2, WorkerMoves
  <2> QED
    BY <2>1, <2>2, IntrudeKept
<1>3. CASE UNCHANGED vars
  <2>1. UNCHANGED <<piperVars, phase, hits, cached, reply, left, heard, prepared>>
    BY <1>3 DEF vars, cacheVars, replyVars
  <2>2. Outstanding' = Outstanding
    BY <2>1 DEF piperVars, Outstanding, Waiting
  <2> QED
    BY <2>1, <2>2, IntrudeKept
<1> QED
  BY <1>1, <1>2, <1>3, EnqueueKeepsIntrude, PollKeepsIntrude, PhasesKeepIntrude DEF Next, Session

LEMMA InitIntrude == Init => IntrudeInv
<1> SUFFICES ASSUME Init PROVE IntrudeInv
  OBVIOUS
<1>1. Outstanding = {} /\ ToSet(heard) = {} /\ ToSet(prepared) = {} /\ ToSet(hits) = {}
  BY EmptySet, Signals DEF Init, PiperInit, Outstanding, Waiting
<1>2. ToSet(cached) \subseteq {Prewarmed}
  BY EmptySet DEF Init, ToSet
<1> QED
  BY <1>1, <1>2 DEF IntrudeInv, Prewarmed

\* Audio of an earlier reply is heard in a later one only if that reply ended, or
\* was cancelled, with the unit still to be synthesized.
THEOREM OnlyUnfinishedIntrudes == Spec => []OnlyUnfinishedSpeechIntrudes
<1>1. TypeInv /\ IntrudeInv => OnlyUnfinishedSpeechIntrudes
  <2> SUFFICES ASSUME TypeInv, IntrudeInv PROVE OnlyUnfinishedSpeechIntrudes
    OBVIOUS
  <2>1. ToSet(Said) = ToSet(heard) \cup ToSet(prepared)
    BY TypeParts, ConcatSet DEF Said, ReplyTypeOK
  <2> QED
    BY <2>1 DEF OnlyUnfinishedSpeechIntrudes, IntrudeInv, Explained
<1> QED
  BY <1>1, InitType, InitIntrude, StepKeepsType, StepKeepsIntrude, PTL DEF Spec

(***************************************************************************)
(* What a stop discards.                                                   *)
(***************************************************************************)
\* A request of a reply that follows one of the cancelled replies.
Follows(request, replies) == \E r \in replies : r < request.reply

\* Every request behind a stop follows a cancelled reply.
Behind(queue, replies) ==
    \A i, j \in 1 .. Len(queue) :
        i < j /\ queue[i] = Signal("stop") /\ queue[j] \in Requests => Follows(queue[j], replies)

LEMMA BehindNothing == ASSUME NEW C PROVE Behind(<<>>, C)
  BY EmptySeq DEF Behind

LEMMA BehindTail ==
    ASSUME NEW s \in Seq(Commands), s # <<>>, NEW C, Behind(s, C) PROVE Behind(Tail(s), C)
<1>1. /\ Len(Tail(s)) = Len(s) - 1 /\ Len(s) \in Nat \ {0}
      /\ \A i \in 1 .. Len(s) - 1 : Tail(s)[i] = s[i + 1]
  BY TailSet
<1> SUFFICES ASSUME NEW i \in 1 .. Len(s) - 1, NEW j \in 1 .. Len(s) - 1, i < j,
                    s[i + 1] = Signal("stop"), s[j + 1] \in Requests
             PROVE  Follows(s[j + 1], C)
  BY <1>1 DEF Behind
<1>2. i + 1 \in 1 .. Len(s) /\ j + 1 \in 1 .. Len(s) /\ i + 1 < j + 1
  BY <1>1
<1> QED
  BY <1>2 DEF Behind

LEMMA BehindAppend ==
    ASSUME NEW s \in Seq(Commands), NEW x \in Commands, NEW C, Behind(s, C),
           x \in Requests /\ Signal("stop") \in ToSet(s) => Follows(x, C)
    PROVE  Behind(Append(s, x), C)
<1>1. /\ Len(Append(s, x)) = Len(s) + 1 /\ Len(s) \in Nat
      /\ \A i \in 1 .. Len(s) : Append(s, x)[i] = s[i]
      /\ Append(s, x)[Len(s) + 1] = x
  BY AppendProperties, LenProperties
<1> SUFFICES ASSUME NEW i \in 1 .. Len(s) + 1, NEW j \in 1 .. Len(s) + 1, i < j,
                    Append(s, x)[i] = Signal("stop"), Append(s, x)[j] \in Requests
             PROVE  Follows(Append(s, x)[j], C)
  BY <1>1 DEF Behind
<1>2. i \in 1 .. Len(s) /\ s[i] = Signal("stop") /\ s[i] \in ToSet(s)
  <2>1. i \in 1 .. Len(s)
    BY <1>1
  <2> QED
    BY <1>1, <2>1, InSet
<1>3. CASE j \in 1 .. Len(s)
  BY <1>1, <1>2, <1>3 DEF Behind
<1>4. CASE j = Len(s) + 1
  BY <1>1, <1>2, <1>4
<1> QED
  BY <1>1, <1>3, <1>4

LEMMA BehindHead ==
    ASSUME NEW s \in Seq(Commands), s # <<>>, Head(s) = Signal("stop"), NEW C, Behind(s, C)
    PROVE  \A x \in ToSet(s) \cap Requests : Follows(x, C)
<1> SUFFICES ASSUME NEW x \in ToSet(s), x \in Requests PROVE Follows(x, C)
  OBVIOUS
<1>1. PICK j \in 1 .. Len(s) : s[j] = x
  BY InSet
<1>2. Len(s) \in Nat \ {0} /\ Head(s) = s[1]
  BY TailSet
<1>3. j # 1
  BY <1>1, <1>2, Signals
<1>4. 1 \in 1 .. Len(s) /\ 1 < j
  BY <1>1, <1>2, <1>3
<1> QED
  BY <1>1, <1>2, <1>4 DEF Behind

LEMMA BehindMore ==
    ASSUME NEW s, NEW C, NEW D, C \subseteq D, Behind(s, C) PROVE Behind(s, D)
  BY DEF Behind, Follows

\* While a stop is queued, a cancelled reply came before the one that is spoken,
\* or that is to be spoken next.
StopQueued == Signal("stop") \in ToSet(commands)
StopInv ==
    /\ Behind(commands, cancelled)
    /\ StopQueued /\ phase \in Speaking => \E r \in cancelled : r < reply
    /\ StopQueued /\ phase = "idle" => \E r \in cancelled : r <= reply
    /\ \A request \in swallowed : Follows(request, cancelled)

\* A step that queues no stop and moves no reply on keeps it if the queue is in
\* order.
LEMMA StopKept ==
    ASSUME TypeInv, StopInv, Behind(commands, cancelled)', ToSet(commands)' \subseteq ToSet(commands),
           UNCHANGED <<reply, cancelled>>,
           phase' = phase \/ phase' = "over" \/ (phase \in Speaking /\ phase' \in Speaking \cup {"idle"}),
           \A request \in swallowed' : Follows(request, cancelled)
    PROVE  StopInv'
<1>1. StopQueued' => StopQueued
  BY DEF StopQueued
<1>2. phase' \in Speaking => phase \in Speaking
  BY DEF Speaking
<1>3. phase' = "idle" => phase = "idle" \/ phase \in Speaking
  BY DEF Speaking
<1>4. (StopQueued /\ phase \in Speaking => \E r \in cancelled : r < reply)'
  BY <1>1, <1>2 DEF StopInv
<1>5. (StopQueued /\ phase = "idle" => \E r \in cancelled : r <= reply)'
  <2>1. reply \in Nat /\ \A r \in cancelled : r \in Nat
    BY TypeParts, ReplyAssumption DEF ReplyTypeOK
  <2> QED
    BY <1>1, <1>3, <2>1 DEF StopInv
<1>6. (\A request \in swallowed : Follows(request, cancelled))'
  BY DEF Follows
<1> QED
  BY <1>4, <1>5, <1>6 DEF StopInv

LEMMA EnqueueKeepsStop ==
    ASSUME TypeInv, StopInv, PlanFiller \/ PlanUnit \/ SpeakFallback PROVE StopInv'
<1>0. PiperTypeOK /\ CacheTypeOK
  BY TypeParts
<1>1. PICK kind \in {"words", "marker"} : Enqueue(kind)
  BY DEF PlanFiller, PlanUnit, SpeakFallback
<1>2. phase \in Speaking /\ phase # "fallback" /\ phase' \in Speaking /\ phase' # "idle"
  BY DEF PlanFiller, PlanUnit, SpeakFallback, Speaking
<1> DEFINE request == [reply |-> reply, n |-> planned + 1, kind |-> kind]
<1>3. request \in Requests /\ request.reply = reply /\ request \in Commands
  BY <1>2, NextUnit, Signals
<1>4. TtsEnqueue(request) /\ UNCHANGED <<reply, cancelled>>
  BY <1>1 DEF Enqueue
<1> HIDE DEF request
<1>5. commands' \in {commands, Append(commands, request)} /\ swallowed' = swallowed
  BY <1>0, <1>3, <1>4, EnqueueMoves
<1>6. commands \in Seq(Commands)
  BY <1>0 DEF PiperTypeOK
<1>7. Signal("stop") \in ToSet(commands') => StopQueued
  <2>1. ToSet(Append(commands, request)) = ToSet(commands) \cup {request}
    BY <1>3, <1>6, AppendSet
  <2>2. Signal("stop") # request
    BY <1>3, Signals
  <2>3. CASE commands' = commands
    BY <2>3 DEF StopQueued
  <2>4. CASE commands' = Append(commands, request)
    <3>1. ToSet(commands') = ToSet(commands) \cup {request}
      BY <2>1, <2>4
    <3> QED
      BY <2>2, <3>1 DEF StopQueued
  <2> QED
    BY <1>5, <2>3, <2>4
<1>8. StopQueued => \E r \in cancelled : r < reply
  BY <1>2 DEF StopInv
<1>9. StopQueued => Follows(request, cancelled)
  BY <1>3, <1>8 DEF Follows
<1>10. Behind(commands, cancelled)'
  <2>1. Behind(Append(commands, request), cancelled)
    BY <1>3, <1>6, <1>9, BehindAppend DEF StopInv, StopQueued
  <2> QED
    BY <1>4, <1>5, <2>1 DEF StopInv
<1>11. StopQueued' => \E r \in cancelled' : r < reply'
  BY <1>4, <1>7, <1>8 DEF StopQueued
<1>12. (\A x \in swallowed : Follows(x, cancelled))'
  BY <1>4, <1>5 DEF StopInv, Follows
<1> QED
  BY <1>2, <1>10, <1>11, <1>12 DEF StopInv

LEMMA InterruptedKeepsStop ==
    ASSUME TypeInv, StopInv, Interrupted PROVE StopInv'
<1>0. PiperTypeOK /\ ReplyTypeOK
  BY TypeParts
<1>1. /\ TtsStop /\ phase' = "idle" /\ reply' = reply /\ cancelled' = cancelled \cup {reply}
  BY DEF Interrupted
<1>2. commands' = Append(commands, Signal("stop")) /\ swallowed' = swallowed
  BY <1>0, <1>1, StopMoves
<1>3. Behind(commands, cancelled')
  BY <1>1, BehindMore DEF StopInv
<1>4. Behind(commands', cancelled')
  BY <1>0, <1>2, <1>3, BehindAppend, Signals DEF PiperTypeOK
<1>5. reply' \in cancelled' /\ reply' <= reply'
  BY <1>0, <1>1, ReplyAssumption DEF ReplyTypeOK
<1>6. (\A x \in swallowed : Follows(x, cancelled))'
  BY <1>1, <1>2 DEF StopInv, Follows
<1> QED
  BY <1>1, <1>4, <1>5, <1>6 DEF StopInv, Speaking

LEMMA BeginKeepsStop ==
    ASSUME TypeInv, StopInv, BeginReply PROVE StopInv'
<1>1. phase = "idle" /\ phase' = "prepare" /\ reply' = reply + 1 /\ UNCHANGED <<piperVars, cancelled>>
  BY DEF BeginReply
<1>2. UNCHANGED <<commands, swallowed>>
  BY <1>1 DEF piperVars
<1>3. reply \in Nat /\ \A r \in cancelled : r \in Nat
  BY TypeParts, ReplyAssumption DEF ReplyTypeOK
<1>4. StopQueued' => \E r \in cancelled' : r < reply'
  BY <1>1, <1>2, <1>3 DEF StopInv, StopQueued
<1>5. Behind(commands, cancelled)' /\ (\A x \in swallowed : Follows(x, cancelled))'
  BY <1>1, <1>2 DEF StopInv, Follows
<1> QED
  BY <1>1, <1>4, <1>5 DEF StopInv

LEMMA WorkerKeepsStop ==
    ASSUME TypeInv, StopInv, Worker, UNCHANGED <<cacheVars, replyVars>> PROVE StopInv'
<1>0. PiperTypeOK /\ commands \in Seq(Commands)
  BY TypeParts DEF PiperTypeOK
<1>1. ToSet(commands)' \subseteq ToSet(commands) /\ UNCHANGED <<reply, cancelled, phase>>
  BY <1>0, WorkerMoves DEF replyVars
<1>2. Behind(commands, cancelled)'
  <2>1. CASE BeginSynthesis \/ TakeShutdown
    BY <1>0, <1>1, <2>1, BehindTail DEF BeginSynthesis, TakeShutdown, StopInv
  <2>2. CASE EndSynthesis
    BY <1>1, <2>2 DEF EndSynthesis, StopInv
  <2>3. CASE TakeStop
    BY <1>1, <2>3, BehindNothing DEF TakeStop
  <2> QED
    BY <2>1, <2>2, <2>3 DEF Worker
<1>3. \A request \in swallowed' : Follows(request, cancelled)
  <2>1. CASE TakeStop
    <3>1. \A x \in ToSet(commands) \cap Requests : Follows(x, cancelled)
      BY <1>0, <2>1, BehindHead DEF TakeStop, StopInv
    <3> QED
      BY <2>1, <3>1 DEF TakeStop, StopInv
  <2>2. CASE BeginSynthesis \/ EndSynthesis \/ TakeShutdown
    BY <2>2 DEF BeginSynthesis, EndSynthesis, TakeShutdown, StopInv
  <2> QED
    BY <2>1, <2>2 DEF Worker
<1> QED
  BY <1>1, <1>2, <1>3, StopKept

LEMMA StepKeepsStop == TypeInv /\ StopInv /\ [Next]_vars => StopInv'
<1> SUFFICES ASSUME TypeInv, StopInv, [Next]_vars PROVE StopInv'
  OBVIOUS
<1>0. PiperTypeOK /\ CacheTypeOK /\ commands \in Seq(Commands)
  BY TypeParts DEF PiperTypeOK
<1>1. CASE Collect \/ Play
  <2>1. TtsPoll /\ UNCHANGED <<phase, reply, cancelled>>
    BY <1>1 DEF Collect, Play
  <2>2. UNCHANGED <<commands, swallowed>>
    BY <1>0, <2>1, PollMoves
  <2>3. Behind(commands, cancelled)' /\ \A x \in swallowed' : Follows(x, cancelled)
    BY <2>1, <2>2 DEF StopInv
  <2> QED
    BY <2>1, <2>2, <2>3, StopKept
<1>2. CASE GapReady \/ GenerationEnds \/ ReplyEnds
  <2>1. /\ UNCHANGED <<piperVars, reply, cancelled>>
        /\ phase \in Speaking /\ phase' \in Speaking \cup {"idle"}
    BY <1>2 DEF GapReady, GenerationEnds, ReplyEnds, Speaking
  <2>2. UNCHANGED <<commands, swallowed>>
    BY <2>1 DEF piperVars
  <2>3. Behind(commands, cancelled)' /\ \A x \in swallowed' : Follows(x, cancelled)
    BY <2>1, <2>2 DEF StopInv
  <2> QED
    BY <2>1, <2>2, <2>3, StopKept
<1>3. CASE SessionEnds \/ PollFails
  <2>1. /\ commands' = Append(commands, Signal("shutdown")) /\ swallowed' = swallowed
        /\ phase' = "over" /\ UNCHANGED <<reply, cancelled>>
    BY <1>0, <1>3, EndMoves
  <2>2. Behind(commands, cancelled)'
    BY <1>0, <2>1, BehindAppend, Signals DEF StopInv
  <2>3. (\A x \in swallowed : Follows(x, cancelled))'
    BY <2>1 DEF StopInv, Follows
  <2> QED
    BY <2>1, <2>2, <2>3 DEF StopInv, Speaking
<1>4. CASE UNCHANGED vars
  <2>1. UNCHANGED <<commands, swallowed, reply, cancelled, phase>>
    BY <1>4 DEF vars, piperVars, replyVars
  <2>2. Behind(commands, cancelled)' /\ \A x \in swallowed' : Follows(x, cancelled)
    BY <2>1 DEF StopInv
  <2> QED
    BY <2>1, <2>2, StopKept
<1> QED
  BY <1>1, <1>2, <1>3, <1>4, EnqueueKeepsStop, InterruptedKeepsStop, BeginKeepsStop, WorkerKeepsStop
     DEF Next, Session

LEMMA InitStop == Init => StopInv
<1> SUFFICES ASSUME Init PROVE StopInv
  OBVIOUS
<1>1. commands = <<>> /\ swallowed = {}
  BY DEF Init, PiperInit
<1> QED
  BY <1>1, BehindNothing, EmptySet DEF StopInv, StopQueued

\* A unit is discarded unheard only by the stop of an earlier reply: no reply
\* loses a unit to its own stop, and none does unless one was cancelled.
THEOREM LostToACancel == Spec => []LostOnlyAfterCancel
<1>1. StopInv => LostOnlyAfterCancel
  BY DEF StopInv, LostOnlyAfterCancel, Follows
<1> QED
  BY <1>1, InitType, InitStop, StepKeepsType, StepKeepsStop, PTL DEF Spec

(***************************************************************************)
(* The order of speech.                                                    *)
(***************************************************************************)
\* Nobody's audio, which the cache brings, has no place in the order.
Ordered(a, b) == a.reply # 0 /\ b.reply # 0 => Before(a, b)
AllBefore(A, B) == \A a \in A, b \in B : Ordered(a, b)
Sorted(s) ==
    \A i, j \in 1 .. Len(s) :
        i < j /\ s[i] \in Requests /\ s[j] \in Requests => Ordered(s[i], s[j])

LEMMA SortedNothing == Sorted(<<>>)
  BY EmptySeq DEF Sorted

LEMMA SortedNobody ==
    ASSUME NEW s \in Seq(Requests), \A x \in ToSet(s) : x.reply = 0 PROVE Sorted(s)
  BY InSet DEF Sorted, Ordered

LEMMA SortedAppend ==
    ASSUME NEW S, NEW s \in Seq(S), NEW x \in S, Sorted(s),
           x \in Requests => AllBefore(ToSet(s) \cap Requests, {x})
    PROVE  Sorted(Append(s, x))
<1>1. /\ Len(Append(s, x)) = Len(s) + 1 /\ Len(s) \in Nat
      /\ \A i \in 1 .. Len(s) : Append(s, x)[i] = s[i]
      /\ Append(s, x)[Len(s) + 1] = x
  BY AppendProperties, LenProperties
<1> SUFFICES ASSUME NEW i \in 1 .. Len(s) + 1, NEW j \in 1 .. Len(s) + 1, i < j,
                    Append(s, x)[i] \in Requests, Append(s, x)[j] \in Requests
             PROVE  Ordered(Append(s, x)[i], Append(s, x)[j])
  BY <1>1 DEF Sorted
<1>2. i \in 1 .. Len(s)
  BY <1>1
<1>3. s[i] \in ToSet(s) \cap Requests /\ Append(s, x)[i] = s[i]
  BY <1>1, <1>2, InSet
<1>4. CASE j \in 1 .. Len(s)
  BY <1>1, <1>2, <1>3, <1>4 DEF Sorted
<1>5. CASE j = Len(s) + 1
  BY <1>1, <1>3, <1>5 DEF AllBefore
<1> QED
  BY <1>1, <1>4, <1>5

LEMMA SortedTail ==
    ASSUME NEW S, NEW s \in Seq(S), s # <<>>, Sorted(s)
    PROVE  /\ Sorted(Tail(s))
           /\ Head(s) \in Requests => AllBefore({Head(s)}, ToSet(Tail(s)) \cap Requests)
<1>1. /\ Tail(s) \in Seq(S) /\ Len(Tail(s)) = Len(s) - 1 /\ Len(s) \in Nat \ {0} /\ Head(s) = s[1]
      /\ \A i \in 1 .. Len(s) - 1 : Tail(s)[i] = s[i + 1]
  BY TailSet
<1>2. \A i \in 1 .. Len(s) - 1 : i + 1 \in 1 .. Len(s) /\ 1 < i + 1
  BY <1>1
<1>3. Sorted(Tail(s))
  <2> SUFFICES ASSUME NEW i \in 1 .. Len(s) - 1, NEW j \in 1 .. Len(s) - 1, i < j,
                      s[i + 1] \in Requests, s[j + 1] \in Requests
               PROVE  Ordered(s[i + 1], s[j + 1])
    BY <1>1 DEF Sorted
  <2>1. i + 1 < j + 1
    BY <1>1
  <2> QED
    BY <1>2, <2>1 DEF Sorted
<1>4. ASSUME Head(s) \in Requests PROVE AllBefore({Head(s)}, ToSet(Tail(s)) \cap Requests)
  <2> SUFFICES ASSUME NEW b \in ToSet(Tail(s)), b \in Requests PROVE Ordered(s[1], b)
    BY <1>1 DEF AllBefore
  <2>a. Tail(s) \in Seq(S)
    BY <1>1
  <2>0. \E i \in 1 .. Len(Tail(s)) : Tail(s)[i] = b
    BY <2>a, InSet
  <2>1. PICK i \in 1 .. Len(s) - 1 : Tail(s)[i] = b
    BY <1>1, <2>0
  <2>2. 1 \in 1 .. Len(s) /\ i + 1 \in 1 .. Len(s) /\ 1 < i + 1 /\ s[i + 1] = b
    BY <1>1, <1>2, <2>1
  <2> QED
    BY <1>1, <1>4, <2>2 DEF Sorted
<1> QED
  BY <1>3, <1>4

LEMMA SortedConcat ==
    ASSUME NEW s \in Seq(Requests), NEW t \in Seq(Requests), Sorted(s), Sorted(t),
           AllBefore(ToSet(s), ToSet(t))
    PROVE  Sorted(s \o t)
<1>1. /\ Len(s \o t) = Len(s) + Len(t) /\ Len(s) \in Nat /\ Len(t) \in Nat
      /\ \A i \in 1 .. Len(s) + Len(t) :
            (s \o t)[i] = IF i <= Len(s) THEN s[i] ELSE t[i - Len(s)]
  BY ConcatProperties, LenProperties
<1> SUFFICES ASSUME NEW i \in 1 .. Len(s) + Len(t), NEW j \in 1 .. Len(s) + Len(t), i < j
             PROVE  Ordered((s \o t)[i], (s \o t)[j])
  BY <1>1 DEF Sorted
<1>2. CASE j <= Len(s)
  <2>1. i \in 1 .. Len(s) /\ j \in 1 .. Len(s) /\ i <= Len(s)
    BY <1>1, <1>2
  <2>2. s[i] \in Requests /\ s[j] \in Requests
    BY <2>1, ElementOfSeq
  <2> QED
    BY <1>1, <1>2, <2>1, <2>2 DEF Sorted
<1>3. CASE ~(j <= Len(s)) /\ i <= Len(s)
  <2>1. i \in 1 .. Len(s) /\ j - Len(s) \in 1 .. Len(t)
    BY <1>1, <1>3
  <2>2. s[i] \in ToSet(s) /\ t[j - Len(s)] \in ToSet(t)
    BY <2>1, InSet
  <2> QED
    BY <1>1, <1>3, <2>2 DEF AllBefore
<1>4. CASE ~(j <= Len(s)) /\ ~(i <= Len(s))
  <2>1. i - Len(s) \in 1 .. Len(t) /\ j - Len(s) \in 1 .. Len(t) /\ i - Len(s) < j - Len(s)
    BY <1>1, <1>4
  <2>2. t[i - Len(s)] \in Requests /\ t[j - Len(s)] \in Requests
    BY <2>1, ElementOfSeq
  <2>3. Ordered(t[i - Len(s)], t[j - Len(s)])
    BY <2>1, <2>2 DEF Sorted
  <2> QED
    BY <1>1, <1>4, <2>3
<1> QED
  BY <1>2, <1>3, <1>4

\* What was asked for, or heard, is not beyond what is planned.
Asked(x) == x.reply = 0 \/ x.reply < reply \/ (x.reply = reply /\ x.n <= planned)
AskedInv == \A x \in Outstanding \cup ToSet(heard) \cup ToSet(prepared) : Asked(x)

\* What is prepared comes after what is heard, and is played before anything else.
HeardInv ==
    /\ Sorted(heard) /\ Sorted(prepared) /\ AllBefore(ToSet(heard), ToSet(prepared))
    /\ phase \in {"speak", "flush", "fallback"} => prepared = <<>>

\* Audio is ahead of the unit in work, and that of the queue.
WayInv ==
    /\ Sorted(audio) /\ Sorted(commands)
    /\ AllBefore(ToSet(audio), Waiting) /\ AllBefore(InWork, InQueue)

\* What is heard is ahead of what is on its way.
LinkInv == AllBefore(ToSet(heard) \cup ToSet(prepared), Outstanding)

OrderInv == AskedInv /\ HeardInv /\ WayInv /\ LinkInv

LEMMA EnqueueKeepsOrder ==
    ASSUME TypeInv, OrderInv, PlanFiller \/ PlanUnit \/ SpeakFallback PROVE OrderInv'
<1>0. PiperTypeOK /\ CacheTypeOK /\ ReplyTypeOK /\ commands \in Seq(Commands)
  BY TypeParts DEF PiperTypeOK
<1>1. PICK kind \in {"words", "marker"} : Enqueue(kind)
  BY DEF PlanFiller, PlanUnit, SpeakFallback
<1>2. phase \in Speaking /\ phase # "fallback"
  BY DEF PlanFiller, PlanUnit, SpeakFallback, Speaking
<1>r. PICK request \in Requests : request = [reply |-> reply, n |-> planned + 1, kind |-> kind]
  BY <1>2, NextUnit
<1>3. /\ request \in Requests /\ request \in Commands
      /\ request.reply = reply /\ request.n = planned + 1
  BY <1>r, Signals
<1>4. /\ TtsEnqueue(request) /\ planned' = planned + 1
      /\ UNCHANGED <<reply, prepared, heard>>
  BY <1>1, <1>r DEF Enqueue
<1>5. /\ commands' \in {commands, Append(commands, request)} /\ UNCHANGED <<working, audio>>
      /\ Outstanding' \subseteq Outstanding \cup {request}
  BY <1>0, <1>3, <1>4, EnqueueMoves
<1>6. planned \in Nat /\ reply \in Nat
  BY <1>0, ReplyAssumption DEF ReplyTypeOK
<1>7. \A x \in Outstanding \cup ToSet(heard) \cup ToSet(prepared) : x \in Requests
  BY <1>0, InSet DEF Outstanding, Waiting, PiperTypeOK, ReplyTypeOK
<1>8. \A x \in Requests : Asked(x) => Ordered(x, request)
  BY <1>3, <1>6, ReplyAssumption DEF Requests, Asked, Ordered, Before
<1>9. AllBefore(Outstanding \cup ToSet(heard) \cup ToSet(prepared), {request})
  BY <1>7, <1>8 DEF OrderInv, AskedInv, AllBefore
<1>10. AskedInv'
  <2>1. \A x \in Requests : Asked(x) => Asked(x)'
    BY <1>4, <1>6, ReplyAssumption DEF Requests, Asked
  <2>2. Asked(request)'
    BY <1>3, <1>4, <1>6 DEF Asked
  <2> QED
    BY <1>4, <1>5, <1>7, <2>1, <2>2 DEF OrderInv, AskedInv
<1>11. HeardInv'
  <2>1. phase' \in {"speak", "flush", "fallback"} => phase \in {"speak", "flush", "fallback"}
    BY DEF PlanFiller, PlanUnit, SpeakFallback
  <2> QED
    BY <1>4, <2>1 DEF OrderInv, HeardInv
<1>12. WayInv'
  <2>1. CASE commands' = commands
    BY <1>5, <2>1 DEF OrderInv, WayInv, Waiting, InWork, InQueue
  <2>2. CASE commands' = Append(commands, request)
    <3>1. ToSet(commands') = ToSet(commands) \cup {request}
      BY <1>0, <1>3, <2>2, AppendSet
    <3>2. ToSet(commands) \cap Requests \subseteq Outstanding
      BY DEF Outstanding, Waiting
    <3>3. AllBefore(ToSet(commands) \cap Requests, {request})
      BY <1>9, <3>2 DEF AllBefore
    <3>4. Sorted(commands')
      BY <1>0, <1>3, <2>2, <3>3, SortedAppend DEF OrderInv, WayInv
    <3>5. Waiting' = Waiting \cup {request} /\ InWork' = InWork /\ InQueue' = InQueue \cup {request}
      BY <1>3, <1>5, <3>1 DEF Waiting, InWork, InQueue
    <3>6. AllBefore(ToSet(audio), {request}) /\ AllBefore(InWork, {request})
      BY <1>9 DEF AllBefore, Outstanding, Waiting, InWork
    <3>7. AllBefore(ToSet(audio), Waiting \cup {request}) /\ AllBefore(InWork, InQueue \cup {request})
      BY <3>6 DEF AllBefore, OrderInv, WayInv
    <3>8. AllBefore(ToSet(audio), Waiting)' /\ AllBefore(InWork, InQueue)'
      BY <1>5, <3>5, <3>7 DEF AllBefore
    <3>9. Sorted(audio')
      BY <1>5 DEF OrderInv, WayInv
    <3> QED
      BY <3>4, <3>8, <3>9 DEF WayInv
  <2> QED
    BY <1>5, <2>1, <2>2
<1>13. LinkInv'
  BY <1>4, <1>5, <1>9 DEF AllBefore, OrderInv, LinkInv
<1> QED
  BY <1>10, <1>11, <1>12, <1>13 DEF OrderInv

LEMMA WorkerKeepsWay ==
    ASSUME TypeInv, WayInv, Worker PROVE WayInv'
<1>0. PiperTypeOK /\ commands \in Seq(Commands) /\ audio \in Seq(Requests)
  BY TypeParts DEF PiperTypeOK
<1>1. CASE BeginSynthesis
  <2>1. /\ working' = Head(commands) /\ commands' = Tail(commands) /\ audio' = audio
        /\ commands # <<>> /\ Head(commands) \in Requests
    BY <1>1 DEF BeginSynthesis
  <2>2. /\ Head(commands) \in ToSet(commands) /\ ToSet(Tail(commands)) \subseteq ToSet(commands)
    BY <1>0, <2>1, TailSet
  <2>3. Sorted(commands') /\ AllBefore({Head(commands)}, ToSet(Tail(commands)) \cap Requests)
    BY <1>0, <2>1, SortedTail DEF WayInv
  <2>4. Waiting' \subseteq Waiting
    BY <2>1, <2>2 DEF Waiting
  <2>5. AllBefore(ToSet(audio), Waiting)'
    BY <2>1, <2>4 DEF WayInv, AllBefore
  <2>6. AllBefore(InWork, InQueue)'
    BY <2>1, <2>3 DEF InWork, InQueue, AllBefore
  <2> QED
    BY <2>1, <2>3, <2>5, <2>6 DEF WayInv
<1>2. CASE EndSynthesis
  <2>1. /\ working \in Requests /\ working' \notin Requests /\ commands' = commands
        /\ audio' \in {audio, Append(audio, working)}
    BY <1>2, Signals DEF EndSynthesis
  <2>2. AllBefore(ToSet(audio), {working})
    BY <2>1 DEF WayInv, AllBefore, Waiting
  <2>3. Sorted(audio')
    <3>1. AllBefore(ToSet(audio) \cap Requests, {working})
      BY <2>2 DEF AllBefore
    <3>2. Sorted(Append(audio, working))
      BY <1>0, <2>1, <3>1, SortedAppend DEF WayInv
    <3> QED
      BY <2>1, <3>2 DEF WayInv
  <2>4. ToSet(audio') \subseteq ToSet(audio) \cup {working}
    BY <1>0, <2>1, AppendSet
  <2>5. Waiting' = InQueue /\ InQueue' = InQueue /\ InWork' = {} /\ InWork = {working}
        /\ InQueue \subseteq Waiting
    BY <2>1 DEF Waiting, InQueue, InWork
  <2>6. AllBefore(ToSet(audio), InQueue) /\ AllBefore({working}, InQueue)
    BY <2>5 DEF WayInv, AllBefore
  <2>7. AllBefore(ToSet(audio), Waiting)' /\ AllBefore(InWork, InQueue)'
    BY <2>4, <2>5, <2>6 DEF AllBefore
  <2> QED
    BY <2>1, <2>3, <2>7 DEF WayInv
<1>3. CASE TakeStop
  <2>1. commands' = <<>> /\ audio' = audio /\ working' \notin Requests
    BY <1>3, Signals DEF TakeStop
  <2>2. Waiting' = {} /\ InQueue' = {}
    BY <2>1, EmptySet DEF Waiting, InQueue
  <2>3. Sorted(commands') /\ Sorted(audio')
    BY <2>1, SortedNothing DEF WayInv
  <2> QED
    BY <2>2, <2>3 DEF WayInv, AllBefore
<1>4. CASE TakeShutdown
  <2>1. /\ working' \notin Requests /\ commands' = Tail(commands) /\ audio' = audio /\ commands # <<>>
    BY <1>4, Signals DEF TakeShutdown
  <2>2. ToSet(Tail(commands)) \subseteq ToSet(commands)
    BY <1>0, <2>1, TailSet
  <2>3. Sorted(commands')
    BY <1>0, <2>1, SortedTail DEF WayInv
  <2>4. Waiting' \subseteq Waiting /\ InWork' = {}
    BY <2>1, <2>2 DEF Waiting, InWork
  <2>5. AllBefore(ToSet(audio), Waiting)' /\ AllBefore(InWork, InQueue)'
    BY <2>1, <2>4 DEF WayInv, AllBefore
  <2> QED
    BY <2>1, <2>3, <2>5 DEF WayInv
<1> QED
  BY <1>1, <1>2, <1>3, <1>4 DEF Worker

\* A step that plays nothing and asks for nothing keeps it if the way is in order.
LEMMA OrderKept ==
    ASSUME OrderInv, WayInv', Outstanding' \subseteq Outstanding,
           UNCHANGED <<reply, planned, heard, prepared>>,
           phase' \in {"speak", "flush", "fallback"} => phase \in {"speak", "flush", "fallback"}
    PROVE  OrderInv'
<1>1. AskedInv' /\ LinkInv'
  BY DEF OrderInv, AskedInv, LinkInv, Asked, AllBefore
<1>2. HeardInv'
  BY DEF OrderInv, HeardInv
<1> QED
  BY <1>1, <1>2 DEF OrderInv

\* As long as nothing is taken from it, the way is as it was.
LEMMA WaySame ==
    ASSUME WayInv, UNCHANGED <<commands, working, audio>> PROVE WayInv' /\ Outstanding' = Outstanding
  BY DEF WayInv, Waiting, InWork, InQueue, Outstanding

LEMMA SignalKeepsWay ==
    ASSUME PiperTypeOK, WayInv, NEW kind \in {"stop", "shutdown"}, commands' = Append(commands, Signal(kind)),
           working' = working, audio' \in {<<>>, audio}
    PROVE  WayInv'
<1>1. commands \in Seq(Commands) /\ Signal(kind) \in Commands /\ Signal(kind) \notin Requests
  BY Signals DEF PiperTypeOK
<1>2. ToSet(commands') = ToSet(commands) \cup {Signal(kind)}
  BY <1>1, AppendSet
<1>3. Sorted(commands')
  BY <1>1, SortedAppend DEF WayInv
<1>4. Waiting' = Waiting /\ InQueue' = InQueue /\ InWork' = InWork
  BY <1>1, <1>2 DEF Waiting, InQueue, InWork
<1>5. Sorted(audio') /\ ToSet(audio') \subseteq ToSet(audio)
  BY SortedNothing, EmptySet DEF WayInv
<1> QED
  BY <1>3, <1>4, <1>5 DEF WayInv, AllBefore

LEMMA PollKeepsOrder ==
    ASSUME TypeInv, IntrudeInv, OrderInv, Collect \/ Play PROVE OrderInv'
<1>0. PiperTypeOK /\ CacheTypeOK /\ ReplyTypeOK
  BY TypeParts
<1>1. TtsPoll /\ UNCHANGED <<phase, reply, planned>>
  BY DEF Collect, Play
<1>2. /\ UNCHANGED <<commands, working>> /\ audio' \in {<<>>, audio}
      /\ hits = <<>> => audio' = <<>>
      /\ Outstanding' \subseteq Outstanding
  BY <1>0, <1>1, PollMoves
<1>3. Brings \in Seq(Requests)
  BY <1>0, <1>1, CacheType
<1>4. WayInv'
  <2>1. CASE audio' = audio
    BY <1>2, <2>1, WaySame DEF OrderInv
  <2>2. CASE audio' = <<>>
    <3>1. Waiting' = Waiting /\ InQueue' = InQueue /\ InWork' = InWork
      BY <1>2 DEF Waiting, InQueue, InWork
    <3>2. ToSet(audio') = {} /\ Sorted(audio') /\ Sorted(commands')
      BY <1>2, <2>2, EmptySet, SortedNothing DEF OrderInv, WayInv
    <3> QED
      BY <3>1, <3>2 DEF OrderInv, WayInv, AllBefore
  <2> QED
    BY <1>2, <2>1, <2>2
\* What is brought is in order, planned, behind what is heard and ahead of what
\* is then on its way.
<1>5. /\ Sorted(Brings) /\ \A x \in ToSet(Brings) : Asked(x)
      /\ AllBefore(ToSet(heard) \cup ToSet(prepared), ToSet(Brings))
      /\ AllBefore(ToSet(Brings), Outstanding')
  <2>1. CASE hits # <<>>
    <3>1. Brings = hits /\ \A x \in ToSet(Brings) : x.reply = 0
      BY <2>1 DEF Brings, IntrudeInv
    <3> QED
      BY <1>3, <3>1, SortedNobody DEF AllBefore, Ordered, Asked
  <2>2. CASE hits = <<>>
    <3>1. Brings = audio /\ audio' = <<>> /\ ToSet(audio) \subseteq Outstanding
      BY <1>2, <2>2 DEF Brings, Outstanding
    <3>2. Outstanding' = Waiting
      BY <1>2, <3>1, EmptySet DEF Outstanding, Waiting
    <3>3. AllBefore(ToSet(audio), Waiting) /\ Sorted(audio)
      BY DEF OrderInv, WayInv
    <3>4. \A x \in ToSet(audio) : Asked(x)
      BY <3>1 DEF OrderInv, AskedInv
    <3>5. AllBefore(ToSet(heard) \cup ToSet(prepared), ToSet(audio))
      BY <3>1 DEF OrderInv, LinkInv, AllBefore
    <3> QED
      BY <3>1, <3>2, <3>3, <3>4, <3>5
  <2> QED
    BY <2>1, <2>2
<1>6. /\ ToSet(prepared \o Brings) = ToSet(prepared) \cup ToSet(Brings)
      /\ ToSet(heard \o Brings) = ToSet(heard) \cup ToSet(Brings)
  BY <1>0, <1>3, ConcatSet DEF ReplyTypeOK
<1>7. ToSet(heard)' \cup ToSet(prepared)' = ToSet(heard) \cup ToSet(prepared) \cup ToSet(Brings)
  BY <1>6 DEF Collect, Play
<1>8. AskedInv'
  <2>1. \A x \in Outstanding' \cup ToSet(heard)' \cup ToSet(prepared)' : Asked(x)
    BY <1>2, <1>5, <1>7 DEF OrderInv, AskedInv
  <2> QED
    BY <1>1, <2>1 DEF AskedInv, Asked
<1>9. LinkInv'
  <2>1. AllBefore(ToSet(heard) \cup ToSet(prepared), Outstanding')
    BY <1>2 DEF OrderInv, LinkInv, AllBefore
  <2> QED
    BY <1>5, <1>7, <2>1 DEF LinkInv, AllBefore
<1>10. HeardInv'
  <2>1. Sorted(heard) /\ Sorted(prepared) /\ AllBefore(ToSet(heard), ToSet(prepared))
    BY DEF OrderInv, HeardInv
  <2>2. heard \in Seq(Requests) /\ prepared \in Seq(Requests)
    BY <1>0 DEF ReplyTypeOK
  <2>3. AllBefore(ToSet(heard), ToSet(Brings)) /\ AllBefore(ToSet(prepared), ToSet(Brings))
    BY <1>5 DEF AllBefore
  <2>4. CASE Collect
    <3>1. phase' = "prepare" /\ prepared' = prepared \o Brings /\ heard' = heard
      BY <2>4 DEF Collect
    <3>2. Sorted(prepared \o Brings)
      BY <1>3, <1>5, <2>1, <2>2, <2>3, SortedConcat
    <3>3. AllBefore(ToSet(heard), ToSet(prepared) \cup ToSet(Brings))
      BY <2>1, <2>3 DEF AllBefore
    <3> QED
      BY <1>6, <2>1, <3>1, <3>2, <3>3 DEF HeardInv
  <2>5. CASE Play
    <3>1. prepared = <<>> /\ prepared' = <<>> /\ heard' = heard \o Brings
      BY <2>5 DEF Play, OrderInv, HeardInv
    <3>2. Sorted(heard \o Brings)
      BY <1>3, <1>5, <2>1, <2>2, <2>3, SortedConcat
    <3>3. ToSet(prepared') = {} /\ Sorted(prepared')
      BY <3>1, EmptySet, SortedNothing
    <3> QED
      BY <3>1, <3>2, <3>3 DEF HeardInv, AllBefore
  <2> QED
    BY <2>4, <2>5
<1> QED
  BY <1>4, <1>8, <1>9, <1>10 DEF OrderInv

LEMMA PhasesKeepOrder ==
    ASSUME TypeInv, OrderInv, BeginReply \/ Interrupted \/ GapReady \/ GenerationEnds \/ ReplyEnds
    PROVE  OrderInv'
<1>0. PiperTypeOK /\ ReplyTypeOK
  BY TypeParts
<1>1. CASE BeginReply
  <2>1. /\ UNCHANGED <<commands, working, audio>> /\ heard' = <<>> /\ prepared' = <<>>
        /\ reply' = reply + 1 /\ phase' = "prepare"
    BY <1>1 DEF BeginReply, piperVars
  <2>2. WayInv' /\ Outstanding' = Outstanding
    BY <2>1, WaySame DEF OrderInv
  <2>3. ToSet(heard') = {} /\ ToSet(prepared') = {} /\ Sorted(heard') /\ Sorted(prepared')
    BY <2>1, EmptySet, SortedNothing
  <2>4. HeardInv' /\ LinkInv'
    BY <2>1, <2>3 DEF HeardInv, LinkInv, AllBefore
  <2>5. \A x \in Outstanding : x \in Requests
    BY <1>0, InSet DEF Outstanding, Waiting, PiperTypeOK
  <2>6. \A x \in Outstanding : x.reply = 0 \/ x.reply < reply'
    <3>1. reply \in Nat
      BY <1>0, ReplyAssumption DEF ReplyTypeOK
    <3>2. \A x \in Requests : Asked(x) => x.reply = 0 \/ x.reply < reply'
      BY <2>1, <3>1, ReplyAssumption DEF Requests, Asked
    <3> QED
      BY <2>5, <3>2 DEF OrderInv, AskedInv
  <2>7. AskedInv'
    BY <2>2, <2>3, <2>6 DEF AskedInv, Asked
  <2> QED
    BY <2>2, <2>4, <2>7 DEF OrderInv
<1>2. CASE Interrupted
  <2>1. TtsStop /\ prepared' = <<>> /\ heard' = heard /\ phase' = "idle" /\ UNCHANGED <<reply, planned>>
    BY <1>2 DEF Interrupted
  <2>2. /\ commands' = Append(commands, Signal("stop")) /\ audio' = <<>> /\ working' = working
        /\ Outstanding' \subseteq Outstanding
    BY <1>0, <2>1, StopMoves
  <2>3. WayInv'
    BY <1>0, <2>2, SignalKeepsWay DEF OrderInv
  <2>4. ToSet(prepared') = {} /\ Sorted(prepared')
    BY <2>1, EmptySet, SortedNothing
  <2>5. HeardInv'
    BY <2>1, <2>4 DEF OrderInv, HeardInv, AllBefore
  <2>6. AskedInv' /\ LinkInv'
    BY <2>1, <2>2, <2>4 DEF OrderInv, AskedInv, LinkInv, Asked, AllBefore
  <2> QED
    BY <2>3, <2>5, <2>6 DEF OrderInv
<1>3. CASE GapReady
  <2>1. /\ UNCHANGED <<commands, working, audio, reply, planned>> /\ phase' = "speak"
        /\ heard' = heard \o prepared /\ prepared' = <<>>
    BY <1>3 DEF GapReady, piperVars
  <2>2. WayInv' /\ Outstanding' = Outstanding
    BY <2>1, WaySame DEF OrderInv
  <2>3. ToSet(heard') = ToSet(heard) \cup ToSet(prepared) /\ ToSet(prepared') = {} /\ Sorted(prepared')
    BY <1>0, <2>1, ConcatSet, EmptySet, SortedNothing DEF ReplyTypeOK
  <2>4. Sorted(heard')
    BY <1>0, <2>1, SortedConcat DEF OrderInv, HeardInv, ReplyTypeOK
  <2>5. HeardInv'
    BY <2>1, <2>3, <2>4 DEF HeardInv, AllBefore
  <2>6. AskedInv' /\ LinkInv'
    BY <2>1, <2>2, <2>3 DEF OrderInv, AskedInv, LinkInv, Asked, AllBefore
  <2> QED
    BY <2>2, <2>5, <2>6 DEF OrderInv
<1>4. CASE GenerationEnds \/ ReplyEnds
  <2>1. /\ UNCHANGED <<commands, working, audio, reply, planned, heard, prepared>>
        /\ phase' \in {"speak", "flush", "fallback"} => phase \in {"speak", "flush", "fallback"}
    BY <1>4 DEF GenerationEnds, ReplyEnds, piperVars
  <2>2. WayInv' /\ Outstanding' = Outstanding
    BY <2>1, WaySame DEF OrderInv
  <2> QED
    BY <2>1, <2>2, OrderKept
<1> QED
  BY <1>1, <1>2, <1>3, <1>4

LEMMA StepKeepsOrder == TypeInv /\ IntrudeInv /\ OrderInv /\ [Next]_vars => OrderInv'
<1> SUFFICES ASSUME TypeInv, IntrudeInv, OrderInv, [Next]_vars PROVE OrderInv'
  OBVIOUS
<1>0. PiperTypeOK
  BY TypeParts
<1>1. CASE SessionEnds \/ PollFails
  <2>1. /\ commands' = Append(commands, Signal("shutdown")) /\ UNCHANGED <<working, audio>>
        /\ phase' = "over" /\ UNCHANGED <<reply, planned, heard, prepared>> /\ Outstanding' = Outstanding
    BY <1>0, <1>1, EndMoves
  <2>2. WayInv'
    BY <1>0, <2>1, SignalKeepsWay DEF OrderInv
  <2> QED
    BY <2>1, <2>2, OrderKept
<1>2. CASE Worker /\ UNCHANGED <<cacheVars, replyVars>>
  <2>1. UNCHANGED <<phase, reply, planned, heard, prepared>>
    BY <1>2 DEF replyVars
  <2>2. WayInv' /\ Outstanding' \subseteq Outstanding
    BY <1>0, <1>2, WorkerKeepsWay, WorkerMoves DEF OrderInv
  <2> QED
    BY <2>1, <2>2, OrderKept
<1>3. CASE UNCHANGED vars
  <2>1. UNCHANGED <<commands, working, audio, phase, reply, planned, heard, prepared>>
    BY <1>3 DEF vars, piperVars, replyVars
  <2>2. WayInv' /\ Outstanding' = Outstanding
    BY <2>1, WaySame DEF OrderInv
  <2> QED
    BY <2>1, <2>2, OrderKept
<1> QED
  BY <1>1, <1>2, <1>3, EnqueueKeepsOrder, PollKeepsOrder, PhasesKeepOrder DEF Next, Session

LEMMA InitOrder == Init => OrderInv
<1> SUFFICES ASSUME Init PROVE OrderInv
  OBVIOUS
<1>1. /\ commands = <<>> /\ audio = <<>> /\ heard = <<>> /\ prepared = <<>> /\ working = Idle
  BY DEF Init, PiperInit
<1>2. ToSet(heard) = {} /\ ToSet(prepared) = {} /\ Outstanding = {} /\ InQueue = {} /\ Waiting = {}
  BY <1>1, EmptySet, Signals DEF Outstanding, Waiting, InQueue
<1>3. ToSet(audio) = {}
  BY <1>1, EmptySet
<1>4. AskedInv /\ LinkInv
  BY <1>2 DEF AskedInv, LinkInv, AllBefore
<1>5. HeardInv
  BY <1>1, <1>2, SortedNothing DEF HeardInv, AllBefore
<1>6. WayInv
  BY <1>1, <1>2, <1>3, SortedNothing DEF WayInv, AllBefore
<1> QED
  BY <1>4, <1>5, <1>6 DEF OrderInv

\* What the synthesizer makes is heard in the order in which it was planned, each
\* unit at most once, whatever of earlier replies comes late.
THEOREM SpokenAsPlanned == Spec => []SpokenInOrder
<1>1. TypeInv /\ OrderInv => SpokenInOrder
  <2> SUFFICES ASSUME TypeInv, OrderInv PROVE SpokenInOrder
    OBVIOUS
  <2>0. heard \in Seq(Requests) /\ prepared \in Seq(Requests)
    BY TypeParts DEF ReplyTypeOK
  <2>1. Sorted(Said)
    BY <2>0, SortedConcat DEF Said, OrderInv, HeardInv
  <2>2. Said \in Seq(Requests)
    BY <2>0, ConcatSet DEF Said
  <2>3. DOMAIN Said = 1 .. Len(Said) /\ \A i \in 1 .. Len(Said) : Said[i] \in Requests
    BY <2>2, LenProperties, ElementOfSeq
  <2> QED
    BY <2>1, <2>3 DEF SpokenInOrder, Sorted, Ordered
<1> QED
  BY <1>1, InitType, InitIntrude, InitOrder, StepKeepsType, StepKeepsIntrude, StepKeepsOrder, PTL DEF Spec

(***************************************************************************)
(* The cache.                                                              *)
(***************************************************************************)
\* Unless a marker was enqueued behind other speech, all that is on its way while
\* audio is collected for the marker is the marker's.
Marker(x) == x.kind = "marker"
CacheInv ==
    ~mixed =>
        /\ \A x \in ToSet(cached) : Marker(x)
        /\ collecting => \A x \in Outstanding \cup ToSet(collected) : Marker(x)

\* A step that enqueues nothing, polls nothing and stops nothing keeps it.
LEMMA CacheKept ==
    ASSUME CacheInv, Outstanding' \subseteq Outstanding, UNCHANGED cacheVars PROVE CacheInv'
  BY DEF CacheInv, cacheVars

LEMMA EnqueueKeepsCache ==
    ASSUME TypeInv, CacheInv, PlanFiller \/ PlanUnit \/ SpeakFallback PROVE CacheInv'
<1>0. PiperTypeOK /\ CacheTypeOK
  BY TypeParts
<1>1. PICK kind \in {"words", "marker"} : Enqueue(kind)
  BY DEF PlanFiller, PlanUnit, SpeakFallback
<1>2. phase \in Speaking /\ phase # "fallback"
  BY DEF PlanFiller, PlanUnit, SpeakFallback, Speaking
<1>3. PICK request \in Requests : request = [reply |-> reply, n |-> planned + 1, kind |-> kind]
  BY <1>2, NextUnit
<1>4. TtsEnqueue(request) /\ UNCHANGED <<caching, cached>>
  BY <1>1, <1>3 DEF Enqueue
<1>5. collected' = <<>> /\ ToSet(collected') = {}
  BY <1>4, EmptySet DEF TtsEnqueue
<1>6. Outstanding' \subseteq Outstanding \cup {request}
  BY <1>0, <1>4, EnqueueMoves
<1>7. mixed => mixed'
  BY <1>4 DEF TtsEnqueue
<1>8. collecting' /\ ~mixed' => request.kind = "marker" /\ Outstanding = {}
  BY <1>4 DEF TtsEnqueue
<1> QED
  BY <1>4, <1>5, <1>6, <1>7, <1>8 DEF CacheInv, Marker

LEMMA PollKeepsCache ==
    ASSUME TypeInv, CacheInv, TtsPoll PROVE CacheInv'
<1>0. PiperTypeOK /\ CacheTypeOK
  BY TypeParts
<1>1. mixed' = mixed /\ Outstanding' \subseteq Outstanding
  BY <1>0, PollMoves DEF TtsPoll
<1>2. CASE PollHits
  BY <1>1, <1>2 DEF PollHits, CacheInv
<1>3. CASE PollPiper
  <2>1. CASE UNCHANGED <<cached, collecting, collected>>
    BY <1>1, <2>1 DEF CacheInv
  <2>2. CASE collecting /\ collected' = collected \o audio /\ UNCHANGED <<cached, collecting>>
    <3>1. ToSet(collected') = ToSet(collected) \cup ToSet(audio) /\ ToSet(audio) \subseteq Outstanding
      BY <1>0, <2>2, ConcatSet DEF PiperTypeOK, CacheTypeOK, Outstanding
    <3> QED
      BY <1>1, <2>2, <3>1 DEF CacheInv
  <2>3. CASE collecting /\ cached' = Stored(collected) /\ collecting' = FALSE /\ collected' = <<>>
    <3>1. \A x \in ToSet(Stored(collected)) : \E y \in ToSet(collected) : x.kind = y.kind
      BY <1>0, StoredType DEF CacheTypeOK
    <3> QED
      BY <1>1, <2>3, <3>1 DEF CacheInv, Marker
  <2> QED
    BY <1>3, <2>1, <2>2, <2>3 DEF PollPiper
<1> QED
  BY <1>2, <1>3 DEF TtsPoll

LEMMA StepKeepsCache == TypeInv /\ CacheInv /\ [Next]_vars => CacheInv'
<1> SUFFICES ASSUME TypeInv, CacheInv, [Next]_vars PROVE CacheInv'
  OBVIOUS
<1>0. PiperTypeOK
  BY TypeParts
<1>1. CASE Collect \/ Play
  BY <1>1, PollKeepsCache DEF Collect, Play
<1>2. CASE Interrupted
  <2>1. collecting' = FALSE /\ UNCHANGED <<cached, mixed>>
    BY <1>2 DEF Interrupted, TtsStop
  <2> QED
    BY <2>1 DEF CacheInv
<1>3. CASE BeginReply \/ GapReady \/ GenerationEnds \/ ReplyEnds \/ UNCHANGED vars
  <2>1. UNCHANGED <<piperVars, cacheVars>>
    BY <1>3 DEF BeginReply, GapReady, GenerationEnds, ReplyEnds, vars
  <2>2. Outstanding' = Outstanding
    BY <2>1 DEF piperVars, Outstanding, Waiting
  <2> QED
    BY <2>1, <2>2, CacheKept
<1>4. CASE SessionEnds \/ PollFails
  BY <1>0, <1>4, EndMoves, CacheKept
<1>5. CASE Worker /\ UNCHANGED <<cacheVars, replyVars>>
  BY <1>0, <1>5, WorkerMoves, CacheKept
<1> QED
  BY <1>1, <1>2, <1>3, <1>4, <1>5, EnqueueKeepsCache DEF Next, Session

\* Under the marker's key the cache keeps the marker's audio, as long as no marker
\* is enqueued while other speech is still to come.
THEOREM CacheIsTrue == Spec => []CacheKeepsOwnAudio
<1>1. Init => CacheInv
  <2> SUFFICES ASSUME Init PROVE CacheInv
    OBVIOUS
  <2>1. ToSet(cached) \subseteq {Prewarmed} /\ collecting = FALSE
    BY EmptySet DEF Init, ToSet
  <2> QED
    BY <2>1 DEF CacheInv, Marker, Prewarmed
<1>2. CacheInv => CacheKeepsOwnAudio
  BY DEF CacheInv, CacheKeepsOwnAudio, Marker
<1> QED
  BY <1>1, <1>2, InitType, StepKeepsType, StepKeepsCache, PTL DEF Spec

(***************************************************************************)
(* The end of a session.                                                   *)
(***************************************************************************)
\* Whatever is not the first of a sequence is in what follows it.
LEMMA NotHeadInTail ==
    ASSUME NEW S, NEW s \in Seq(S), s # <<>>, NEW x \in ToSet(s), x # Head(s)
    PROVE  x \in ToSet(Tail(s))
<1>1. /\ Tail(s) \in Seq(S) /\ Len(Tail(s)) = Len(s) - 1 /\ Len(s) \in Nat \ {0}
      /\ Head(s) = s[1] /\ \A i \in 1 .. Len(s) - 1 : Tail(s)[i] = s[i + 1]
  BY TailSet
<1>2. PICK i \in 1 .. Len(s) : s[i] = x
  BY InSet
<1>3. i - 1 \in 1 .. Len(s) - 1 /\ Tail(s)[i - 1] = x
  <2>1. i # 1
    BY <1>1, <1>2
  <2>2. i - 1 \in 1 .. Len(s) - 1 /\ (i - 1) + 1 = i
    BY <1>1, <2>1
  <2> QED
    BY <1>1, <1>2, <2>2
<1>4. \A j \in 1 .. Len(Tail(s)) : Tail(s)[j] \in ToSet(Tail(s))
  BY <1>1, InSet
<1> QED
  BY <1>1, <1>3, <1>4

\* The worker discards a Shutdown only by obeying it.
LEMMA WorkerObeysShutdown ==
    ASSUME PiperTypeOK, Worker, Signal("shutdown") \in ToSet(commands), working # Gone
    PROVE  Signal("shutdown") \in ToSet(commands') \/ working' = Gone
<1>1. CASE BeginSynthesis
  <2>1. commands \in Seq(Commands) /\ commands # <<>> /\ Signal("shutdown") # Head(commands)
        /\ commands' = Tail(commands)
    BY <1>1, Signals DEF BeginSynthesis, PiperTypeOK
  <2> QED
    BY <2>1, NotHeadInTail
<1>2. CASE EndSynthesis
  BY <1>2 DEF EndSynthesis
<1>3. CASE TakeStop
  BY <1>3 DEF TakeStop
<1>4. CASE TakeShutdown
  BY <1>4 DEF TakeShutdown
<1> QED
  BY <1>1, <1>2, <1>3, <1>4 DEF Worker

LEMMA StepKeepsShutdown == TypeInv /\ ShutdownNotLost /\ [Next]_vars => ShutdownNotLost'
<1> SUFFICES ASSUME TypeInv, ShutdownNotLost, [Next]_vars, phase' = "over", working' # Gone
             PROVE  Signal("shutdown") \in ToSet(commands')
  BY DEF ShutdownNotLost
<1>0. PiperTypeOK
  BY TypeParts
<1>1. CASE SessionEnds \/ PollFails
  <2>1. commands' = Append(commands, Signal("shutdown"))
    BY <1>0, <1>1, EndMoves
  <2> QED
    BY <1>0, <2>1, AppendSet, Signals DEF PiperTypeOK
<1>2. CASE Worker /\ UNCHANGED <<cacheVars, replyVars>>
  <2>1. phase = "over"
    BY <1>2 DEF replyVars
  <2>2. working # Gone
    BY <1>2, Signals DEF Worker, BeginSynthesis, EndSynthesis, TakeStop, TakeShutdown, Idle, Gone,
                         Signal
  <2> QED
    BY <1>0, <1>2, <2>1, <2>2, WorkerObeysShutdown DEF ShutdownNotLost
<1>3. CASE UNCHANGED vars
  BY <1>3 DEF vars, piperVars, replyVars, ShutdownNotLost
<1>4. CASE Session /\ ~(SessionEnds \/ PollFails)
  <2>1. phase' # "over"
    BY <1>4 DEF Session, BeginReply, PlanFiller, PlanUnit, Collect, Play, Interrupted, GapReady,
                GenerationEnds, SpeakFallback, ReplyEnds
  <2> QED
    BY <2>1
<1> QED
  BY <1>1, <1>2, <1>3, <1>4 DEF Next

\* Once the session is over its Shutdown is never lost, whatever stops, errors
\* and requests it finds before it: the worker goes, or has it still to take.
THEOREM ShutdownStaysQueued == Spec => []ShutdownNotLost
<1>1. Init => ShutdownNotLost
  BY DEF Init, ShutdownNotLost
<1> QED
  BY <1>1, InitType, StepKeepsType, StepKeepsShutdown, PTL DEF Spec

=============================================================================
