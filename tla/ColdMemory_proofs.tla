-------------------------- MODULE ColdMemory_proofs --------------------------
(***************************************************************************)
(* Proofs about ColdMemory, for channels of any capacity and any number of *)
(* traces, processes and points: the graph accounts for what the channel   *)
(* accepted, a point names nodes of its own trace or of nothing that was   *)
(* written, and a torn write costs the journal one entry.                  *)
(***************************************************************************)
EXTENDS ColdMemory, FiniteSetTheorems, SequenceTheorems, TLAPS

\* A worker that stores has a trace, which has a number.
Busy == worker \in {"graph", "vectors"}
TypeInv == TypeOK /\ (Busy => trace \in Traces /\ sequence \in Nat \ {0})

LEMMA NoNodeIsANode == NoNode \in Nodes
BY DEF NoNode, Node, Nodes, Labels

\* What the worker writes for a trace: numbered nodes, a signature's node, and
\* shared ones.
LEMMA WrittenNodes ==
    ASSUME TypeInv, Busy
    PROVE  /\ Primary \in Nodes /\ NoNode \in Nodes /\ Primary # NoNode
           /\ Written \subseteq Nodes /\ Primary \in Written /\ NoNode \notin Written
           /\ \A node \in Written :
                 \/ Numbered(node) /\ node.number = sequence - 1
                 \/ node.label = "voice_signature" /\ node.number = trace.n
                 \/ node \in Shared
<1>1. trace.n \in Nat /\ trace.kind \in Kinds /\ sequence - 1 \in Nat
  BY ColdMemoryAssumption DEF TypeInv, Traces
<1>2. /\ Primary = Node(trace.kind, IF trace.kind = "voice_signature" THEN trace.n ELSE sequence - 1)
      /\ Subjects \in {{}, {Entity}, {Image}, {Voice}}
  BY <1>1 DEF Primary, OwnNode, Subjects, Kinds
<1>3. Primary \in Nodes /\ NoNode \in Nodes /\ Primary # NoNode
  BY <1>1, <1>2 DEF Node, Nodes, NoNode, Labels, Kinds
<1>4. /\ Subjects \subseteq Shared /\ Shared \subseteq Nodes /\ NoNode \notin Shared
  BY <1>2 DEF Shared, Entity, Image, Voice, Node, Nodes, NoNode, Labels
<1>5. \/ Numbered(Primary) /\ Primary.number = sequence - 1
      \/ Primary.label = "voice_signature" /\ Primary.number = trace.n
  BY <1>1, <1>2 DEF Node, Numbered, Kinds
<1> DEFINE event == Node("memory_trace_event", sequence - 1)
<1>6. event \in Nodes /\ event # NoNode /\ Numbered(event) /\ event.number = sequence - 1
  BY <1>1 DEF Node, Nodes, NoNode, Labels, Numbered
<1>7. Written = {Primary, event} \cup Subjects
  BY DEF Written
<1> HIDE DEF event
<1> QED
  BY <1>3, <1>4, <1>5, <1>6, <1>7

\* The documents of a trace are points that name nodes of its write, or what the
\* graph answered.
LEMMA DocumentPoints ==
    ASSUME TypeInv, Busy, NEW point \in Documents
    PROVE  /\ point \in Points /\ point.of = trace /\ point.process = process
           /\ point.node \in Written \cup {result} /\ point.artifact \in Written \cup {result}
           /\ Numbered(point.artifact) => point.artifact = result
<1>1. trace \in Traces /\ trace.kind \in Kinds /\ process \in 1 .. MaxProcesses /\ result \in Nodes
  BY DEF TypeInv, TypeOK, Traces
<1>2. PICK node, artifact : /\ point = Point(node, artifact)
                            /\ node \in Written \cup {result} /\ artifact \in Written \cup {result}
                            /\ Numbered(artifact) => artifact = result
  <2>1. CASE \E node \in Written : point = Point(node, result)
    BY <2>1
  <2>2. CASE point = OwnPoint
    <3>1. CASE trace.kind = "conversation_turn"
      BY <2>2, <3>1 DEF OwnPoint
    <3>2. CASE trace.kind = "entity_extraction"
      BY <2>2, <3>2 DEF OwnPoint, Written, Subjects
    <3>3. CASE trace.kind = "image_observation"
      BY <2>2, <3>3 DEF OwnPoint, Written, Subjects, Numbered, Image, Node
    <3>4. CASE trace.kind = "voice_signature"
      BY <2>2, <3>4 DEF OwnPoint, Written, Subjects, Numbered, Primary, OwnNode, Node
    <3> QED
      BY <1>1, <3>1, <3>2, <3>3, <3>4 DEF Kinds
  <2> QED
    BY <2>1, <2>2 DEF Documents
<1>3. node \in Nodes /\ artifact \in Nodes
  BY <1>1, <1>2, WrittenNodes
<1> QED
  BY <1>1, <1>2, <1>3 DEF Point, Points

LEMMA SubmitKeepsType ==
    ASSUME TypeInv, NEW kind \in Kinds, Submit(kind) PROVE TypeInv'
<1> USE ColdMemoryAssumption DEF TypeOK, JournalTypeOK, Traces, Pieces
<1>a. TypeOK
  BY DEF TypeInv
<1>1. submitted + 1 \in 1 .. MaxTraces
  BY <1>a DEF Submit
<1>u. /\ submitted' = submitted + 1
      /\ UNCHANGED <<sink, process, open, worker, sequence, trace, result, graph, vectors, unwritten>>
  BY DEF Submit
<1>b. (Busy => trace \in Traces /\ sequence \in Nat \ {0})'
  BY DEF Submit, TypeInv, Busy
<1>2. CASE sink = "channel" /\ Offer([n |-> submitted + 1, kind |-> kind])
  <2>1. [n |-> submitted + 1, kind |-> kind] \in Traces
    BY <1>1
  <2> DEFINE t == [n |-> submitted + 1, kind |-> kind]
  <2>2. channel' \in Seq(Traces) /\ Len(channel') <= Capacity /\ accepted' \in Seq(Traces)
    <3> HIDE DEF t, Traces
    <3>0. channel \in Seq(Traces) /\ accepted \in Seq(Traces) /\ t \in Traces
      BY <1>a, <2>1 DEF t
    <3>1. CASE channel' = Append(channel, t) /\ accepted' = Append(accepted, t)
               /\ Len(channel) < Capacity
      <4>1. Append(channel, t) \in Seq(Traces) /\ Len(Append(channel, t)) = Len(channel) + 1
        BY <3>0, AppendProperties
      <4>2. Append(accepted, t) \in Seq(Traces)
        BY <3>0, AppendProperties
      <4> QED
        BY <3>0, <3>1, <4>1, <4>2, LenProperties
    <3>2. CASE UNCHANGED <<channel, accepted>>
      BY <1>a, <3>2
    <3>3. Offer(t)
      BY <1>2 DEF t
    <3> QED
      BY <3>1, <3>2, <3>3 DEF Offer
  <2>3. JournalTypeOK'
    BY <1>2, <1>a DEF Offer, journalVars
  <2>4. TypeOK'
    <3> HIDE DEF t, Traces, Pieces, JournalTypeOK
    <3> QED
      BY <1>a, <1>1, <1>u, <2>2, <2>3
  <2> QED
    BY <1>b, <2>4 DEF TypeInv
<1>3. CASE AppendLine(submitted + 1) /\ UNCHANGED <<channel, accepted>>
  <2>1. [of |-> submitted + 1, whole |-> TRUE] \in Pieces
    BY <1>1
  <2>2. JournalTypeOK'
    BY <1>3, <1>1, <2>1, <1>a DEF AppendLine
  <2>3. TypeOK'
    BY <1>a, <1>1, <1>u, <1>3, <2>2
  <2> QED
    BY <1>b, <2>3 DEF TypeInv
<1>4. CASE Tear(submitted + 1) /\ UNCHANGED <<channel, accepted>>
  <2>1. \A whole \in BOOLEAN : [of |-> submitted + 1, whole |-> whole] \in Pieces
    BY <1>1
  <2>2. JournalTypeOK'
    BY <1>4, <2>1, <1>a DEF Tear
  <2>3. TypeOK'
    BY <1>a, <1>1, <1>u, <1>4, <2>2
  <2> QED
    BY <1>b, <2>3 DEF TypeInv
<1> QED
  BY <1>2, <1>3, <1>4 DEF Submit

LEMMA StoreGraphKeepsType ==
    ASSUME TypeInv, StoreGraph PROVE TypeInv'
<1> USE DEF TypeOK
<1>1. trace \in Traces /\ sequence - 1 \in Nat /\ trace.n \in 1 .. MaxTraces /\ trace.kind \in Kinds
  BY DEF TypeInv, Busy, StoreGraph, Traces
<1>2. Primary \in Nodes /\ NoNode \in Nodes /\ Written \subseteq Nodes
  BY WrittenNodes DEF StoreGraph, Busy
<1>3. CASE Commit
  <2>1. graph' \in [DOMAIN graph' -> 1 .. MaxTraces] /\ DOMAIN graph' \subseteq Nodes
    BY <1>1, <1>2, <1>3 DEF Commit, TypeInv
  <2> QED
    BY <1>1, <1>2, <1>3, <2>1 DEF Commit, TypeInv, StoreGraph, Busy, JournalTypeOK, journalVars
<1>4. CASE GraphFails
  BY <1>1, <1>4 DEF GraphFails, TypeInv, StoreGraph, Busy, JournalTypeOK, journalVars
<1> QED
  BY <1>3, <1>4 DEF StoreGraph

LEMMA WorkerKeepsType ==
    ASSUME TypeInv, Take \/ StoreVectors \/ WorkerEnds \/ WorkerDies PROVE TypeInv'
<1> USE DEF TypeOK, JournalTypeOK, journalVars
<1>1. CASE Take
  <2>1. trace' \in Traces /\ channel' \in Seq(Traces) /\ Len(channel') <= Capacity
    BY <1>1, ColdMemoryAssumption DEF Take, TypeInv
  <2>2. sequence' \in Nat \ {0} /\ NoNode \in Nodes
    BY <1>1, NoNodeIsANode DEF Take, TypeInv
  <2> QED
    BY <1>1, <2>1, <2>2 DEF Take, TypeInv, Busy
<1>2. CASE StoreVectors
  <2>1. Documents \subseteq Points
    BY <1>2, DocumentPoints DEF StoreVectors, Busy
  <2>2. PICK stored \in SUBSET Documents : vectors' = vectors \cup stored
    BY <1>2 DEF StoreVectors
  <2> QED
    BY <1>2, <2>1, <2>2 DEF StoreVectors, TypeInv, Busy
<1>3. CASE WorkerEnds
  BY <1>3 DEF WorkerEnds, TypeInv, Busy
<1>4. CASE WorkerDies
  <2>1. channel' \in Seq(Traces) /\ Len(channel') <= Capacity
    BY <1>4, ColdMemoryAssumption DEF WorkerDies
  <2>2. unwritten' \subseteq Traces
    BY <1>4 DEF WorkerDies, TypeInv, Busy
  <2> QED
    BY <1>4, <2>1, <2>2 DEF WorkerDies, TypeInv, Busy
<1> QED
  BY <1>1, <1>2, <1>3, <1>4

LEMMA ProcessKeepsType ==
    ASSUME TypeInv, CloseSink \/ Restart \/ UNCHANGED vars PROVE TypeInv'
<1> USE DEF TypeOK, JournalTypeOK, journalVars, TypeInv, Busy
<1>1. CASE CloseSink
  BY <1>1 DEF CloseSink
<1>2. CASE Restart
  <2>1. process' \in 1 .. MaxProcesses /\ NoNode \in Nodes
    BY <1>2, ColdMemoryAssumption, NoNodeIsANode DEF Restart
  <2>2. channel' \in Seq(Traces) /\ Len(channel') <= Capacity /\ accepted' \in Seq(Traces)
    BY <1>2, ColdMemoryAssumption DEF Restart
  <2> QED
    BY <1>2, <2>1, <2>2 DEF Restart
<1>3. CASE UNCHANGED vars
  BY <1>3 DEF vars, coldVars
<1> QED
  BY <1>1, <1>2, <1>3

LEMMA InitType == Init => TypeInv
<1> SUFFICES ASSUME Init PROVE TypeInv
  OBVIOUS
<1>1. JournalTypeOK
  BY DEF Init, JournalInit, JournalTypeOK
<1>2. NoNode \in Nodes /\ process \in 1 .. MaxProcesses /\ submitted \in 0 .. MaxTraces
  BY ColdMemoryAssumption, NoNodeIsANode DEF Init
<1>3. graph \in [DOMAIN graph -> 1 .. MaxTraces] /\ DOMAIN graph \subseteq Nodes
  BY DEF Init
<1>4. channel \in Seq(Traces) /\ Len(channel) <= Capacity /\ accepted \in Seq(Traces)
  BY ColdMemoryAssumption DEF Init
<1> QED
  BY <1>1, <1>2, <1>3, <1>4 DEF Init, TypeInv, TypeOK, Busy

\* Every variable of the sinks, the worker and the stores keeps its type.
THEOREM TypeCorrect == Spec => []TypeOK
<1>1. TypeInv /\ [Next]_vars => TypeInv'
  BY SubmitKeepsType, StoreGraphKeepsType, WorkerKeepsType, ProcessKeepsType DEF Next
<1>2. TypeInv => TypeOK
  BY DEF TypeInv
<1> QED
  BY InitType, <1>1, <1>2, PTL DEF Spec

(***************************************************************************)
(* The inductive invariant: what was accepted is what was taken, followed  *)
(* by what is in the channel; the graph has what was settled; what the     *)
(* worker wrote it finds there; and the numbered nodes that points of this *)
(* process name have smaller numbers than any that is written again.       *)
(***************************************************************************)
ChannelInv ==
    /\ sequence <= Len(accepted)
    /\ worker # "dead" =>
          /\ Len(accepted) = sequence + Len(channel)
          /\ \A i \in 1 .. Len(channel) : channel[i] = accepted[sequence + i]
    /\ Busy => trace = accepted[sequence]
    /\ worker = "ended" => channel = <<>> /\ ~open

\* The node of a signature is written for one trace only.
SignatureInv ==
    \A node \in DOMAIN graph : node.label = "voice_signature" => graph[node] = node.number

ResultInv ==
    /\ worker = "graph" => result = NoNode
    /\ worker = "vectors" =>
          /\ result \in {NoNode, Primary}
          /\ result # NoNode => Primary \in DOMAIN graph /\ graph[Primary] = trace.n
          /\ \/ trace \in unwritten
             \/ \A node \in Written : node \in DOMAIN graph /\ graph[node] = trace.n

NamesKept(point, node) ==
    /\ Kept(point, node) \/ (point.of \in unwritten /\ ~(node = point.artifact /\ Numbered(node)))
    /\ Numbered(node) /\ point.process = process => node.number < Settled

PointsInv ==
    \A point \in vectors :
        /\ point.process <= process
        /\ \A node \in {point.node, point.artifact} \ {NoNode} : NamesKept(point, node)

IInv == TypeInv /\ ChannelInv /\ GraphIsAccountedFor /\ SignatureInv /\ ResultInv /\ PointsInv

\* What changes no store, and settles no fewer traces, keeps what points name.
LEMMA StoresStand ==
    ASSUME IInv, UNCHANGED <<process, graph, vectors>>, unwritten \subseteq unwritten',
           Settled \in Int, Settled' \in Int, Settled <= Settled'
    PROVE  PointsInv' /\ SignatureInv'
<1>1. SignatureInv'
  BY DEF IInv, SignatureInv
<1>2. ASSUME NEW point \in vectors', NEW node \in {point.node, point.artifact} \ {NoNode}
      PROVE  NamesKept(point, node)' /\ point.process <= process'
  <2>1. NamesKept(point, node) /\ point.process <= process
    BY <1>2 DEF IInv, PointsInv
  <2>2. node.number \in Nat
    BY <1>2 DEF IInv, TypeInv, TypeOK, Points, Nodes
  <2> QED
    BY <2>1, <2>2 DEF NamesKept, Kept
<1>3. ASSUME NEW point \in vectors' PROVE point.process <= process'
  BY <1>3 DEF IInv, PointsInv
<1> QED
  BY <1>1, <1>2, <1>3 DEF PointsInv

\* An offer adds to the channel and to what was accepted, or to neither.
LEMMA OfferAddsToBoth ==
    ASSUME TypeInv, NEW kind \in Kinds, Submit(kind)
    PROVE  \/ UNCHANGED <<channel, accepted>>
           \/ /\ worker # "dead" /\ open
              /\ \E t \in Traces : channel' = Append(channel, t) /\ accepted' = Append(accepted, t)
<1>1. CASE sink = "channel" /\ Offer([n |-> submitted + 1, kind |-> kind])
  <2> DEFINE t == [n |-> submitted + 1, kind |-> kind]
  <2>1. t \in Traces
    BY ColdMemoryAssumption DEF TypeInv, TypeOK, Submit, Traces
  <2>2. Offer(t) /\ open
    BY <1>1 DEF Submit
  <2> HIDE DEF t
  <2> QED
    BY <2>1, <2>2 DEF Offer
<1>2. CASE UNCHANGED <<channel, accepted>>
  BY <1>2
<1> QED
  BY <1>1, <1>2 DEF Submit

LEMMA SubmitKeepsInv ==
    ASSUME IInv, NEW kind \in Kinds, Submit(kind)
    PROVE  ChannelInv' /\ GraphIsAccountedFor' /\ SignatureInv' /\ ResultInv' /\ PointsInv'
<1>1. UNCHANGED <<process, open, worker, sequence, trace, result, graph, vectors, unwritten>>
  BY DEF Submit
<1>2. /\ channel \in Seq(Traces) /\ accepted \in Seq(Traces) /\ sequence \in Nat
      /\ Busy => sequence \in Nat \ {0}
  BY DEF IInv, TypeInv, TypeOK
<1>3. ResultInv' /\ SignatureInv' /\ PointsInv'
  <2>1. Settled' = Settled /\ Settled \in Int
    BY <1>1, <1>2 DEF Settled
  <2>2. SignatureInv' /\ PointsInv'
    BY <1>1, <2>1, StoresStand
  <2>3. ResultInv'
    BY <1>1 DEF IInv, ResultInv, Primary, OwnNode, Written, Subjects
  <2> QED
    BY <2>2, <2>3
<1>4. CASE UNCHANGED <<channel, accepted>>
  BY <1>1, <1>3, <1>4 DEF IInv, ChannelInv, Busy, GraphIsAccountedFor, Settled
<1>5. CASE /\ worker # "dead" /\ open
           /\ \E t \in Traces : channel' = Append(channel, t) /\ accepted' = Append(accepted, t)
  <2>1. PICK t \in Traces : channel' = Append(channel, t) /\ accepted' = Append(accepted, t)
    BY <1>5
  <2>2. /\ Len(channel') = Len(channel) + 1 /\ Len(accepted') = Len(accepted) + 1
        /\ \A i \in 1 .. Len(accepted) : accepted'[i] = accepted[i]
        /\ \A i \in 1 .. Len(channel) : channel'[i] = channel[i]
        /\ channel'[Len(channel) + 1] = t /\ accepted'[Len(accepted) + 1] = t
    BY <1>2, <2>1, AppendProperties
  <2>3. /\ sequence <= Len(accepted) /\ Len(accepted) = sequence + Len(channel)
        /\ \A i \in 1 .. Len(channel) : channel[i] = accepted[sequence + i]
        /\ Len(channel) \in Nat /\ Len(accepted) \in Nat
    BY <1>2, <1>5, LenProperties DEF IInv, ChannelInv
  <2>4. \A i \in 1 .. Len(channel') : channel'[i] = accepted'[sequence' + i]
    <3> SUFFICES ASSUME NEW i \in 1 .. Len(channel) + 1
                 PROVE  channel'[i] = accepted'[sequence + i]
      BY <1>1, <2>2
    <3>1. CASE i \in 1 .. Len(channel)
      BY <1>2, <2>2, <2>3, <3>1
    <3>2. CASE i = Len(channel) + 1
      BY <1>2, <2>2, <2>3, <3>2
    <3> QED
      BY <2>3, <3>1, <3>2
  <2>5. Busy => trace = accepted'[sequence]
    BY <1>2, <2>2, <2>3 DEF IInv, ChannelInv
  <2>6. ChannelInv'
    <3>1. sequence' <= Len(accepted') /\ Len(accepted') = sequence' + Len(channel')
      BY <1>1, <1>2, <2>2, <2>3
    <3>2. (Busy => trace = accepted[sequence])'
      BY <1>1, <2>5 DEF Busy
    <3>3. worker' # "ended"
      BY <1>1, <1>5 DEF IInv, ChannelInv
    <3> QED
      BY <2>4, <3>1, <3>2, <3>3 DEF ChannelInv
  <2>7. GraphIsAccountedFor'
    <3>1. Settled' = Settled /\ Settled \in Int /\ Settled <= Len(accepted)
      BY <1>1, <1>2, <2>3 DEF Settled
    <3>2. \A i \in 1 .. Settled : accepted'[i] = accepted[i]
      BY <2>2, <2>3, <3>1
    <3> QED
      BY <1>1, <3>1, <3>2 DEF IInv, GraphIsAccountedFor
  <2> QED
    BY <1>3, <2>6, <2>7
<1> QED
  BY <1>4, <1>5, OfferAddsToBoth DEF IInv

LEMMA TakeKeepsInv ==
    ASSUME IInv, Take PROVE ChannelInv' /\ GraphIsAccountedFor' /\ SignatureInv' /\ ResultInv' /\ PointsInv'
<1>1. /\ channel \in Seq(Traces) /\ channel # <<>> /\ accepted \in Seq(Traces) /\ sequence \in Nat
      /\ worker = "recv" /\ worker' = "graph" /\ sequence' = sequence + 1 /\ result' = NoNode
      /\ trace' = Head(channel) /\ channel' = Tail(channel)
      /\ UNCHANGED <<process, open, graph, vectors, accepted, unwritten>>
  BY DEF IInv, TypeInv, TypeOK, Take
<1>2. /\ Len(channel) \in Nat \ {0} /\ Len(channel') = Len(channel) - 1
      /\ \A i \in 1 .. Len(channel') : channel'[i] = channel[i + 1]
      /\ trace' = channel[1]
  BY <1>1, HeadTailProperties, EmptySeq, LenProperties
<1>3. /\ Len(accepted) = sequence + Len(channel)
      /\ \A i \in 1 .. Len(channel) : channel[i] = accepted[sequence + i]
  BY <1>1 DEF IInv, ChannelInv
<1>4. \A i \in 1 .. Len(channel') : channel'[i] = accepted[sequence' + i]
  <2> SUFFICES ASSUME NEW i \in 1 .. Len(channel') PROVE channel'[i] = accepted[sequence' + i]
    OBVIOUS
  <2>1. i + 1 \in 1 .. Len(channel) /\ sequence + (i + 1) = sequence' + i
    BY <1>1, <1>2
  <2> QED
    BY <1>2, <1>3, <2>1
<1>5. trace' = accepted[sequence']
  BY <1>1, <1>2, <1>3
<1>6. ChannelInv'
  BY <1>1, <1>2, <1>3, <1>4, <1>5 DEF ChannelInv, Busy
<1>7. Settled' = Settled /\ Settled \in Int
  BY <1>1 DEF Settled
<1>8. GraphIsAccountedFor' /\ SignatureInv' /\ PointsInv'
  BY <1>1, <1>7, StoresStand DEF IInv, GraphIsAccountedFor
<1> QED
  BY <1>1, <1>6, <1>8 DEF ResultInv

\* A transaction keeps the nodes that are there, and of their contents those of
\* numbered nodes with smaller numbers.
LEMMA CommitKeepsNodes ==
    ASSUME IInv, worker = "graph", Commit, NEW node \in DOMAIN graph
    PROVE  /\ node \in DOMAIN graph'
           /\ Numbered(node) /\ node.number < sequence - 1 => graph'[node] = graph[node]
           /\ node.label = "voice_signature" => graph'[node] = graph[node]
           /\ \/ graph'[node] = graph[node]
              \/ node \in Shared
              \/ Numbered(node) /\ node.number = sequence - 1
<1>1. /\ node \in DOMAIN graph'
      /\ graph'[node] = IF node \in Written THEN trace.n ELSE graph[node]
  BY DEF Commit
<1>2. node.number \in Nat /\ sequence - 1 \in Nat /\ TypeInv /\ Busy
  BY DEF IInv, TypeInv, TypeOK, Nodes, Busy
<1>3. node \in Shared => ~Numbered(node) /\ node.label # "voice_signature"
  BY DEF Shared, Entity, Image, Voice, Node, Numbered
<1>4. node.label = "voice_signature" => ~Numbered(node) /\ graph[node] = node.number
  BY DEF Numbered, IInv, SignatureInv
<1>5. ASSUME node \in Written
      PROVE  \/ Numbered(node) /\ node.number = sequence - 1
             \/ node.label = "voice_signature" /\ node.number = trace.n
             \/ node \in Shared
  BY <1>2, <1>5, WrittenNodes
<1>6. CASE node \notin Written
  BY <1>1, <1>6
<1>7. CASE node \in Written
  <2>1. graph'[node] = trace.n
    BY <1>1, <1>7
  <2>2. CASE Numbered(node) /\ node.number = sequence - 1
    BY <1>1, <1>2, <1>4, <2>2
  <2>3. CASE node.label = "voice_signature" /\ node.number = trace.n
    BY <1>1, <1>4, <2>1, <2>3
  <2>4. CASE node \in Shared
    BY <1>1, <1>3, <2>4
  <2> QED
    BY <1>5, <1>7, <2>2, <2>3, <2>4
<1> QED
  BY <1>6, <1>7

\* So it keeps what points name.
LEMMA CommitKeepsPoints ==
    ASSUME IInv, StoreGraph, Commit PROVE SignatureInv' /\ PointsInv'
<1>1. /\ worker = "graph" /\ worker' = "vectors" /\ sequence \in Nat \ {0}
      /\ UNCHANGED <<process, sequence, trace, vectors, unwritten>>
  BY DEF IInv, TypeInv, Busy, StoreGraph, Commit
<1>2. Settled = sequence - 1 /\ Settled' = sequence
  BY <1>1 DEF Settled
<1>3. SignatureInv'
  <2> SUFFICES ASSUME NEW node \in DOMAIN graph', node.label = "voice_signature"
               PROVE  graph'[node] = node.number
    BY DEF SignatureInv
  <2>1. CASE node \in Written
    <3>1. TypeInv /\ Busy
      BY <1>1 DEF IInv, Busy
    <3>2. node.number = trace.n
      BY <2>1, <3>1, WrittenNodes DEF Numbered, Shared, Entity, Image, Voice, Node
    <3> QED
      BY <2>1, <3>2 DEF Commit
  <2>2. CASE node \notin Written
    BY <2>2 DEF Commit, IInv, SignatureInv
  <2> QED
    BY <2>1, <2>2
<1>4. ASSUME NEW point \in vectors, NEW node \in {point.node, point.artifact} \ {NoNode}
      PROVE  NamesKept(point, node)'
  <2>1. NamesKept(point, node) /\ node.number \in Nat /\ point.process <= process
    BY <1>4 DEF IInv, PointsInv, TypeInv, TypeOK, Points, Nodes
  <2>2. point.process \in Nat /\ process \in Nat
    BY <1>4 DEF IInv, TypeInv, TypeOK, Points
  <2>3. (Numbered(node) /\ point.process = process => node.number < Settled)'
    BY <1>1, <1>2, <2>1 DEF NamesKept
  <2>4. ASSUME Kept(point, node) PROVE Kept(point, node)'
    <3>1. /\ node \in DOMAIN graph'
          /\ \/ graph'[node] = graph[node]
             \/ node \in Shared
             \/ Numbered(node) /\ node.number = sequence - 1
      BY <1>1, <2>4, CommitKeepsNodes DEF Kept
    <3>2. Numbered(node) /\ node.number = sequence - 1 => point.process < process
      BY <1>1, <1>2, <2>1, <2>2 DEF NamesKept
    <3> QED
      BY <1>1, <2>4, <3>1, <3>2 DEF Kept
  <2> QED
    BY <1>1, <2>1, <2>3, <2>4 DEF NamesKept
<1>5. ASSUME NEW point \in vectors PROVE point.process <= process
  BY <1>5 DEF IInv, PointsInv
<1> QED
  BY <1>1, <1>3, <1>4, <1>5 DEF PointsInv

LEMMA CommitKeepsGraph ==
    ASSUME IInv, StoreGraph, Commit PROVE GraphIsAccountedFor' /\ ResultInv'
<1>1. /\ worker = "graph" /\ worker' = "vectors" /\ sequence \in Nat \ {0} /\ Busy /\ TypeInv
      /\ trace \in Traces /\ trace = accepted[sequence]
      /\ UNCHANGED <<process, sequence, trace, accepted, unwritten>>
  BY DEF IInv, TypeInv, ChannelInv, Busy, StoreGraph, Commit
<1>2. Settled = sequence - 1 /\ Settled' = sequence
  BY <1>1 DEF Settled
<1>3. \A node \in Written : node \in DOMAIN graph' /\ graph'[node] = trace.n
  BY DEF Commit
<1>4. Primary \in Written
  BY <1>1, WrittenNodes
<1>5. Primary' = Primary /\ Written' = Written
  BY <1>1 DEF Primary, OwnNode, Written, Subjects
<1>6. ResultInv'
  BY <1>1, <1>3, <1>4, <1>5 DEF ResultInv, Commit
<1>7. ASSUME NEW i \in 1 .. sequence
      PROVE  \/ accepted[i] \in unwritten
             \/ /\ OwnNode(accepted[i], i - 1) \in DOMAIN graph'
                /\ graph'[OwnNode(accepted[i], i - 1)] = accepted[i].n
  <2> DEFINE node == OwnNode(accepted[i], i - 1)
  <2>1. CASE i = sequence
    BY <1>1, <1>3, <1>4, <2>1 DEF Primary
  <2>2. CASE i < sequence
    <3>1. i \in 1 .. Settled
      BY <1>1, <1>2, <2>2
    <3>2. accepted[i] \in unwritten \/ (node \in DOMAIN graph /\ graph[node] = accepted[i].n)
      BY <3>1 DEF IInv, GraphIsAccountedFor
    <3>3. accepted[i].kind \in Kinds
      <4>1. accepted \in Seq(Traces) /\ i \in 1 .. Len(accepted)
        BY <1>1, LenProperties DEF IInv, TypeOK, TypeInv, ChannelInv
      <4>2. accepted[i] \in Traces
        BY <4>1, ElementOfSeq
      <4> QED
        BY <4>2 DEF Traces
    <3>4. node.label = "voice_signature" \/ (Numbered(node) /\ node.number < sequence - 1)
      BY <1>1, <2>2, <3>3 DEF OwnNode, Node, Numbered, Kinds
    <3>5. node \in DOMAIN graph => node \in DOMAIN graph' /\ graph'[node] = graph[node]
      <4> HIDE DEF node
      <4> QED
        BY <1>1, <3>4, CommitKeepsNodes
    <3> QED
      BY <3>2, <3>5
  <2> QED
    BY <1>1, <2>1, <2>2
<1>8. GraphIsAccountedFor'
  BY <1>1, <1>2, <1>7 DEF GraphIsAccountedFor
<1> QED
  BY <1>6, <1>8

LEMMA StoreGraphKeepsInv ==
    ASSUME IInv, StoreGraph PROVE ChannelInv' /\ GraphIsAccountedFor' /\ SignatureInv' /\ ResultInv' /\ PointsInv'
<1>1. /\ worker = "graph" /\ worker' = "vectors" /\ sequence \in Nat \ {0}
      /\ trace \in Traces /\ trace = accepted[sequence] /\ result = NoNode
      /\ UNCHANGED <<process, open, channel, sequence, trace, vectors, accepted>>
  BY DEF IInv, TypeInv, TypeOK, ChannelInv, ResultInv, Busy, StoreGraph
<1>2. ChannelInv'
  BY <1>1 DEF IInv, ChannelInv, Busy
<1>3. Settled = sequence - 1 /\ Settled' = sequence
  BY <1>1 DEF Settled
<1>4. CASE Commit
  BY <1>2, <1>4, CommitKeepsPoints, CommitKeepsGraph
<1>5. CASE GraphFails
  <2>1. GraphIsAccountedFor'
    <3> SUFFICES ASSUME NEW i \in 1 .. sequence
                 PROVE  \/ accepted[i] \in unwritten'
                        \/ /\ OwnNode(accepted[i], i - 1) \in DOMAIN graph
                           /\ graph[OwnNode(accepted[i], i - 1)] = accepted[i].n
      BY <1>1, <1>3, <1>5 DEF GraphIsAccountedFor, GraphFails
    <3>1. i = sequence \/ i \in 1 .. Settled
      BY <1>1, <1>3
    <3> QED
      BY <1>1, <1>5, <3>1 DEF IInv, GraphIsAccountedFor, GraphFails
  <2>2. ResultInv'
    BY <1>1, <1>5 DEF ResultInv, GraphFails
  <2>3. SignatureInv' /\ PointsInv'
    <3>1. UNCHANGED <<process, graph, vectors>> /\ unwritten \subseteq unwritten'
      BY <1>1, <1>5 DEF GraphFails
    <3>2. Settled \in Int /\ Settled' \in Int /\ Settled <= Settled'
      BY <1>1, <1>3
    <3> QED
      BY <3>1, <3>2, StoresStand
  <2> QED
    BY <1>2, <2>1, <2>2, <2>3
<1> QED
  BY <1>4, <1>5 DEF StoreGraph

LEMMA StoreVectorsKeepsInv ==
    ASSUME IInv, StoreVectors
    PROVE  ChannelInv' /\ GraphIsAccountedFor' /\ SignatureInv' /\ ResultInv' /\ PointsInv'
<1>1. /\ worker = "vectors" /\ worker' = "recv" /\ sequence \in Nat \ {0} /\ trace \in Traces
      /\ vectors' \subseteq vectors \cup Documents /\ Busy /\ TypeInv /\ process \in Nat
      /\ UNCHANGED <<process, open, channel, sequence, trace, result, graph, accepted, unwritten>>
  BY DEF IInv, TypeInv, TypeOK, Busy, StoreVectors
<1>2. Settled' = Settled /\ Settled = sequence
  BY <1>1 DEF Settled
<1>3. ChannelInv' /\ GraphIsAccountedFor' /\ SignatureInv' /\ ResultInv'
  BY <1>1, <1>2 DEF IInv, ChannelInv, Busy, GraphIsAccountedFor, SignatureInv, ResultInv
<1>4. ASSUME NEW point \in Documents, NEW node \in {point.node, point.artifact} \ {NoNode}
      PROVE  NamesKept(point, node)
  <2>1. /\ point.of = trace /\ point.process = process
        /\ node \in Written \cup {result}
        /\ node = point.artifact /\ Numbered(node) => node = result
    BY <1>1, <1>4, DocumentPoints
  <2>2. /\ result \in {NoNode, Primary}
        /\ result # NoNode => Primary \in DOMAIN graph /\ graph[Primary] = trace.n
        /\ trace \in unwritten \/ \A n \in Written : n \in DOMAIN graph /\ graph[n] = trace.n
    BY <1>1 DEF IInv, ResultInv
  <2>3. node \in Written
    BY <1>1, <1>4, <2>1, <2>2, WrittenNodes
  <2>4. Numbered(node) => node.number = sequence - 1
    BY <1>1, <2>3, WrittenNodes DEF Numbered, Shared, Entity, Image, Voice, Node
  <2>5. node = result => Kept(point, node)
    BY <1>4, <2>1, <2>2 DEF Kept
  <2>6. trace \in unwritten \/ Kept(point, node)
    BY <2>1, <2>2, <2>3 DEF Kept
  <2> QED
    BY <1>1, <1>2, <2>1, <2>4, <2>5, <2>6 DEF NamesKept
<1>5. ASSUME NEW point \in vectors', NEW node \in {point.node, point.artifact} \ {NoNode}
      PROVE  NamesKept(point, node)
  BY <1>1, <1>4, <1>5 DEF IInv, PointsInv
<1>6. ASSUME NEW point \in vectors' PROVE point.process <= process
  BY <1>1, <1>6, DocumentPoints DEF IInv, PointsInv
<1>7. PointsInv'
  BY <1>1, <1>2, <1>5, <1>6 DEF PointsInv, NamesKept, Kept
<1> QED
  BY <1>3, <1>7

LEMMA WorkerStopsKeepsInv ==
    ASSUME IInv, WorkerEnds \/ WorkerDies
    PROVE  ChannelInv' /\ GraphIsAccountedFor' /\ SignatureInv' /\ ResultInv' /\ PointsInv'
<1>1. CASE WorkerEnds
  <2>1. /\ worker = "recv" /\ worker' = "ended" /\ channel = <<>> /\ ~open
        /\ UNCHANGED <<process, open, channel, sequence, trace, result, graph, vectors, accepted, unwritten>>
    BY <1>1 DEF WorkerEnds
  <2>2. Settled' = Settled /\ Settled \in Int
    BY <2>1 DEF Settled, IInv, TypeInv, TypeOK
  <2>3. SignatureInv' /\ PointsInv'
    BY <2>1, <2>2, StoresStand
  <2> QED
    BY <2>1, <2>2, <2>3 DEF IInv, ChannelInv, Busy, GraphIsAccountedFor, ResultInv
<1>2. CASE WorkerDies
  <2>1. /\ Busy /\ worker' = "dead" /\ sequence \in Nat \ {0} /\ trace = accepted[sequence]
        /\ unwritten' = IF worker = "graph" THEN unwritten \cup {trace} ELSE unwritten
        /\ UNCHANGED <<process, open, sequence, trace, result, graph, vectors, accepted>>
    BY <1>2 DEF WorkerDies, Busy, IInv, TypeInv, TypeOK, ChannelInv
  <2>2. Settled' = sequence /\ (Settled = sequence \/ (worker = "graph" /\ Settled = sequence - 1))
    BY <2>1 DEF Settled, Busy
  <2>3. ChannelInv' /\ ResultInv'
    BY <2>1 DEF IInv, ChannelInv, ResultInv, Busy
  <2>4. GraphIsAccountedFor'
    <3> SUFFICES ASSUME NEW i \in 1 .. sequence
                 PROVE  \/ accepted[i] \in unwritten'
                        \/ /\ OwnNode(accepted[i], i - 1) \in DOMAIN graph
                           /\ graph[OwnNode(accepted[i], i - 1)] = accepted[i].n
      BY <2>1, <2>2 DEF GraphIsAccountedFor
    <3>1. i \in 1 .. Settled \/ (i = sequence /\ worker = "graph")
      BY <2>1, <2>2
    <3> QED
      BY <2>1, <3>1 DEF IInv, GraphIsAccountedFor
  <2>5. SignatureInv' /\ PointsInv'
    <3>1. Settled \in Int /\ Settled' \in Int /\ Settled <= Settled' /\ unwritten \subseteq unwritten'
      BY <2>1, <2>2
    <3> QED
      BY <2>1, <3>1, StoresStand
  <2> QED
    BY <2>3, <2>4, <2>5
<1> QED
  BY <1>1, <1>2

LEMMA ProcessKeepsInv ==
    ASSUME IInv, CloseSink \/ Restart \/ UNCHANGED vars
    PROVE  ChannelInv' /\ GraphIsAccountedFor' /\ SignatureInv' /\ ResultInv' /\ PointsInv'
<1>1. CASE Restart
  <2>1. /\ process' = process + 1 /\ channel' = <<>> /\ accepted' = <<>> /\ worker' = "recv"
        /\ sequence' = 0 /\ UNCHANGED <<vectors, graph, unwritten>>
    BY <1>1 DEF Restart
  <2>2. ChannelInv' /\ ResultInv'
    BY <2>1 DEF ChannelInv, ResultInv, Busy
  <2>3. GraphIsAccountedFor'
    BY <2>1 DEF GraphIsAccountedFor, Settled
  <2>4. \A point \in vectors : point.process \in Nat /\ point.process <= process
    BY DEF IInv, PointsInv, TypeInv, TypeOK, Points
  <2>5. ASSUME NEW point \in vectors, NEW node \in {point.node, point.artifact} \ {NoNode}
        PROVE  NamesKept(point, node)'
    <3>1. NamesKept(point, node) /\ point.process \in Nat /\ point.process <= process /\ process \in Nat
      BY <2>4, <2>5 DEF IInv, PointsInv, TypeInv, TypeOK
    <3> QED
      BY <2>1, <3>1 DEF NamesKept, Kept
  <2>6. PointsInv' /\ SignatureInv'
    BY <2>1, <2>4, <2>5 DEF PointsInv, SignatureInv, IInv, TypeInv, TypeOK
  <2> QED
    BY <2>2, <2>3, <2>6
<1>2. CASE CloseSink \/ UNCHANGED vars
  <2>1. /\ UNCHANGED <<process, channel, worker, sequence, trace, result, graph, vectors, accepted, unwritten>>
        /\ ~open => ~open'
    BY <1>2 DEF CloseSink, vars, coldVars
  <2>2. ChannelInv'
    BY <2>1 DEF IInv, ChannelInv, Busy
  <2>3. GraphIsAccountedFor' /\ ResultInv'
    BY <2>1 DEF IInv, GraphIsAccountedFor, ResultInv, Settled, Primary, OwnNode, Written, Subjects
  <2>4. Settled' = Settled /\ Settled \in Int
    BY <2>1 DEF Settled, IInv, TypeInv, TypeOK
  <2> QED
    BY <2>1, <2>2, <2>3, <2>4, StoresStand
<1> QED
  BY <1>1, <1>2

LEMMA InvariantHolds == Spec => []IInv
<1>1. Init => IInv
  <2> SUFFICES ASSUME Init PROVE IInv
    OBVIOUS
  <2>1. TypeInv
    BY InitType
  <2>2. ChannelInv /\ ResultInv
    BY DEF Init, ChannelInv, ResultInv, Busy
  <2>3. GraphIsAccountedFor /\ SignatureInv /\ PointsInv
    BY DEF Init, GraphIsAccountedFor, SignatureInv, PointsInv, Settled
  <2> QED
    BY <2>1, <2>2, <2>3 DEF IInv
<1>2. IInv /\ [Next]_vars => IInv'
  <2>1. IInv /\ [Next]_vars => TypeInv'
    BY SubmitKeepsType, StoreGraphKeepsType, WorkerKeepsType, ProcessKeepsType DEF Next, IInv
  <2>2. IInv /\ [Next]_vars => ChannelInv' /\ GraphIsAccountedFor' /\ SignatureInv' /\ ResultInv' /\ PointsInv'
    BY SubmitKeepsInv, TakeKeepsInv, StoreGraphKeepsInv, StoreVectorsKeepsInv, WorkerStopsKeepsInv,
       ProcessKeepsInv DEF Next
  <2> QED
    BY <2>1, <2>2 DEF IInv
<1> QED
  BY <1>1, <1>2, PTL DEF Spec

\* What the channel accepted, and no more, is in the graph under the number of
\* its place or is known to be unwritten; an ended worker has taken all of it.
THEOREM NothingAcceptedIsLost == Spec => []AcceptedIsAccountedFor
<1>1. IInv => AcceptedIsAccountedFor
  BY EmptySeq DEF IInv, AcceptedIsAccountedFor, ChannelInv, TypeInv, TypeOK
<1> QED
  BY <1>1, InvariantHolds, PTL

\* What a point names holds its trace, is shared or was written over after a
\* restart; or the trace was never written and the name is not an answer's.
THEOREM PointsAreTrue == Spec => []PointsNameTheirTrace
<1>1. IInv => PointsNameTheirTrace
  BY DEF IInv, PointsInv, NamesKept, PointsNameTheirTrace
<1> QED
  BY <1>1, InvariantHolds, PTL

\* What finished lines give back, and what was acknowledged and they do not.
OnLines == {line[1].of : line \in {l \in ToSet(lines) : Parses(l)}}
Unheard == acked \ OnLines

\* A torn piece that still waits for an end of line has its cost before it.
JournalInv ==
    /\ IsFiniteSet(acked)
    /\ tail = <<>> => Cardinality(Unheard) <= tears
    /\ tail # <<>> => Cardinality(Unheard) + 1 <= tears

\* A line that is finished stays in the file, and what it gives back too.
LEMMA LinesStay ==
    ASSUME JournalTypeOK, NEW line \in Seq(Pieces), lines' = Append(lines, line)
    PROVE  /\ OnLines \subseteq OnLines'
           /\ Parses(line) => line[1].of \in OnLines'
<1> DEFINE longer == Append(lines, line)
<1>1. lines \in Seq(Seq(Pieces)) /\ Len(lines) \in Nat
  BY LenProperties DEF JournalTypeOK
<1>2. /\ DOMAIN lines = 1 .. Len(lines) /\ DOMAIN longer = 1 .. Len(lines) + 1
      /\ longer[Len(lines) + 1] = line
      /\ \A i \in 1 .. Len(lines) : longer[i] = lines[i]
  <2>1. longer \in Seq(Seq(Pieces)) /\ Len(longer) = Len(lines) + 1
    BY <1>1, AppendProperties
  <2>2. /\ longer[Len(lines) + 1] = line
        /\ \A i \in 1 .. Len(lines) : longer[i] = lines[i]
    BY <1>1, AppendProperties
  <2>3. DOMAIN lines = 1 .. Len(lines)
    BY <1>1, LenProperties
  <2>4. DOMAIN longer = 1 .. Len(longer)
    <3> HIDE DEF longer
    <3> QED
      BY <2>1, LenProperties
  <2> QED
    BY <2>1, <2>2, <2>3, <2>4
<1> HIDE DEF longer
<1>3. line \in ToSet(longer) /\ ToSet(lines) \subseteq ToSet(longer)
  <2>1. Len(lines) + 1 \in DOMAIN longer
    BY <1>1, <1>2
  <2>2. line \in ToSet(longer)
    BY <1>2, <2>1 DEF ToSet
  <2>3. ASSUME NEW i \in DOMAIN lines PROVE lines[i] \in ToSet(longer)
    <3>1. i \in DOMAIN longer /\ longer[i] = lines[i]
      BY <1>1, <1>2
    <3> QED
      BY <3>1 DEF ToSet
  <2> QED
    BY <2>2, <2>3 DEF ToSet
<1>4. OnLines' = {l[1].of : l \in {k \in ToSet(longer) : Parses(k)}}
  BY DEF OnLines, Parses, longer
<1> QED
  BY <1>3, <1>4 DEF OnLines

LEMMA AppendLineKeepsJournal ==
    ASSUME JournalTypeOK, JournalInv, NEW n \in Nat, AppendLine(n)
    PROVE  JournalInv'
<1> DEFINE piece == [of |-> n, whole |-> TRUE]
           line == Append(tail, piece)
<1>1. piece \in Pieces /\ tail \in Seq(Pieces) /\ tears \in Nat
  BY DEF JournalTypeOK, Pieces
<1>2. line \in Seq(Pieces)
  BY <1>1, AppendProperties
<1>3. acked' = acked \cup {n} /\ tail' = <<>> /\ tears' = tears /\ lines' = Append(lines, line)
  BY DEF AppendLine
<1>4. OnLines \subseteq OnLines' /\ (Parses(line) => line[1].of \in OnLines')
  BY <1>2, <1>3, LinesStay
<1>5. IsFiniteSet(acked) /\ IsFiniteSet(acked') /\ IsFiniteSet(Unheard)
  BY <1>3, FS_AddElement, FS_Subset DEF JournalInv, Unheard
<1>6. Cardinality(Unheard) \in Nat /\ IsFiniteSet(Unheard')
  BY <1>5, FS_CardinalityType, FS_Subset DEF Unheard
<1>7. CASE tail = <<>>
  <2>1. line = <<piece>>
    BY <1>7
  <2>2. n \in OnLines'
    BY <1>4, <2>1 DEF Parses
  <2>3. Unheard' \subseteq Unheard
    BY <1>3, <1>4, <2>2 DEF Unheard
  <2>4. Cardinality(Unheard') <= Cardinality(Unheard) /\ Cardinality(Unheard') \in Nat
    BY <1>5, <1>6, <2>3, FS_Subset, FS_CardinalityType
  <2> QED
    BY <1>1, <1>3, <1>5, <1>6, <1>7, <2>4 DEF JournalInv
<1>8. CASE tail # <<>>
  <2>1. Unheard' \subseteq Unheard \cup {n}
    BY <1>3, <1>4 DEF Unheard
  <2>2. /\ IsFiniteSet(Unheard \cup {n})
        /\ Cardinality(Unheard \cup {n}) \in {Cardinality(Unheard), Cardinality(Unheard) + 1}
    BY <1>5, FS_AddElement
  <2>3. Cardinality(Unheard') <= Cardinality(Unheard \cup {n}) /\ Cardinality(Unheard') \in Nat
    BY <1>6, <2>1, <2>2, FS_Subset, FS_CardinalityType
  <2> QED
    BY <1>1, <1>3, <1>5, <1>6, <1>8, <2>2, <2>3 DEF JournalInv
<1> QED
  BY <1>7, <1>8

LEMMA TearKeepsJournal ==
    ASSUME JournalTypeOK, JournalInv, NEW n \in Nat, Tear(n)
    PROVE  JournalInv'
<1>1. UNCHANGED <<lines, acked>> /\ tears' = tears + 1 /\ tears \in Nat
  BY DEF Tear, JournalTypeOK
<1>2. tail' # <<>>
  <2>1. PICK whole \in BOOLEAN : tail' = Append(tail, [of |-> n, whole |-> whole])
    BY DEF Tear
  <2>2. tail \in Seq(Pieces) /\ [of |-> n, whole |-> whole] \in Pieces
    BY DEF JournalTypeOK, Pieces
  <2> QED
    BY <2>1, <2>2
<1>3. Unheard' = Unheard
  BY <1>1 DEF Unheard, OnLines
<1>4. Cardinality(Unheard) \in Nat
  BY FS_Subset, FS_CardinalityType DEF JournalInv, Unheard
<1> QED
  BY <1>1, <1>2, <1>3, <1>4 DEF JournalInv

LEMMA JournalInductive == TypeOK /\ JournalInv /\ [Next]_vars => JournalInv'
<1> SUFFICES ASSUME TypeOK, JournalInv, [Next]_vars PROVE JournalInv'
  OBVIOUS
<1>1. CASE UNCHANGED journalVars
  BY <1>1 DEF journalVars, JournalInv, Unheard, OnLines
<1>2. ASSUME NEW kind \in Kinds, Submit(kind) PROVE JournalInv'
  <2>1. submitted + 1 \in Nat /\ JournalTypeOK
    BY ColdMemoryAssumption DEF TypeOK
  <2> QED
    BY <1>1, <1>2, <2>1, AppendLineKeepsJournal, TearKeepsJournal DEF Submit, Offer
<1>3. CASE CloseSink \/ Restart \/ Take \/ StoreGraph \/ StoreVectors \/ WorkerEnds \/ WorkerDies
  BY <1>1, <1>3 DEF CloseSink, Restart, Take, StoreGraph, StoreVectors, WorkerEnds, WorkerDies
<1>4. CASE UNCHANGED vars
  BY <1>1, <1>4 DEF vars
<1> QED
  BY <1>2, <1>3, <1>4 DEF Next

\* Each write that was cut short costs at most one acknowledged entry.
THEOREM TearsAreCheap == Spec => []TearCostsOneEntry
<1>1. Init => JournalInv
  <2> SUFFICES ASSUME Init PROVE JournalInv
    OBVIOUS
  <2>1. acked = {} /\ tail = <<>> /\ tears = 0 /\ Unheard = {}
    BY DEF Init, JournalInit, Unheard
  <2> QED
    BY <2>1, FS_EmptySet DEF JournalInv
<1>2. TypeOK /\ JournalInv => TearCostsOneEntry
  <2> SUFFICES ASSUME TypeOK, JournalInv PROVE TearCostsOneEntry
    OBVIOUS
  <2>1. IsFiniteSet(Unheard) /\ tears \in Nat
    BY FS_Subset DEF JournalInv, Unheard, TypeOK, JournalTypeOK
  <2>2. acked \ Replayed \subseteq Unheard
    BY DEF Replayed, Unheard, OnLines
  <2>3. /\ Cardinality(acked \ Replayed) <= Cardinality(Unheard)
        /\ Cardinality(acked \ Replayed) \in Nat /\ Cardinality(Unheard) \in Nat
    BY <2>1, <2>2, FS_Subset, FS_CardinalityType
  <2> QED
    BY <2>1, <2>3 DEF JournalInv, TearCostsOneEntry
<1> QED
  BY <1>1, <1>2, JournalInductive, TypeCorrect, PTL DEF Spec
=============================================================================
