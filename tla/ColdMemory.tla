------------------------------ MODULE ColdMemory ------------------------------
(***************************************************************************)
(* Where the runtime's memory traces go: the sinks and the cold worker in  *)
(* src/memory/sink.rs, worker.rs and journal.rs, with the identifiers that *)
(* neo4j.rs and qdrant.rs give to what they store.  A process hands traces *)
(* to its sink, which never blocks; the worker numbers the traces it takes *)
(* from zero, writes each to the graph and then its vectors.  The stores   *)
(* outlive the process; the number does not.                               *)
(*                                                                         *)
(* Of the databases is kept, for each node, the trace that last wrote its  *)
(* properties, and of each point of the vector store the two nodes that    *)
(* its payload names.  The prefix neo4j:: of the names that the graph's    *)
(* answer gives is left out.                                               *)
(***************************************************************************)
EXTENDS MemoryJournal

CONSTANTS Capacity,      \* capacity of the channel
          MaxTraces,     \* bound: traces of all processes
          MaxProcesses,  \* bound: runs of the program
          MaxPoints      \* bound: points that the vector store takes

ASSUME ColdMemoryAssumption ==
    /\ Capacity \in Nat \ {0} /\ MaxTraces \in Nat \ {0} /\ MaxProcesses \in Nat \ {0}
    /\ MaxPoints \in Nat

VARIABLES sink,      \* the runtime's MemorySink: "channel" or "journal"
          process,   \* the run of the program, from 1
          submitted, \* number of traces handed to a sink so far
          open,      \* the runtime still holds its sink
          channel,   \* traces waiting in the channel
          worker,    \* what the worker is at
          sequence,  \* number of the next trace it takes
          trace,     \* the trace it is working on
          result,    \* node that the graph write of that trace returned
          graph,     \* node -> number of the trace that last wrote it
          vectors,   \* points of the vector store
          accepted,  \* history: what the channel of this process accepted
          unwritten  \* history: traces whose graph write did not happen

coldVars == <<process, submitted, open, channel, worker, sequence, trace, result, graph,
              vectors, accepted, unwritten>>
vars == <<journalVars, sink, coldVars>>

\* A trace of a conversation turn writes a node of its own, named by the trace's
\* number, and so do the traces of words, playback, scenes, overlaps and recalls.
\* Others also write a node that their content names and other traces may share:
\* an entity extraction (and an analysis, and an update) that of an entity, an
\* image its picture, a voice the speaker's.  The voice's own node is named by
\* its signature, which is new for every trace.  One entity, one picture and one
\* voice stand for all: that traces share them is what could go wrong.
Kinds == {"conversation_turn", "entity_extraction", "image_observation", "voice_signature"}
Traces == [n : 1 .. MaxTraces, kind : Kinds]
Labels == Kinds \cup {"memory_trace_event", "entity", "image_artifact", "voice", "none"}
Nodes == [label : Labels, number : Nat]
Node(label, number) == [label |-> label, number |-> number]
Entity == Node("entity", 0)
Image == Node("image_artifact", 0)
Voice == Node("voice", 0)
Shared == {Entity, Image, Voice}
NoNode == Node("none", 0)
NoTrace == [n |-> 0, kind |-> "none"]
Points == [of : Traces, process : 1 .. MaxProcesses, node : Nodes, artifact : Nodes]

TypeOK ==
    /\ JournalTypeOK
    /\ sink \in {"channel", "journal"}
    /\ process \in 1 .. MaxProcesses /\ submitted \in 0 .. MaxTraces
    /\ open \in BOOLEAN
    /\ channel \in Seq(Traces) /\ Len(channel) <= Capacity
    /\ worker \in {"recv", "graph", "vectors", "ended", "dead"}
    /\ sequence \in Nat
    /\ trace \in Traces \cup {NoTrace}
    /\ result \in Nodes
    /\ graph \in [DOMAIN graph -> 1 .. MaxTraces] /\ DOMAIN graph \subseteq Nodes
    /\ vectors \subseteq Points
    /\ accepted \in Seq(Traces)
    /\ unwritten \subseteq Traces

Init ==
    /\ JournalInit
    /\ sink \in {"channel", "journal"}
    /\ process = 1 /\ submitted = 0 /\ open = TRUE
    /\ channel = <<>> /\ worker = "recv" /\ sequence = 0
    /\ trace = NoTrace /\ result = NoNode
    /\ graph = <<>> /\ vectors = {} /\ accepted = <<>> /\ unwritten = {}

(***************************************************************************)
(* The runtime.                                                            *)
(***************************************************************************)
\* Mutant: a full channel loses its oldest trace.
OfferDropsOldest(t) ==
    /\ IF worker # "dead"
         THEN /\ channel' = Append(IF Len(channel) < Capacity THEN channel ELSE Tail(channel), t)
              /\ accepted' = Append(accepted, t)
         ELSE UNCHANGED <<channel, accepted>>
    /\ UNCHANGED journalVars

\* try_send: full, or without a receiver, the trace is dropped in silence.
Offer(t) ==
    /\ IF Len(channel) < Capacity /\ worker # "dead"
         THEN channel' = Append(channel, t) /\ accepted' = Append(accepted, t)
         ELSE UNCHANGED <<channel, accepted>>
    /\ UNCHANGED journalVars

Submit(kind) ==
    /\ open /\ submitted < MaxTraces
    /\ submitted' = submitted + 1
    /\ \/ sink = "channel" /\ Offer([n |-> submitted + 1, kind |-> kind])
       \/ /\ sink = "journal" /\ (AppendLine(submitted + 1) \/ Tear(submitted + 1))
          /\ UNCHANGED <<channel, accepted>>
    /\ UNCHANGED <<sink, process, open, worker, sequence, trace, result, graph, vectors, unwritten>>

\* The last handle of the sink goes, and with it the sending end.
CloseSink ==
    /\ open /\ open' = FALSE
    /\ UNCHANGED <<journalVars, sink, process, submitted, channel, worker, sequence, trace, result,
                   graph, vectors, accepted, unwritten>>

\* The program ends, at any moment, and is started again: nobody joins the
\* worker, and what was in the channel is gone.
Restart ==
    /\ process < MaxProcesses
    /\ process' = process + 1 /\ open' = TRUE
    /\ channel' = <<>> /\ accepted' = <<>>
    /\ worker' = "recv" /\ sequence' = 0 /\ trace' = NoTrace /\ result' = NoNode
    /\ UNCHANGED <<journalVars, sink, submitted, graph, vectors, unwritten>>

(***************************************************************************)
(* The worker.                                                             *)
(***************************************************************************)
\* Mutant: the result of the trace before is kept.
TakeKeepsResult ==
    /\ sink = "channel" /\ worker = "recv" /\ channel # <<>>
    /\ trace' = Head(channel) /\ channel' = Tail(channel)
    /\ worker' = "graph" /\ sequence' = sequence + 1
    /\ UNCHANGED <<journalVars, sink, process, submitted, open, result, graph, vectors, accepted,
                   unwritten>>

Take ==
    /\ sink = "channel" /\ worker = "recv" /\ channel # <<>>
    /\ trace' = Head(channel) /\ channel' = Tail(channel)
    /\ worker' = "graph" /\ sequence' = sequence + 1 /\ result' = NoNode
    /\ UNCHANGED <<journalVars, sink, process, submitted, open, graph, vectors, accepted, unwritten>>

\* The node of a trace with its number.
OwnNode(t, number) == Node(t.kind, IF t.kind = "voice_signature" THEN t.n ELSE number)

\* enumerate: the trace at work has the number before the next one.
Primary == OwnNode(trace, sequence - 1)
Subjects == [conversation_turn |-> {}, entity_extraction |-> {Entity},
             image_observation |-> {Image}, voice_signature |-> {Voice}][trace.kind]
Written == {Primary, Node("memory_trace_event", sequence - 1)} \cup Subjects

\* One transaction MERGEs all nodes of the trace.  A reply that is lost or late
\* is an error of a write that did happen.
Commit ==
    /\ graph' = [node \in DOMAIN graph \cup Written |->
                    IF node \in Written THEN trace.n ELSE graph[node]]
    /\ result' \in {Primary, NoNode}
    /\ UNCHANGED unwritten

\* Or there is no graph store.
GraphFails ==
    /\ unwritten' = unwritten \cup {trace}
    /\ UNCHANGED <<graph, result>>

StoreGraph ==
    /\ worker = "graph" /\ (Commit \/ GraphFails)
    /\ worker' = "vectors"
    /\ UNCHANGED <<journalVars, sink, process, submitted, open, channel, sequence, trace, vectors,
                   accepted>>

Point(node, artifact) ==
    [of |-> trace, process |-> process, node |-> node, artifact |-> artifact]

\* graph_node_id and artifact_node_id of the trace's own document: from the
\* graph's answer, or from the trace, whatever the graph answered.
OwnPoint ==
    [conversation_turn |-> Point(result, result), entity_extraction |-> Point(Entity, result),
     image_observation |-> Point(Image, Image), voice_signature |-> Point(Voice, Primary)][trace.kind]

\* Every node of the write has a description, which names it, written or not.
Documents == {OwnPoint} \cup {Point(node, result) : node \in Written}

\* Embeddings that fail or are not configured and collections that refuse their
\* points leave documents out; a new point never replaces another.
StoreVectors ==
    /\ worker = "vectors"
    /\ \E stored \in SUBSET Documents :
          /\ Cardinality(vectors \cup stored) <= MaxPoints
          /\ vectors' = vectors \cup stored
    /\ worker' = "recv"
    /\ UNCHANGED <<journalVars, sink, process, submitted, open, channel, sequence, trace, result,
                   graph, accepted, unwritten>>

\* The iteration over the receiver ends with its last sender, when it is empty.
WorkerEnds ==
    /\ sink = "channel" /\ worker = "recv" /\ channel = <<>> /\ ~open
    /\ worker' = "ended"
    /\ UNCHANGED <<journalVars, sink, process, submitted, open, channel, sequence, trace, result,
                   graph, vectors, accepted, unwritten>>

\* A panic in a client drops the receiver with all that it held.
WorkerDies ==
    /\ worker \in {"graph", "vectors"}
    /\ worker' = "dead" /\ channel' = <<>>
    /\ unwritten' = IF worker = "graph" THEN unwritten \cup {trace} ELSE unwritten
    /\ UNCHANGED <<journalVars, sink, process, submitted, open, sequence, trace, result, graph,
                   vectors, accepted>>

Next ==
    \/ \E kind \in Kinds : Submit(kind)
    \/ CloseSink
    \/ Restart
    \/ Take
    \/ StoreGraph
    \/ StoreVectors
    \/ WorkerEnds
    \/ WorkerDies

Spec == Init /\ [][Next]_vars

(***************************************************************************)
(* Safety.                                                                 *)
(***************************************************************************)
\* Number of traces of this process whose graph write is over.
Settled == IF worker = "graph" THEN sequence - 1 ELSE sequence

\* The graph holds every trace of this process that the worker is done with,
\* under the number of its place among those the channel accepted, unless its
\* write did not happen: dropped traces, failures and what earlier processes
\* left never shift, repeat or hide one.
GraphIsAccountedFor ==
    \A i \in 1 .. Settled :
        LET t == accepted[i] node == OwnNode(t, i - 1)
        IN t \in unwritten \/ (node \in DOMAIN graph /\ graph[node] = t.n)

\* What the channel accepts is neither lost nor taken twice: the graph accounts
\* for it, and a worker that came to its end has worked on all of it.
AcceptedIsAccountedFor ==
    /\ GraphIsAccountedFor
    /\ worker = "ended" => sequence = Len(accepted)

\* Nodes named by a number that the next process gives again.
Numbered(node) ==
    node.label \in {"conversation_turn", "entity_extraction", "image_observation",
                    "memory_trace_event"}

\* A node that a point names holds the point's trace, or is shared with others,
\* or was written over after a restart.
Kept(point, node) ==
    /\ node \in DOMAIN graph
    /\ \/ graph[node] = point.of.n
       \/ node \in Shared
       \/ Numbered(node) /\ point.process < process

\* What a point names is kept in the graph, whatever the answer to the write of
\* its trace was, unless that write did not happen and the name is the trace's
\* own: an artifact that only the graph's answer names was always written.
\* (The others may be missing, or another trace's: README, Observations.)
PointsNameTheirTrace ==
    \A point \in vectors : \A node \in {point.node, point.artifact} \ {NoNode} :
        \/ Kept(point, node)
        \/ point.of \in unwritten /\ ~(node = point.artifact /\ Numbered(node))
=============================================================================
