---------------------------- MODULE MemoryJournal ----------------------------
(***************************************************************************)
(* The append-only journal of memory traces: MemoryJournal and its sink in *)
(* src/memory/journal.rs.  An append writes one line under a mutex; a full *)
(* disk or the end of the process may cut it short, and what was written   *)
(* stays on the disk.  A line is a sequence of pieces: the entries, whole  *)
(* or torn, that were written since the last end of line.                  *)
(***************************************************************************)
EXTENDS Integers, FiniteSets, Sequences, SequencesExt

VARIABLES lines,  \* the finished lines of the file
          tail,   \* pieces after the last end of line
          acked,  \* history: traces whose append returned Ok
          tears   \* history: number of appends that were cut short

journalVars == <<lines, tail, acked, tears>>

Pieces == [of : Nat, whole : BOOLEAN]

JournalTypeOK ==
    /\ lines \in Seq(Seq(Pieces)) /\ tail \in Seq(Pieces)
    /\ acked \subseteq Nat /\ tears \in Nat

JournalInit == lines = <<>> /\ tail = <<>> /\ acked = {} /\ tears = 0

AppendLine(n) ==
    /\ lines' = Append(lines, Append(tail, [of |-> n, whole |-> TRUE]))
    /\ tail' = <<>> /\ acked' = acked \cup {n}
    /\ UNCHANGED tears

\* write_all fails part of the way, with or without the whole of the entry but
\* never with its end of line; the caller logs the error, or is gone.
Tear(n) ==
    /\ \E whole \in BOOLEAN : tail' = Append(tail, [of |-> n, whole |-> whole])
    /\ tears' = tears + 1
    /\ UNCHANGED <<lines, acked>>

\* serde_json::from_str: a line is one entry and nothing else.
Parses(line) == Len(line) = 1 /\ line[1].whole

Replayed == {line[1].of : line \in {l \in ToSet(lines) \cup {tail} : Parses(l)}}

\* "A corrupt write (power loss, partial flush) never prevents replay of the
\* surrounding entries" (journal.rs): an entry whose append was acknowledged is
\* replayed, whatever was cut short around it.  The code breaks it: the next
\* append after one that was cut short continues its line.
NeighboursSurvive == acked \subseteq Replayed

\* That is all it costs: one acknowledged entry for each write that was cut short.
TearCostsOneEntry == Cardinality(acked \ Replayed) <= tears
=============================================================================
