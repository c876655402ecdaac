--------------------------- MODULE HearingStream ---------------------------
(***************************************************************************)
(* What a listener of hearing events may rely on (abstract specification). *)
(* The events of src/event.rs reach a listener one by one and carry no     *)
(* state of the segmenter, so the listener follows the conversation from   *)
(* their names alone:                                                      *)
(*   "quiet"    no breath group is open                                    *)
(*   "starting" speech was announced, the group is announced next          *)
(*   "voiced"   a group is open and the last frame was speech              *)
(*   "paused"   a group is open and the user has paused                    *)
(* Every event flips beat, so that an event is never taken for a step in   *)
(* which nothing is heard.                                                 *)
(***************************************************************************)
EXTENDS Naturals

VARIABLES phase, beat

Phases == {"quiet", "starting", "voiced", "paused"}

Init == phase = "quiet" /\ beat = 0

Event(before, after) == phase \in before /\ phase' = after /\ beat' = 1 - beat

SpeechStarts == Event({"quiet"}, "starting")
GroupOpens   == Event({"starting"}, "voiced")
SpeechGoesOn == Event({"voiced", "paused"}, "voiced")
PauseStarts  == Event({"voiced"}, "paused")
GroupCloses  == Event({"voiced", "paused"}, "quiet")

Next == SpeechStarts \/ GroupOpens \/ SpeechGoesOn \/ PauseStarts \/ GroupCloses

Spec == Init /\ [][Next]_<<phase, beat>>
=============================================================================
