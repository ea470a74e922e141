--------------------------- MODULE SegmentExecution ---------------------------
(***************************************************************************)
(* What the parking controller promises the planner, with the handshake    *)
(* between them left out: it takes the latest segment only, prepares it,    *)
(* drives it, and says once when it has run out of it.                      *)
(***************************************************************************)
CONSTANTS
  Segments,   \* motion segments a planner may send
  Rolling,    \* those whose last point asks for a non-zero speed
  Stop,       \* the stop-in-place trajectory
  NoSegment

VARIABLES
  mode,       \* what the controller is doing
  segment     \* the segment it is doing it with

segmentVars == <<mode, segment>>

Modes == {"IDLE", "PREPARING", "EXECUTING", "ENDED", "STRAIGHTENING", "COMPLETE"}

ExecutionInit == mode = "IDLE" /\ segment = NoSegment

(* stageOpenSpaceTrajectory: a motion segment replaces whatever was being   *)
(* done and waits; a stop trajectory takes effect at once.                  *)
Stage(t) ==
  \/ t \in Segments /\ mode' = "PREPARING" /\ segment' = t
  \/ t = Stop /\ mode' = "EXECUTING" /\ segment' = Stop

(* A real vehicle refuses a segment that does not end at standstill.        *)
Refuse(t) == t \in Rolling /\ mode' = "PREPARING" /\ segment' = NoSegment

(* latControl: the prepared segment, and no other, is released.             *)
Release ==
  /\ mode = "PREPARING" /\ segment # NoSegment
  /\ mode' = "EXECUTING"
  /\ UNCHANGED segment

(* updateOpenSpaceSegmentEndHold: SEGMENT_END_HOLD is published once.       *)
EndReported ==
  /\ mode = "EXECUTING" /\ segment \notin Rolling
  /\ mode' = "ENDED"
  /\ UNCHANGED segment

Cleared == mode' = "IDLE" /\ segment' = NoSegment

GoalTaken == mode' = "STRAIGHTENING" /\ segment' = NoSegment

Straightened ==
  /\ mode = "STRAIGHTENING"
  /\ mode' = "COMPLETE"
  /\ UNCHANGED segment

ExecutionNext ==
  \/ \E t \in Segments \cup {Stop} : Stage(t) \/ Refuse(t)
  \/ Release \/ EndReported \/ Cleared \/ GoalTaken \/ Straightened

ExecutionSpec == ExecutionInit /\ [][ExecutionNext]_segmentVars
===============================================================================
