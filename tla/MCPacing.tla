------------------------------ MODULE MCPacing ------------------------------
(* Pacing with two speeds: an event takes one unit of time at the first    *)
(* and two at the second.                                                  *)
EXTENDS Pacing

MCEventTime == <<1, 2>>
=============================================================================
