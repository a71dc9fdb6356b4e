------------------------- MODULE MCCohortExecution -------------------------
(* A research panel: a fan-out of members of which some may fail, followed   *)
(* by the synthesis of what it found (default-catalog.ts).                  *)
EXTENDS CohortExecution

MCFanout == <<TRUE, FALSE>>
MCCount == <<3, 1>>
MCMinSuccess == <<2, 1>>
=============================================================================
