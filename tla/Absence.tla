--------------------------------- MODULE Absence -------------------------------
(* The value of an optional field that is not there.                       *)
CONSTANT None
==============================================================================
