--------------------------- MODULE MCSlacMatching ---------------------------
(* Instances of SlacMatching for TLC. *)
EXTENDS SlacMatching

MCOther     == {"other"}
MCNoOther   == {}
MCMayRefuse == BOOLEAN
MCAccepts   == {TRUE}
=============================================================================
