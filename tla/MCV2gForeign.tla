---------------------------- MODULE MCV2gForeign ----------------------------
(* Instance of V2gForeign for TLC: configurations as in MCV2gSession.     *)
EXTENDS V2gForeign

MCEvModes == {"AC_three_phase", "DC_core"}
MCSeModes == {"AC_three_phase", "DC_extended"}

=============================================================================
