----------------------------- MODULE MCV2gSession -----------------------------
(* Instances of V2gSession for TLC. *)
EXTENDS V2gSession

(* A three-phase vehicle, and one that adopts DC_extended. *)
MCEvModes == {"AC_three_phase", "DC_core"}
MCSeModes == {"AC_three_phase", "DC_extended"}
MCAcModes == {"AC_three_phase"}

(* Only a session with direct current has a power source to withdraw. *)
MCDcModes == {"DC_core"}

=============================================================================
