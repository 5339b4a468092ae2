----------------------------- MODULE V2gDialogue -----------------------------
(***************************************************************************)
(* What a charging session promises to its surroundings: the order of its  *)
(* phases, and in which of them the station's source may be energised.  No *)
(* messages, no queues, no state machines: V2gSession implements this.     *)
(***************************************************************************)

VARIABLES
    phase,      \* how far vehicle and station are with each other
    supply,     \* what they have agreed on: "none", "AC" or "DC"
    energised   \* the station's power source is enabled

dialogueVars == <<phase, supply, energised>>

(* "apart": neither has anything left of a session.  "broken": the vehicle *)
(* is gone in the middle of one and the station has not yet cleared it.    *)
Phases == {"apart", "agreeing", "preparing", "switching", "charging",
           "stopping", "over", "broken"}

DialogueTypeOK ==
    /\ phase \in Phases
    /\ supply \in {"none", "AC", "DC"}
    /\ energised \in BOOLEAN

Init ==
    /\ phase = "apart"
    /\ supply = "none"
    /\ energised = FALSE

-----------------------------------------------------------------------------
(* A vehicle meets a station whose source is off. *)
Meet ==
    /\ phase = "apart" /\ ~energised
    /\ phase' = "agreeing"
    /\ UNCHANGED <<supply, energised>>

(* Direct current is prepared (cable check, pre-charge), mains is not. *)
Agree ==
    /\ phase = "agreeing"
    /\ \/ supply' = "DC" /\ phase' = "preparing"
       \/ supply' = "AC" /\ phase' = "switching"
    /\ UNCHANGED energised

Prepare ==
    /\ phase = "preparing"
    /\ phase' = "switching"
    /\ UNCHANGED <<supply, energised>>

Charge ==
    /\ phase = "switching"
    /\ phase' = "charging"
    /\ UNCHANGED <<supply, energised>>

EndCharge ==
    /\ phase = "charging"
    /\ phase' = "switching"
    /\ UNCHANGED <<supply, energised>>

Stop ==
    /\ phase = "switching" /\ supply = "DC"
    /\ phase' = "stopping"
    /\ UNCHANGED <<supply, energised>>

(* The session is over only when the source is off. *)
Conclude ==
    /\ ~energised
    /\ \/ phase = "stopping"
       \/ phase = "switching" /\ supply = "AC"
    /\ phase' = "over" /\ supply' = "none"
    /\ UNCHANGED energised

Part ==
    /\ phase = "over" /\ ~energised
    /\ phase' = "apart"
    /\ UNCHANGED <<supply, energised>>

(* The vehicle disappears; its last request may still have an effect.      *)
Break ==
    /\ phase \notin {"apart", "broken"}
    /\ phase' = "broken" /\ supply' = "none"
    /\ UNCHANGED energised

(* The station notices, and at the latest then its source is off. *)
Clear ==
    /\ phase = "broken"
    /\ phase' = "apart"
    /\ energised' = FALSE
    /\ UNCHANGED supply

SwitchOn ==
    /\ ~energised /\ energised'
    /\ \/ phase \in {"preparing", "switching", "charging"} /\ supply = "DC"
       \/ phase = "broken"
    /\ UNCHANGED <<phase, supply>>

SwitchOff ==
    /\ energised /\ ~energised'
    /\ UNCHANGED <<phase, supply>>

Next ==
    \/ Meet \/ Agree \/ Prepare \/ Charge \/ EndCharge \/ Stop
    \/ Conclude \/ Part \/ Break \/ Clear
    \/ SwitchOn \/ SwitchOff

Spec == Init /\ [][Next]_dialogueVars

=============================================================================
