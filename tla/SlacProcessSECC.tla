--------------------------- MODULE SlacProcessSECC ---------------------------
(***************************************************************************)
(* cSlacProcessSECCPub::operate, the station's side of the SLAC process.   *)
(* Parameters as in SlacProcessEVCC; the short timer is the one that ends  *)
(* the wait for sounds.                                                    *)
(***************************************************************************)
EXTENDS SlacProcessEVCC

VARIABLES
    seSlac,     \* state
    seFresh     \* enteredState

seSlacVars == <<seSlac, seFresh>>

SeTo(s) == seSlac' = s /\ seFresh' = (s # seSlac)
SeToIf(c, s) == SeTo(IF c THEN s ELSE seSlac)

SeLeaves(v, rest) ==
    /\ seVals' = v
    /\ toSe' = rest
    /\ UNCHANGED toEv

(* All frames of the station go to PEV_MAC. *)
SeTransmits(f, v) == toEv' = IF v.pev = "ev" THEN Transmit(toEv, f) ELSE toEv

SeSends(f, v, rest) ==
    /\ seVals' = v
    /\ toSe' = rest
    /\ SeTransmits(f, v)

SeAsksKey(v, rest) ==
    \E ok \in ModemAnswers :
        /\ seVals' = v
        /\ toSe' = Append(rest, SetKeyCnf(ok))

-----------------------------------------------------------------------------
SeAwaitGetSwVer(last, v, rest) ==
    /\ seSlac = "awaitGetSwVer"
    /\ SeLeaves(v, IF seFresh THEN Append(rest, SwVerCnf) ELSE rest)
    /\ SeToIf(last = "VS_SW_VER", "Idle")

SeSlacIdle(start, v, rest) ==
    /\ seSlac = "Idle"
    /\ IF seFresh
       THEN SeAsksKey(InitVals(SeNmk), rest) /\ UNCHANGED toEv
       ELSE SeLeaves(v, rest)
    /\ SeToIf(start, "awaitEstablishing")

SeAwaitEstablishing(last, v, rest) ==
    /\ seSlac = "awaitEstablishing"
    /\ IF last = "CM_SLAC_PARAM"
       THEN SeSends(ParamCnf(v.run), v, rest)
       ELSE SeLeaves(v, rest)
    /\ SeToIf(last = "CM_SLAC_PARAM", "awaitStartAttenChar")

SeAwaitStartAttenChar(last, v, rest) ==
    /\ seSlac = "awaitStartAttenChar"
    /\ SeLeaves(v, rest)
    /\ SeToIf(last = "CM_START_ATTEN_CHAR", "awaitSounding")

(* The sounds are complete when exactly NumSounds have been counted since  *)
(* clear(), or given up when the time for them is over.                    *)
SeAwaitSounding(v, rest, tick) ==
    LET over == v.sounds = NumSounds \/ (~seFresh /\ tick)
    IN  /\ seSlac = "awaitSounding"
        /\ IF over THEN SeSends(AttenInd(v.run), v, rest) ELSE SeLeaves(v, rest)
        /\ SeToIf(over, "awaitAttenChar")

SeAwaitAttenChar(last, v, rest) ==
    /\ seSlac = "awaitAttenChar"
    /\ SeLeaves(v, rest)
    /\ SeToIf(last = "CM_ATTEN_CHAR", "awaitMatch")

SeAwaitMatch(last, v, rest) ==
    /\ seSlac = "awaitMatch"
    /\ IF last = "CM_SLAC_MATCH"
       THEN SeTransmits(MatchCnf(v.run), v) /\ SeAsksKey(v, rest)
       ELSE SeLeaves(v, rest)
    /\ SeToIf(last = "CM_SLAC_MATCH", "awaitSetKey")

(* Mutant: the station waits for the settle time, as the vehicle does. *)
SeSettles(last, v, rest) ==
    /\ seSlac = "awaitSetKey"
    /\ SeLeaves(v, rest)
    /\ SeToIf(last = "CM_SET_KEY", IF v.refused THEN "awaitEstablishing" ELSE "awaitSettleTime")

(* Mutant: the key is ordered on entry, as the vehicle does, and again. *)
SeOrdersAgain(last, v, rest) ==
    /\ seSlac = "awaitSetKey"
    /\ IF seFresh THEN SeAsksKey(v, rest) /\ UNCHANGED toEv ELSE SeLeaves(v, rest)
    /\ SeToIf(last = "CM_SET_KEY", IF v.refused THEN "awaitEstablishing" ELSE "Matched")

(* A refused key starts over without clear(). *)
SeAwaitSetKey(last, v, rest) ==
    /\ seSlac = "awaitSetKey"
    /\ SeLeaves(v, rest)
    /\ SeToIf(last = "CM_SET_KEY", IF v.refused THEN "awaitEstablishing" ELSE "Matched")

SeFailedOrMatched(start, v, rest) ==
    /\ seSlac \in {"Failed", "Matched"}
    /\ SeLeaves(v, rest)
    /\ SeToIf(~start, "Idle")

(* Mutant: no timeout while the response to CM_ATTEN_CHAR.IND is awaited. *)
SeHardlyTimed ==
    seSlac \notin {"awaitGetSwVer", "Idle", "awaitEstablishing", "awaitAttenChar",
                   "Failed", "Matched"}

SeTimed ==
    seSlac \notin {"awaitGetSwVer", "Idle", "awaitEstablishing", "Failed", "Matched"}

SeTimesOut(v, rest) == SeLeaves(v, rest) /\ SeTo("Failed")

SeOperate(start, last, v, rest, tick, late) ==
    \/ late /\ SeTimed /\ SeTimesOut(v, rest)
    \/ /\ ~(late /\ SeTimed)
       /\ \/ SeAwaitGetSwVer(last, v, rest)
          \/ SeSlacIdle(start, v, rest)
          \/ SeAwaitEstablishing(last, v, rest)
          \/ SeAwaitStartAttenChar(last, v, rest)
          \/ SeAwaitSounding(v, rest, tick)
          \/ SeAwaitAttenChar(last, v, rest)
          \/ SeAwaitMatch(last, v, rest)
          \/ SeAwaitSetKey(last, v, rest)
          \/ SeFailedOrMatched(start, v, rest)

(* What operate() returns: the state it found. *)
SeFinished == seSlac \in {"Matched", "Failed"}

SeSlacInit == seSlac = "awaitGetSwVer" /\ seFresh = TRUE

SeSlacTypeOK == seSlac \in SlacStates \ {"awaitSettleTime"} /\ seFresh \in BOOLEAN
=============================================================================
