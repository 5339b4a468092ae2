--------------------------- MODULE SlacProcessEVCC ---------------------------
(***************************************************************************)
(* cSlacProcessEVCCPub::operate, the vehicle's side of the SLAC process.   *)
(* One operator per state.  In each, `last` is lastEvaluationResult, v the *)
(* values after the received frame, rest the frames still waiting, tick    *)
(* says that the running short timer (repeat, pause, settle) has elapsed.  *)
(***************************************************************************)
EXTENDS PlcStack

VARIABLES
    evSlac,     \* state
    evFresh     \* enteredState

evSlacVars == <<evSlac, evFresh>>

SlacStates ==
    {"awaitGetSwVer", "Idle", "awaitEstablishing", "awaitStartAttenChar",
     "awaitSounding", "awaitAttenChar", "awaitMatch", "awaitSetKey",
     "awaitSettleTime", "Failed", "Matched"}

(* The end of operate(): the next state. *)
EvTo(s) == evSlac' = s /\ evFresh' = (s # evSlac)
EvToIf(c, s) == EvTo(IF c THEN s ELSE evSlac)

(* What operate() leaves behind: its values, the frame it has sent to the  *)
(* station, if any, and the confirmation of its modem, if it was asked.    *)
EvLeaves(v, rest) ==
    /\ evVals' = v
    /\ toEv' = rest
    /\ UNCHANGED <<toSe, evChip>>

EvSends(f, v, rest) ==
    /\ evVals' = v
    /\ toEv' = rest
    /\ toSe' = Transmit(toSe, f)
    /\ UNCHANGED evChip

(* Frames to MSOUND_TARGET or EVSE_MAC, unknown until a CM_SLAC_PARAM.CNF. *)
EvSendsToKnown(f, v, rest) ==
    IF v.known THEN EvSends(f, v, rest) ELSE EvLeaves(v, rest)

EvSetsKey(v, rest) ==
    \E ok \in ModemAnswers :
        /\ evChip' = IF ok THEN v.nmk ELSE evChip
        /\ evVals' = v
        /\ toEv' = Append(rest, SetKeyCnf(ok))
        /\ UNCHANGED toSe

-----------------------------------------------------------------------------
EvAwaitGetSwVer(last, v, rest) ==
    /\ evSlac = "awaitGetSwVer"
    /\ EvLeaves(v, IF evFresh THEN Append(rest, SwVerCnf) ELSE rest)
    /\ EvToIf(last = "VS_SW_VER", "Idle")

EvSlacIdle(start, v, rest) ==
    /\ evSlac = "Idle"
    /\ IF evFresh THEN EvSetsKey(InitVals(EvNmk), rest) ELSE EvLeaves(v, rest)
    /\ EvToIf(start, "awaitEstablishing")

(* Mutant: the request is not repeated. *)
EvAsksOnce(start, last, v, rest, tick) ==
    /\ evSlac = "awaitEstablishing"
    /\ IF evFresh
       THEN EvSends(ParamReq("ev"), [v EXCEPT !.run = "ev"], rest)
       ELSE EvLeaves(v, rest)
    /\ \/ last = "CM_SLAC_PARAM" /\ EvTo("awaitStartAttenChar")
       \/ last # "CM_SLAC_PARAM" /\ EvToIf(~start, "Idle")

(* The request is sent on entry and again with every repeat timer; it      *)
(* renews the total timeout and carries the vehicle's own RunID.           *)
EvAwaitEstablishing(start, last, v, rest, tick) ==
    /\ evSlac = "awaitEstablishing"
    /\ IF evFresh \/ tick
       THEN EvSends(ParamReq("ev"), [v EXCEPT !.run = "ev"], rest)
       ELSE EvLeaves(v, rest)
    /\ \/ last = "CM_SLAC_PARAM" /\ EvTo("awaitStartAttenChar")
       \/ last # "CM_SLAC_PARAM" /\ EvToIf(~start, "Idle")

EvAwaitStartAttenChar(v, rest) ==
    /\ evSlac = "awaitStartAttenChar"
    /\ EvSendsToKnown(StartAttenInd(v.run), v, rest)
    /\ EvTo("awaitSounding")

(* Mutant: a last sound is sent when none is left. *)
EvSoundsOnceMore(v, rest, tick) ==
    /\ evSlac = "awaitSounding"
    /\ IF evFresh THEN EvSendsToKnown(ProfileInd, [v EXCEPT !.sounds = NumSounds], rest)
       ELSE IF tick THEN EvSendsToKnown(ProfileInd, [v EXCEPT !.sounds = @ - 1], rest)
       ELSE EvLeaves(v, rest)
    /\ EvToIf(~evFresh /\ tick /\ v.sounds = 1, "awaitAttenChar")

(* NumSounds sounds, one on entry, then one per pause. *)
EvAwaitSounding(v, rest, tick) ==
    LET left == IF evFresh THEN NumSounds ELSE v.sounds
        next == [v EXCEPT !.sounds = left - 1]
    IN  /\ evSlac = "awaitSounding"
        /\ \/ /\ evFresh \/ (left > 0 /\ tick)
              /\ EvSendsToKnown(ProfileInd, next, rest)
              /\ EvToIf(left = 1, "awaitAttenChar")
           \/ /\ ~evFresh /\ ~(left > 0 /\ tick)
              /\ EvLeaves(v, rest)
              /\ EvToIf(left = 0, "awaitAttenChar")

EvAwaitAttenChar(last, v, rest) ==
    /\ evSlac = "awaitAttenChar"
    /\ IF last = "CM_ATTEN_CHAR"
       THEN EvSendsToKnown(AttenRsp(v.run), v, rest)
       ELSE EvLeaves(v, rest)
    /\ EvToIf(last = "CM_ATTEN_CHAR", "awaitMatch")

EvAwaitMatch(last, v, rest) ==
    /\ evSlac = "awaitMatch"
    /\ IF evFresh THEN EvSendsToKnown(MatchReq(v.run), v, rest) ELSE EvLeaves(v, rest)
    /\ EvToIf(last = "CM_SLAC_MATCH", "awaitSetKey")

(* The modem's answer is not looked at: a refused key is taken as set. *)
EvAwaitSetKey(last, v, rest) ==
    /\ evSlac = "awaitSetKey"
    /\ IF evFresh THEN EvSetsKey(v, rest) ELSE EvLeaves(v, rest)
    /\ EvToIf(last = "CM_SET_KEY", "awaitSettleTime")

EvAwaitSettleTime(v, rest, tick) ==
    /\ evSlac = "awaitSettleTime"
    /\ EvLeaves(v, rest)
    /\ EvToIf(~evFresh /\ tick, "Matched")

EvFailedOrMatched(start, v, rest) ==
    /\ evSlac \in {"Failed", "Matched"}
    /\ EvLeaves(v, rest)
    /\ EvToIf(~start, "Idle")

(* The total timeout, looked at before the state. *)
EvTimed == evSlac \notin {"awaitGetSwVer", "Idle", "Failed", "Matched"}

EvTimesOut(v, rest) == EvLeaves(v, rest) /\ EvTo("Failed")

EvOperate(start, last, v, rest, tick, late) ==
    \/ late /\ EvTimed /\ EvTimesOut(v, rest)
    \/ /\ ~(late /\ EvTimed)
       /\ \/ EvAwaitGetSwVer(last, v, rest)
          \/ EvSlacIdle(start, v, rest)
          \/ EvAwaitEstablishing(start, last, v, rest, tick)
          \/ EvAwaitStartAttenChar(v, rest)
          \/ EvAwaitSounding(v, rest, tick)
          \/ EvAwaitAttenChar(last, v, rest)
          \/ EvAwaitMatch(last, v, rest)
          \/ EvAwaitSetKey(last, v, rest)
          \/ EvAwaitSettleTime(v, rest, tick)
          \/ EvFailedOrMatched(start, v, rest)

EvSlacInit == evSlac = "awaitGetSwVer" /\ evFresh = TRUE

EvSlacTypeOK == evSlac \in SlacStates /\ evFresh \in BOOLEAN
=============================================================================
