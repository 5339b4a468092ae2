----------------------------- MODULE SlacMatching -----------------------------
(***************************************************************************)
(* The signal level programs: the operation states of mainEVCC and         *)
(* mainSECC around the SLAC processes of both sides, the charging cable    *)
(* and the driver.  The ISO 15118 session that a match leads to is reduced *)
(* to its connection: V2gSession has its inside.                           *)
(***************************************************************************)
EXTENDS SlacProcessSECC

CONSTANTS
    Lossy,      \* powerline frames may get lost
    Replugs,    \* the cable may be pulled, and 'r' pressed, at any time
    Quits,      \* the vehicle's program may be quit at any time
    Prompt,     \* and be started again before the station has read its frames
    Timeouts,   \* the waits for frames that do not come may end
    MaxWaiting  \* bound: frames that may wait while a host takes none

ASSUME SlacFaultsAssumption ==
    /\ {Lossy, Replugs, Quits, Prompt, Timeouts} \subseteq BOOLEAN
    /\ MaxWaiting \in Nat

VARIABLES
    evOp,       \* vehicle: operationState
    seOp,       \* station: operationState
    slacReady,  \* station: slacReady
    seMac,      \* station: isoProcessSECC.evccInfo.macAddress
    session     \* ISO 15118 connection: "none", "open", "closed" by the
                \* vehicle, or "lost": given up by the station

opVars == <<evOp, seOp, slacReady, seMac, session>>
vars   == <<plcVars, evSlacVars, seSlacVars, opVars>>

EvOpStates == {"initialization", "plug", "slac", "communication", "outOfOperation"}
SeOpStates == {"initialization", "plug", "stateBtimer", "slac", "communication"}

Init ==
    /\ PlcInit
    /\ EvSlacInit /\ SeSlacInit
    /\ evOp = "initialization" /\ seOp = "initialization"
    /\ slacReady = FALSE
    /\ seMac = "none"
    /\ session = "none"

-----------------------------------------------------------------------------
(* Vehicle *)

(* In awaitEstablishing the total timeout is renewed with every repeated   *)
(* request, twenty times before it could pass.                             *)
EvMayBeLate == Timeouts /\ EvTimed /\ evSlac # "awaitEstablishing"

(* The ISO process ends with its session. *)
EvIsoMayEnd == session \in {"open", "lost"}

EvHangsUp == IF session = "open" THEN "closed" ELSE "none"

(* Mutant: the ISO process starts while the modem settles. *)
EvOpNextEarly(due) ==
    IF evOp = "initialization" /\ due /\ evSlac # "awaitGetSwVer" THEN "plug"
    ELSE IF evOp = "plug" THEN "slac"
    ELSE IF evOp = "slac" /\ evSlac \in {"awaitSettleTime", "Matched"} THEN "communication"
    ELSE IF evOp = "communication" /\ due THEN "outOfOperation"
    ELSE evOp

(* operationState.  due: what the state waits for, the control pilot or    *)
(* the end of the ISO process, has come.  getState() is asked after        *)
(* operate(): a match that ends would not count, but with start = true it  *)
(* does not end.                                                           *)
EvOpNext(due) ==
    IF evOp = "initialization" /\ due /\ evSlac # "awaitGetSwVer" THEN "plug"
    ELSE IF evOp = "plug" THEN "slac"
    ELSE IF evOp = "slac" /\ evSlac = "Matched" THEN "communication"
    ELSE IF evOp = "communication" /\ due THEN "outOfOperation"
    ELSE evOp

(* One cycle of the main loop.  take: a frame has arrived; tick: the short *)
(* timer, late: the total timeout has passed.                              *)
EvCycle(take, tick, late, due) ==
    LET in == Arrived(take, toEv, evVals) IN
    /\ take \/ Len(toEv) <= MaxWaiting
    /\ late => EvMayBeLate
    /\ due /\ evOp = "communication" => EvIsoMayEnd
    /\ EvOperate(evOp = "slac", in.last, in.vals, in.rest, tick, late)
    /\ evOp' = EvOpNext(due)
    /\ session' = IF due /\ evOp = "communication" THEN EvHangsUp ELSE session
    /\ UNCHANGED <<plugged, seVals, seSlacVars, seOp, slacReady, seMac>>

Ev == \E take, tick, late, due \in BOOLEAN : EvCycle(take, tick, late, due)

EvEager == \E late \in BOOLEAN : EvCycle(TRUE, TRUE, late, evOp # "communication")
EvLate  == EvCycle(TRUE, TRUE, TRUE, evOp # "communication")

(* The station has read all frames of the powerline. *)
AllRead == \A i \in 1..Len(toSe) : Local(toSe[i])

(* The driver quits the program, after a session, as the README says, or   *)
(* in the middle of anything, and starts it again.  Its socket and its     *)
(* queue are new, and a connection it had is closed.                       *)
EvRestart ==
    /\ evOp = "outOfOperation" \/ (Quits /\ (Prompt \/ AllRead))
    /\ evSlac' = "awaitGetSwVer" /\ evFresh' = TRUE
    /\ evVals' = InitVals(EvNmk)
    /\ toEv' = <<>>
    /\ evOp' = "initialization"
    /\ session' = IF EvIsoMayEnd THEN EvHangsUp ELSE session
    /\ UNCHANGED <<plugged, toSe, evChip, seVals, seSlacVars, seOp, slacReady, seMac>>

-----------------------------------------------------------------------------
(* Station *)

(* operationState, in the order of the loop: the later assignments win.    *)
(* due: the ISO stack is initialized, the timer of stateBtimer elapsed, or *)
(* the ISO process has noticed the end of its session.                     *)
SeOpNext(due) ==
    IF ~plugged /\ seOp # "initialization" THEN "plug"
    ELSE IF due /\ seOp = "communication" THEN "plug"
    ELSE IF SeFinished THEN "communication"
    ELSE IF seOp = "initialization" /\ due /\ seSlac # "awaitGetSwVer" THEN "plug"
    ELSE IF seOp = "plug" /\ plugged THEN "stateBtimer"
    ELSE IF seOp = "stateBtimer" /\ due THEN "slac"
    ELSE seOp

SeHangsUp == IF session = "open" THEN "lost" ELSE IF session = "closed" THEN "none" ELSE session

SeReadyNow == slacReady /\ seOp # "stateBtimer"

SeMayBeLate == Timeouts /\ SeTimed

SeIsoEnds == session = "closed"

SeCycle(take, tick, late, due) ==
    LET in == Arrived(take, toSe, seVals) IN
    /\ take \/ Len(toSe) <= MaxWaiting
    /\ late => SeMayBeLate
    /\ due /\ seOp = "communication" => SeIsoEnds
    /\ SeOperate(seOp = "slac" /\ ~SeReadyNow, in.last, in.vals, in.rest, tick /\ Timeouts, late)
    /\ slacReady' = (SeFinished \/ SeReadyNow)
    /\ seMac' = IF SeFinished THEN in.vals.pev ELSE seMac
    /\ seOp' = SeOpNext(due)
    /\ session' = IF seOp = "communication" /\ seOp' # "communication"
                  THEN SeHangsUp ELSE session
    /\ UNCHANGED <<plugged, evChip, evVals, evSlacVars, evOp>>

Se == \E take, tick, late, due \in BOOLEAN : SeCycle(take, tick, late, due)

SeDue   == seOp = "communication" => SeIsoEnds
SeEager == \E late \in BOOLEAN : SeCycle(TRUE, TRUE, late, SeDue)
SeLate  == SeCycle(TRUE, TRUE, TRUE, SeDue)

(* Key 'r' *)
SeReset ==
    /\ Replugs /\ seOp # "initialization"
    /\ seOp' = "plug"
    /\ session' = IF seOp = "communication" THEN SeHangsUp ELSE session
    /\ UNCHANGED <<plcVars, evSlacVars, seSlacVars, evOp, slacReady, seMac>>

-----------------------------------------------------------------------------
(* Cable, medium and session *)

Plug ==
    /\ ~plugged
    /\ plugged' = TRUE
    /\ UNCHANGED <<toEv, toSe, evChip, evVals, seVals, evSlacVars, seSlacVars, opVars>>

Unplug ==
    /\ Replugs /\ plugged
    /\ plugged' = FALSE
    /\ UNCHANGED <<toEv, toSe, evChip, evVals, seVals, evSlacVars, seSlacVars, opVars>>

Lose ==
    /\ Lossy
    /\ LoseToEv \/ LoseToSe
    /\ UNCHANGED <<evSlacVars, seSlacVars, opVars>>

Crosstalk == Overhear /\ UNCHANGED <<evSlacVars, seSlacVars, opVars>>

(* Both ISO processes run, over modems that are in the same network. *)
Connect ==
    /\ session = "none"
    /\ evOp = "communication" /\ seOp = "communication"
    /\ plugged /\ evChip = SeNmk
    /\ session' = "open"
    /\ UNCHANGED <<plcVars, evSlacVars, seSlacVars, evOp, seOp, slacReady, seMac>>

Next ==
    \/ Ev \/ EvRestart
    \/ Se \/ SeReset
    \/ Plug \/ Unplug \/ Lose \/ Crosstalk \/ Connect

Spec == Init /\ [][Next]_vars

(* Both loops run and their timers elapse; the programs that can reach     *)
(* each other connect.  Nothing is assumed of losses, of other vehicles    *)
(* and of the driver, not even that a session ends.                        *)
Fairness ==
    /\ WF_vars(EvEager) /\ WF_vars(EvLate)
    /\ WF_vars(SeEager) /\ WF_vars(SeLate)
    /\ WF_vars(Connect)

FairSpec == Spec /\ Fairness

-----------------------------------------------------------------------------
(* Type correctness of the two programs, the frames and the operation      *)
(* states: in particular the station never waits for the settle time, and  *)
(* every value it stores or sends is one the other side knows.             *)
TypeOK ==
    /\ PlcTypeOK /\ EvSlacTypeOK /\ SeSlacTypeOK
    /\ evOp \in EvOpStates /\ seOp \in SeOpStates
    /\ slacReady \in BOOLEAN
    /\ seMac \in RunIds
    /\ session \in {"none", "open", "closed", "lost"}

(* A vehicle that takes itself for matched is in the station's network,    *)
(* unless its modem refused the key: whatever was lost, overheard or late, *)
(* no confirmation but the one for the key of CM_SLAC_MATCH.CNF leads      *)
(* cSlacProcessEVCCPub to awaitSettleTime and Matched.                     *)
KeyAgreed ==
    evSlac \in {"awaitSettleTime", "Matched"} => evChip = SeNmk \/ evVals.refused

(* mainSECC hands a vehicle's MAC address to the ISO stack whenever it     *)
(* goes to communication, before the SLAC process clears it: also after a  *)
(* failed matching, and it is the vehicle's own if no other is heard.      *)
MacKnown ==
    seOp = "communication" =>
        /\ seMac # "none"
        /\ Others = {} => seMac = "ev"

(* The answer that ends awaitSetKey is the one to the key of the match: no *)
(* answer to another order of the same process is still to come then,      *)
(* neither to Idle's own key nor to one of an earlier attempt.             *)
Unanswered(q) == \E i \in 1..Len(q) : q[i].msg = "CM_SET_KEY"

OrdersAnswered ==
    /\ evSlac \in {"awaitSettleTime", "Matched"} => ~Unanswered(toEv)
    /\ seSlac = "Matched" => ~Unanswered(toSe)

(* While a session's connection stands neither side is in a matching, from *)
(* which it would go on to change its key: the station goes through plug   *)
(* and slac again, or the vehicle's program starts again, only after it is *)
(* broken.                                                                 *)
SessionUndisturbed ==
    session = "open" =>
        /\ evSlac \in {"Matched", "Idle"}
        /\ seSlac \in {"Matched", "Failed", "Idle"}

(* Without losses and timeouts no frame but a repeated request is thrown   *)
(* away: the process that takes it from its socket is in the state that    *)
(* waits for it.                                                           *)
EvExpects(f) ==
    \/ Local(f)
    \/ f.msg = "CM_SLAC_PARAM" /\ evSlac = "awaitEstablishing"
    \/ f.msg = "CM_ATTEN_CHAR" /\ evSlac = "awaitAttenChar"
    \/ f.msg = "CM_SLAC_MATCH" /\ evSlac = "awaitMatch"

SeExpects(f) ==
    \/ Local(f)
    \/ f.msg = "CM_SLAC_PARAM"
    \/ f.msg = "CM_START_ATTEN_CHAR" /\ seSlac = "awaitStartAttenChar"
    \/ f.msg = "CM_ATTEN_PROFILE" /\ seSlac = "awaitSounding"
    \/ f.msg = "CM_ATTEN_CHAR" /\ seSlac = "awaitAttenChar"
    \/ f.msg = "CM_SLAC_MATCH" /\ seSlac = "awaitMatch"

MatchingInStep ==
    /\ toEv # <<>> => EvExpects(Head(toEv))
    /\ toSe # <<>> => SeExpects(Head(toSe))

(* A vehicle whose program is started while it is plugged in gets its ISO  *)
(* session, the first time and after every session, however far the        *)
(* station has got with the end of the last one.                           *)
Served == (plugged /\ evOp = "initialization") ~> session = "open"

(* A station without a cable gets ready for the next vehicle, wherever in  *)
(* the process the last one was pulled out.                                *)
ReadyAgain ==
    <>[]~plugged => <>[](seSlac \in {"Idle", "awaitEstablishing"})

===============================================================================
