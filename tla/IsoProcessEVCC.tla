---------------------------- MODULE IsoProcessEVCC ----------------------------
(***************************************************************************)
(* cIsoProcessEVCC: the vehicle's side of an ISO 15118-2 session.          *)
(*                                                                         *)
(* One step is one cycle of the vehicle's main loop: udp.operate() and     *)
(* client.operate() hand over at most one frame each (the later one, TCP,  *)
(* overwrites receivedMessage), then operate(run) executes the handler of  *)
(* the current state and the common tail of the function.                  *)
(*                                                                         *)
(* Currents are abstracted to "at least I_OFF" or not.  sdpRepeatTimer and *)
(* powerRepeatTimer are never used in the same state and each use starts   *)
(* with a stop, so one variable stands for both; how long they run is      *)
(* abstracted (a running timer may have elapsed or not).                   *)
(***************************************************************************)
EXTENDS V2gLink

CONSTANTS
    EvModes,    \* the values config.xml may give evccInfo.energyTransferMode
    EvMeasures  \* TRUE: the EV hardware measures the socket voltage itself;
                \* FALSE: the simulated ADC of the shipped programs

ASSUME EvModesAssumption == EvModes \subseteq Modes
ASSUME EvMeasuresAssumption == EvMeasures \in BOOLEAN

VARIABLES
    evState,        \* evccOutput.v2gState
    evEntered,      \* enteredV2gState
    evEnable,       \* evccInput.enable, set by the application
    evTimer,        \* a repeat timer is running
    evConnecting,   \* connecting
    evSid,          \* seccInfo.sessionId
    evMode,         \* evccInfo.energyTransferMode
    evCp,           \* the state demanded from the control pilot
    evContactor,    \* pEv->socketContactor()
    evAmps          \* pEv->socketCurrent() >= I_OFF

evVars == <<evState, evEntered, evEnable, evTimer, evConnecting, evSid,
            evMode, evCp, evContactor, evAmps>>

-----------------------------------------------------------------------------
(* The states and the message each of them awaits. *)

ExchangeStates ==
    {"awaitSupportedAppProtocol", "awaitSessionSetup", "awaitServiceDiscovery",
     "awaitPaymentServiceSelection", "awaitAuthorization",
     "awaitChargeParameterDiscovery", "awaitCableCheck", "awaitPreCharge",
     "awaitPowerDelivery", "awaitChargingStatus", "awaitCurrentDemand",
     "awaitWeldingDetection", "awaitSessionStop"}

Awaits(s) ==
    CASE s = "awaitSupportedAppProtocol"    -> "SupportedAppProtocol"
      [] s = "awaitSessionSetup"            -> "SessionSetup"
      [] s = "awaitServiceDiscovery"        -> "ServiceDiscovery"
      [] s = "awaitPaymentServiceSelection" -> "PaymentServiceSelection"
      [] s = "awaitAuthorization"           -> "Authorization"
      [] s = "awaitChargeParameterDiscovery" -> "ChargeParameterDiscovery"
      [] s = "awaitCableCheck"              -> "CableCheck"
      [] s = "awaitPreCharge"               -> "PreCharge"
      [] s = "awaitPowerDelivery"           -> "PowerDelivery"
      [] s = "awaitChargingStatus"          -> "ChargingStatus"
      [] s = "awaitCurrentDemand"           -> "CurrentDemand"
      [] s = "awaitWeldingDetection"        -> "WeldingDetection"
      [] OTHER                              -> "SessionStop"

EvStates == ExchangeStates \cup
    {"idle", "awaitSdp", "awaitDisconnection", "failure", "finished"}

(* States that send their request again when the repeat timer elapses. *)
Repeating == {"awaitAuthorization", "awaitChargingStatus", "awaitCableCheck",
              "awaitPreCharge", "awaitCurrentDemand"}

(* States in which operate() keeps pilot state C and the contactor. *)
EvPowerStates == {"awaitCableCheck", "awaitPreCharge", "awaitPowerDelivery",
                  "awaitCurrentDemand"}

IsAC3 == evMode = "AC_three_phase"

(* isOperational(), and the parameter of operate() in the sample programs *)
EvIsOperational == evState \notin {"finished", "failure"}
EvSampleRun == EvIsOperational /\ evEnable

EvTypeOK ==
    /\ evState \in EvStates
    /\ evEntered \in BOOLEAN
    /\ evEnable \in BOOLEAN
    /\ evTimer \in BOOLEAN
    /\ evConnecting \in BOOLEAN
    /\ evSid \in Sids
    /\ evMode \in Modes
    /\ evCp \in {"B", "C"}
    /\ evContactor \in BOOLEAN
    /\ evAmps \in BOOLEAN

EvInit ==
    /\ evState = "idle"
    /\ evEntered = FALSE
    /\ evEnable = TRUE
    /\ evTimer = FALSE
    /\ evConnecting = FALSE
    /\ evSid = 0
    /\ evMode \in EvModes
    /\ evCp = "B"
    /\ evContactor = FALSE
    /\ evAmps = FALSE

-----------------------------------------------------------------------------
(* Building blocks of a cycle *)

(* What onFrameReceive() leaves in receivedMessage. *)
EvRx(udp, tcp) ==
    IF evState \in {"idle", "finished"} THEN EmptyRes
    ELSE IF tcp THEN Head(toEv)
    ELSE IF udp THEN SdpRes ELSE EmptyRes

EvTakesFrames(udp, tcp) ==
    /\ udp => sdpRess > 0
    /\ tcp => evSock = "open" /\ toEv # <<>>
    /\ sdpRess' = IF udp THEN sdpRess - 1 ELSE sdpRess

(* The frame buffer after this cycle if the socket stays as it is. *)
EvUnread(tcp) == IF tcp THEN Tail(toEv) ELSE toEv

(* evaluate(): the session id is taken from any positive SessionSetup. *)
EvLearnsSid(rx) ==
    evSid' = IF rx.type = "SessionSetup" /\ rx.ok THEN rx.sid ELSE evSid

(* responseIsValid(); the two messages before the session only have a code *)
EvValid(rx) ==
    /\ rx.ok
    /\ evState \notin {"awaitSupportedAppProtocol", "awaitSessionSetup"}
           => rx.sid = evSid

EvSent(req) ==
    IF evSock = "open" /\ seSock # "none" THEN Append(toSe, req) ELSE toSe

(* Mutant: only a response makes the vehicle go on. *)
EvGotoAnyway(next) ==
    /\ evState' = next
    /\ evEntered' = (evState' # evState)

(* The end of operate(): losing the connection overrides the handler. *)
EvGoto(next) ==
    /\ evState' = IF evState \in ExchangeStates /\ evSock # "open"
                  THEN "failure" ELSE next
    /\ evEntered' = (evState' # evState)

(* Mutant: the pilot is left as it is. *)
EvDepowersContactor ==
    /\ evContactor' = (evContactor /\ evAmps)
    /\ UNCHANGED <<evCp, evAmps>>

(* ... and outside the power states the pilot returns to B and the contactor *)
(* opens once the current is below I_OFF.                                    *)
EvDepowers ==
    /\ evCp' = "B"
    /\ evContactor' = (evContactor /\ evAmps)
    /\ UNCHANGED evAmps

EvCloses == evSock' = "none" /\ toEv' = <<>>

EvAnswered(rx) == rx.type = Awaits(evState)

(* Mutant: the repeat timer is not consulted. *)
EvSendsEveryCycle(tick) == evEntered \/ evState \in Repeating

EvSends(tick)  == evEntered \/ (tick /\ evState \in Repeating)

(* The common shape of the handlers that exchange a request and a response: *)
(* send on entry or on repeat, and on the awaited response go to `next` if  *)
(* it is valid, to failure otherwise.  Staying (`next` is the current       *)
(* state) starts the repeat timer.                                          *)
Exchange(rx, tcp, tick, arg, next) ==
    /\ toSe' = IF EvSends(tick) THEN EvSent(Req(Awaits(evState), arg)) ELSE toSe
    /\ EvGoto(IF ~EvAnswered(rx) THEN evState
              ELSE IF EvValid(rx) THEN next ELSE "failure")
    /\ evTimer' = IF EvAnswered(rx) THEN EvValid(rx) /\ next = evState
                  ELSE evTimer /\ ~EvSends(tick)
    /\ EvLearnsSid(rx)
    /\ toEv' = EvUnread(tcp)
    /\ UNCHANGED <<evConnecting, sdpReqs, evSock, seSock>>

-----------------------------------------------------------------------------
(* The handlers, in the order of operate() *)

EvIdle(tcp, run) ==
    /\ evState = "idle"
    /\ IF run
       THEN /\ EvGoto("awaitSdp")
            /\ EvCloses
            /\ evTimer' = FALSE
            /\ evConnecting' = FALSE
            /\ evSid' = 0
       ELSE /\ EvGoto("idle")
            /\ toEv' = EvUnread(tcp)
            /\ UNCHANGED <<evSock, evTimer, evConnecting, evSid>>
    /\ EvDepowers
    /\ UNCHANGED <<evMode, sdpReqs, seSock, toSe>>

EvAwaitSdp(rx, tcp, tick) ==
    LET connecting == evConnecting /\ ~evEntered
        sends == evEntered \/ tick
        opens == rx.type = "Sdp" /\ ~connecting
    IN
    /\ evState = "awaitSdp"
    /\ sdpReqs' = IF sends THEN AddUdp(sdpReqs) ELSE sdpReqs
    /\ evTimer' = (~opens /\ (sends \/ evTimer))
    /\ evConnecting' = (connecting \/ opens)
    /\ evSock' = IF opens THEN "connecting" ELSE evSock
    /\ EvGoto(IF evConnecting' /\ evSock' \in {"none", "lost"} THEN "failure"
              ELSE IF evConnecting' /\ evSock' = "open"
              THEN "awaitSupportedAppProtocol"
              ELSE "awaitSdp")
    /\ EvLearnsSid(rx)
    /\ toEv' = EvUnread(tcp)
    /\ EvDepowers
    /\ UNCHANGED <<evMode, seSock, toSe>>

EvAwaitSupportedAppProtocol(rx, tcp, tick) ==
    /\ evState = "awaitSupportedAppProtocol"
    /\ Exchange(rx, tcp, tick, "iso", "awaitSessionSetup")
    /\ EvDepowers
    /\ UNCHANGED evMode

EvAwaitSessionSetup(rx, tcp, tick) ==
    /\ evState = "awaitSessionSetup"
    /\ Exchange(rx, tcp, tick, NoArg, "awaitServiceDiscovery")
    /\ EvDepowers
    /\ UNCHANGED evMode

(* A vehicle configured for DC_core also takes DC_extended if offered. *)
AdoptedMode(offered) ==
    IF evMode = "DC_core" /\ "DC_extended" \in offered THEN "DC_extended"
    ELSE evMode

EvAwaitServiceDiscovery(rx, tcp, tick) ==
    /\ evState = "awaitServiceDiscovery"
    /\ Exchange(rx, tcp, tick, NoArg,
                IF AdoptedMode(rx.modes) \in rx.modes
                THEN "awaitPaymentServiceSelection" ELSE "failure")
    /\ evMode' = IF EvAnswered(rx) /\ EvValid(rx)
                 THEN AdoptedMode(rx.modes) ELSE evMode
    /\ EvDepowers

EvAwaitPaymentServiceSelection(rx, tcp, tick) ==
    /\ evState = "awaitPaymentServiceSelection"
    /\ Exchange(rx, tcp, tick, NoArg, "awaitAuthorization")
    /\ EvDepowers
    /\ UNCHANGED evMode

EvAwaitAuthorization(rx, tcp, tick) ==
    /\ evState = "awaitAuthorization"
    /\ Exchange(rx, tcp, tick, NoArg,
                IF rx.arg = "Finished" THEN "awaitChargeParameterDiscovery"
                ELSE "awaitAuthorization")
    /\ EvDepowers
    /\ UNCHANGED evMode

EvAwaitChargeParameterDiscovery(rx, tcp, tick) ==
    /\ evState = "awaitChargeParameterDiscovery"
    /\ Exchange(rx, tcp, tick, evMode,
                IF IsAC3 THEN "awaitPowerDelivery" ELSE "awaitCableCheck")
    /\ EvDepowers
    /\ UNCHANGED evMode

(* Mutant: direct current ends without the welding detection. *)
EvAwaitPowerDeliveryNoWelding(rx, tcp, tick) ==
    /\ evState = "awaitPowerDelivery"
    /\ Exchange(rx, tcp, tick, IF evEnable THEN "Start" ELSE "Stop",
                IF evEnable
                THEN IF IsAC3 THEN "awaitChargingStatus" ELSE "awaitCurrentDemand"
                ELSE "awaitSessionStop")
    /\ UNCHANGED <<evMode, evCp, evContactor, evAmps>>

(* The request carries `enable` as it was when sent, the branch after the  *)
(* response uses it as it is then.                                         *)
EvAwaitPowerDelivery(rx, tcp, tick) ==
    /\ evState = "awaitPowerDelivery"
    /\ Exchange(rx, tcp, tick, IF evEnable THEN "Start" ELSE "Stop",
                IF evEnable
                THEN IF IsAC3 THEN "awaitChargingStatus" ELSE "awaitCurrentDemand"
                ELSE IF IsAC3 THEN "awaitSessionStop" ELSE "awaitWeldingDetection")
    /\ UNCHANGED <<evMode, evCp, evContactor, evAmps>>

(* Mutant: the charging loop does not look at `enable`. *)
EvAwaitChargingStatusForever(rx, tcp, tick) ==
    /\ evState = "awaitChargingStatus"
    /\ Exchange(rx, tcp, tick, NoArg, "awaitChargingStatus")
    /\ EvDepowers
    /\ UNCHANGED evMode

EvAwaitChargingStatus(rx, tcp, tick) ==
    /\ evState = "awaitChargingStatus"
    /\ Exchange(rx, tcp, tick, NoArg,
                IF evEnable THEN "awaitChargingStatus" ELSE "awaitPowerDelivery")
    /\ EvDepowers
    /\ UNCHANGED evMode

EvAwaitCableCheck(rx, tcp, tick) ==
    /\ evState = "awaitCableCheck"
    /\ Exchange(rx, tcp, tick, NoArg,
                IF rx.arg = "Finished" THEN "awaitPreCharge" ELSE "awaitCableCheck")
    /\ evCp' = IF EvSends(tick) THEN "C" ELSE evCp
    /\ UNCHANGED <<evMode, evContactor, evAmps>>

(* Without a measurement of its own the vehicle compares the reported      *)
(* voltage with itself; with one, it may find a difference of 5 V or more. *)
EvAwaitPreCharge(rx, tcp, tick) ==
    /\ evState = "awaitPreCharge"
    /\ \E reached \in IF EvMeasures THEN BOOLEAN ELSE {TRUE} :
           Exchange(rx, tcp, tick, NoArg,
                    IF reached THEN "awaitPowerDelivery" ELSE "awaitPreCharge")
    /\ evCp' = IF evEntered THEN "C" ELSE evCp
    /\ UNCHANGED <<evMode, evContactor, evAmps>>

(* Mutant: the contactor closes with the first response, not before the   *)
(* first request.                                                         *)
EvAwaitCurrentDemandClosingLate(rx, tcp, tick) ==
    LET valid == EvAnswered(rx) /\ EvValid(rx) IN
    /\ evState = "awaitCurrentDemand"
    /\ evContactor' = (evContactor \/ valid)
    /\ evAmps' = IF valid THEN rx.arg = "flow" ELSE evAmps
    /\ Exchange(rx, tcp, tick, IF evEnable THEN "flow" ELSE "zero",
                IF evEnable \/ evAmps' THEN "awaitCurrentDemand"
                ELSE "awaitPowerDelivery")
    /\ UNCHANGED <<evMode, evCp>>

EvAwaitCurrentDemand(rx, tcp, tick) ==
    LET closed == evContactor \/ evEntered
        valid  == EvAnswered(rx) /\ EvValid(rx)
    IN
    /\ evState = "awaitCurrentDemand"
    /\ evContactor' = closed
    /\ evAmps' = IF valid THEN rx.arg = "flow" ELSE evAmps
    /\ Exchange(rx, tcp, tick, IF evEnable /\ closed THEN "flow" ELSE "zero",
                IF evEnable \/ evAmps' THEN "awaitCurrentDemand"
                ELSE "awaitPowerDelivery")
    /\ UNCHANGED <<evMode, evCp>>

EvAwaitWeldingDetection(rx, tcp, tick) ==
    /\ evState = "awaitWeldingDetection"
    /\ Exchange(rx, tcp, tick, NoArg, "awaitSessionStop")
    /\ EvDepowers
    /\ UNCHANGED evMode

EvAwaitSessionStop(rx, tcp, tick) ==
    /\ evState = "awaitSessionStop"
    /\ Exchange(rx, tcp, tick, NoArg, "awaitDisconnection")
    /\ EvDepowers
    /\ UNCHANGED evMode

EvAwaitDisconnection(rx, tcp) ==
    /\ evState = "awaitDisconnection"
    /\ IF evSock = "open"
       THEN EvCloses /\ EvGoto("awaitDisconnection")
       ELSE EvGoto("finished") /\ UNCHANGED <<evSock, toEv>>
    /\ EvLearnsSid(rx)
    /\ EvDepowers
    /\ UNCHANGED <<evMode, evTimer, evConnecting, sdpReqs, seSock, toSe>>

EvFailure(rx, tcp, run) ==
    /\ evState = "failure"
    /\ IF evEntered THEN EvCloses
       ELSE toEv' = EvUnread(tcp) /\ UNCHANGED evSock
    /\ EvGoto(IF run THEN "failure" ELSE "idle")
    /\ EvLearnsSid(rx)
    /\ EvDepowers
    /\ UNCHANGED <<evMode, evTimer, evConnecting, sdpReqs, seSock, toSe>>

EvFinished(tcp, run) ==
    /\ evState = "finished"
    /\ EvGoto(IF run THEN "finished" ELSE "idle")
    /\ toEv' = EvUnread(tcp)
    /\ EvDepowers
    /\ UNCHANGED <<evMode, evTimer, evConnecting, evSid, sdpReqs, evSock,
                   seSock, toSe>>

-----------------------------------------------------------------------------
(* One cycle of the main loop *)
EvCycleWith(run, udp, tcp, tick) ==
    LET rx == EvRx(udp, tcp) IN
    /\ EvTakesFrames(udp, tcp)
    /\ tick => evTimer
    /\ \/ EvIdle(tcp, run)
       \/ EvAwaitSdp(rx, tcp, tick)
       \/ EvAwaitSupportedAppProtocol(rx, tcp, tick)
       \/ EvAwaitSessionSetup(rx, tcp, tick)
       \/ EvAwaitServiceDiscovery(rx, tcp, tick)
       \/ EvAwaitPaymentServiceSelection(rx, tcp, tick)
       \/ EvAwaitAuthorization(rx, tcp, tick)
       \/ EvAwaitChargeParameterDiscovery(rx, tcp, tick)
       \/ EvAwaitPowerDelivery(rx, tcp, tick)
       \/ EvAwaitChargingStatus(rx, tcp, tick)
       \/ EvAwaitCableCheck(rx, tcp, tick)
       \/ EvAwaitPreCharge(rx, tcp, tick)
       \/ EvAwaitCurrentDemand(rx, tcp, tick)
       \/ EvAwaitWeldingDetection(rx, tcp, tick)
       \/ EvAwaitSessionStop(rx, tcp, tick)
       \/ EvAwaitDisconnection(rx, tcp)
       \/ EvFailure(rx, tcp, run)
       \/ EvFinished(tcp, run)
    /\ UNCHANGED evEnable

EvCycle(run) == \E udp, tcp, tick \in BOOLEAN : EvCycleWith(run, udp, tcp, tick)

(* The cycle that finds every frame delivered and a running timer elapsed. *)
EvCycleEager(run) ==
    EvCycleWith(run, sdpRess > 0, evSock = "open" /\ toEv # <<>>, evTimer)

-----------------------------------------------------------------------------
(* The application and the user *)

(* evccInput.enable: keys 's' and 'e' *)
EvSetEnable(on) ==
    /\ evEnable # on
    /\ evEnable' = on
    /\ UNCHANGED <<evState, evEntered, evTimer, evConnecting, evSid, evMode,
                   evCp, evContactor, evAmps, linkVars>>

(* 'q' and a new start of the program, maybe with another configuration: a *)
(* new process with its initial data.  Its sockets are closed; an SDP      *)
(* response may be lost with them or still be under way.  The pilot        *)
(* hardware may have kept state C until the new process sets it to B.      *)
EvRestart ==
    /\ evState' = "idle"
    /\ evEntered' = FALSE
    /\ evEnable' = TRUE
    /\ evTimer' = FALSE
    /\ evConnecting' = FALSE
    /\ evSid' = 0
    /\ evMode' \in EvModes
    /\ evCp' \in {"B", evCp}
    /\ evContactor' = FALSE
    /\ evAmps' = FALSE
    /\ EvCloses
    /\ sdpRess' \in {0, sdpRess}
    /\ UNCHANGED <<sdpReqs, seSock, toSe>>

=============================================================================
