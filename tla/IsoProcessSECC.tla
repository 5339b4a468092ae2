---------------------------- MODULE IsoProcessSECC ----------------------------
(***************************************************************************)
(* cIsoProcessSECC: the charging station's side of an ISO 15118-2 session. *)
(*                                                                         *)
(* One step is one cycle of the station's main loop: udp.operate() may     *)
(* hand over an SDP frame, operate(run) first lets pClient deliver a frame *)
(* or the end of the connection, then runs its two-pass loop (the first    *)
(* pass takes the edge for the received message, the second executes the   *)
(* entry of the new state, which sends the response), updates the main     *)
(* contactor and at last accepts a waiting TCP client.                     *)
(***************************************************************************)
EXTENDS V2gLink

CONSTANTS
    SeModes,    \* seccInfo.energyTransferModes: what ServiceDiscovery offers
    SeMode0     \* the initial evccInfo.energyTransferMode

ASSUME SeModesAssumption == SeModes \subseteq Modes /\ SeModes # {}
ASSUME SeMode0Assumption == SeMode0 \in Modes

VARIABLES
    seAlive,        \* FALSE: the process has died on a null pointer
    seState,        \* seccOutput.v2gState
    seEntered,      \* enteredV2gState, as it is left for the next cycle
    seDialect,      \* evccInfo.schemaId # -1
    seSid,          \* seccInfo.sessionId
    seMode,         \* evccInfo.energyTransferMode
    seCp,           \* pControlPilot->getState() is C or D ("C") or not ("B")
    seContactor,    \* pSe->mainContactor()
    psOn,           \* pSe->powerSource() is enabled
    psAmps          \* ... and its current set-point is not zero

seVars == <<seAlive, seState, seEntered, seDialect, seSid, seMode, seCp,
            seContactor, psOn, psAmps>>

-----------------------------------------------------------------------------
(* The states, the message each of them has answered, and the edges. *)

AnsweredStates ==
    {"answeredSdp", "answeredSupportedAppProtocol", "answeredSessionSetup",
     "answeredServiceDiscovery", "answeredServiceDetail",
     "answeredPaymentServiceSelection", "answeredAuthorization",
     "answeredChargeParameterDiscovery", "answeredCableCheck",
     "answeredPreCharge", "answeredPowerDelivery", "answeredChargingStatus",
     "answeredCurrentDemand", "answeredWeldingDetection", "answeredSessionStop"}

Answers(s) ==
    CASE s = "answeredSdp"                     -> "Sdp"
      [] s = "answeredSupportedAppProtocol"    -> "SupportedAppProtocol"
      [] s = "answeredSessionSetup"            -> "SessionSetup"
      [] s = "answeredServiceDiscovery"        -> "ServiceDiscovery"
      [] s = "answeredServiceDetail"           -> "ServiceDetail"
      [] s = "answeredPaymentServiceSelection" -> "PaymentServiceSelection"
      [] s = "answeredAuthorization"           -> "Authorization"
      [] s = "answeredChargeParameterDiscovery" -> "ChargeParameterDiscovery"
      [] s = "answeredCableCheck"              -> "CableCheck"
      [] s = "answeredPreCharge"               -> "PreCharge"
      [] s = "answeredPowerDelivery"           -> "PowerDelivery"
      [] s = "answeredChargingStatus"          -> "ChargingStatus"
      [] s = "answeredCurrentDemand"           -> "CurrentDemand"
      [] s = "answeredWeldingDetection"        -> "WeldingDetection"
      [] OTHER                                 -> "SessionStop"

SeStates == AnsweredStates \cup {"idle", "awaitSdp", "failure", "finished"}

(* The states that accept a request and enter the state that answers it,   *)
(* among them the loops by which a state is entered again.                 *)
Successors(s) ==
    CASE s = "awaitSdp"                     -> {"answeredSdp"}
      [] s = "answeredSdp"                  -> {"answeredSupportedAppProtocol"}
      [] s = "answeredSupportedAppProtocol" -> {"answeredSessionSetup"}
      [] s = "answeredSessionSetup"         -> {"answeredServiceDiscovery"}
      [] s = "answeredServiceDiscovery"     -> {"answeredServiceDetail",
                                                "answeredPaymentServiceSelection"}
      [] s = "answeredServiceDetail"        -> {"answeredPaymentServiceSelection"}
      [] s = "answeredPaymentServiceSelection"  -> {"answeredAuthorization"}
      [] s = "answeredAuthorization"        -> {"answeredAuthorization",
                                                "answeredChargeParameterDiscovery"}
      [] s = "answeredChargeParameterDiscovery" -> {"answeredPowerDelivery",
                                                    "answeredCableCheck"}
      [] s = "answeredPowerDelivery"        -> {"answeredChargeParameterDiscovery",
                                                "answeredChargingStatus",
                                                "answeredSessionStop",
                                                "answeredCurrentDemand",
                                                "answeredWeldingDetection"}
      [] s = "answeredChargingStatus"       -> {"answeredChargingStatus",
                                                "answeredPowerDelivery"}
      [] s = "answeredCableCheck"           -> {"answeredCableCheck",
                                                "answeredPreCharge"}
      [] s = "answeredPreCharge"            -> {"answeredPreCharge",
                                                "answeredPowerDelivery"}
      [] s = "answeredCurrentDemand"        -> {"answeredCurrentDemand",
                                                "answeredPowerDelivery"}
      [] s = "answeredWeldingDetection"     -> {"answeredWeldingDetection",
                                                "answeredSessionStop"}
      [] OTHER                              -> {}

(* The power source is left as it is only while the last cycle ended here. *)
SePowerStates == {"answeredPreCharge", "answeredPowerDelivery",
                  "answeredCurrentDemand"}

(* States that do not need a client. *)
Clientless == {"idle", "awaitSdp", "answeredSdp", "answeredSessionStop",
               "failure", "finished"}

SeIsOperational == seState \notin {"finished", "failure"}

SeTypeOK ==
    /\ seAlive \in BOOLEAN
    /\ seState \in SeStates
    /\ seEntered \in BOOLEAN
    /\ seDialect \in BOOLEAN
    /\ seSid \in Sids
    /\ seMode \in Modes
    /\ seCp \in {"B", "C"}
    /\ seContactor \in BOOLEAN
    /\ psOn \in BOOLEAN
    /\ psAmps \in BOOLEAN

SeInit ==
    /\ seAlive = TRUE
    /\ seState = "idle"
    /\ seEntered = TRUE
    /\ seDialect = FALSE
    /\ seSid = 0
    /\ seMode = SeMode0
    /\ seCp = "B"
    /\ seContactor = FALSE
    /\ psOn = FALSE
    /\ psAmps = FALSE

-----------------------------------------------------------------------------
(* Building blocks of a cycle *)

SeTakesFrames(udp, tcp, fin) ==
    /\ udp => sdpReqs > 0
    /\ tcp => seSock = "open" /\ toSe # <<>>
    /\ fin => seSock = "open" /\ EvHungUp /\ ~tcp
    /\ sdpReqs' = IF udp THEN sdpReqs - 1 ELSE sdpReqs

(* What onFrameReceive() leaves in receivedMessage. *)
SeRx(udp, tcp) ==
    IF seState \in {"idle", "finished"} THEN EmptyReq
    ELSE IF tcp THEN Head(toSe)
    ELSE IF udp THEN SdpReq ELSE EmptyReq

SeUnread(tcp) == IF tcp THEN Tail(toSe) ELSE toSe

(* Mutant: a missing break after the case of ChargeParameterDiscovery. *)
SeEvaluatesFallThrough(rx) ==
    /\ seDialect' = IF rx.type = "SupportedAppProtocol" THEN rx.arg = "iso"
                    ELSE seDialect
    /\ seMode' = IF rx.type \in {"ChargeParameterDiscovery", "PowerDelivery"}
                 THEN rx.arg ELSE seMode

(* Mutant: the station keeps the mode it was configured with. *)
SeEvaluatesNoMode(rx) ==
    /\ seDialect' = IF rx.type = "SupportedAppProtocol" THEN rx.arg = "iso"
                    ELSE seDialect
    /\ seMode' = seMode

(* evaluate(), in whatever state the message arrives *)
SeEvaluates(rx) ==
    /\ seDialect' = IF rx.type = "SupportedAppProtocol" THEN rx.arg = "iso"
                    ELSE seDialect
    /\ seMode' = IF rx.type = "ChargeParameterDiscovery" THEN rx.arg
                 ELSE seMode

(* Mutant: the source is not switched off at the top of operate(). *)
PsAlwaysKept == TRUE

(* The top of operate(): outside the power states the source is switched off *)
PsKept == seState \in SePowerStates

(* The end of operate(): main contactor, then a waiting client.            *)
SeContactorFollowsPilot ==
    seContactor' = IF seMode' \in ACModes THEN seCp = "C" ELSE seContactor

(* keeps: pClient survives the cycle.  If there is none, newClient() gives *)
(* the client that the accept thread has handed over.                      *)
SeClientAfter(keeps) ==
    seSock' = CASE keeps -> "open"
                [] ~keeps /\ seSock = "queued" -> "open"
                [] ~keeps /\ seSock = "open" -> "none"
                [] OTHER -> seSock

(* Mutant: the header of one response lacks the session id. *)
SeResponseWithoutSid(s, dialect, sid) ==
    Res(Answers(s),
        s # "answeredSupportedAppProtocol" \/ dialect,
        IF s = "answeredSessionStop" THEN 0 ELSE sid,
        CASE s \in {"answeredAuthorization", "answeredCableCheck"} -> "Finished"
          [] s = "answeredCurrentDemand" -> IF PsKept /\ psAmps THEN "flow" ELSE "zero"
          [] OTHER -> NoArg,
        IF s = "answeredServiceDiscovery" THEN SeModes ELSE {})

(* The response sent on entering state s: current demand reports the       *)
(* set-point of the request before.                                        *)
SeResponse(s, dialect, sid) ==
    Res(Answers(s),
        s # "answeredSupportedAppProtocol" \/ dialect,
        sid,
        CASE s \in {"answeredAuthorization", "answeredCableCheck"} -> "Finished"
          [] s = "answeredCurrentDemand" -> IF PsKept /\ psAmps THEN "flow" ELSE "zero"
          [] OTHER -> NoArg,
        IF s = "answeredServiceDiscovery" THEN SeModes ELSE {})

(* send(): an SDP response goes to the UDP socket and, if a client is      *)
(* connected, to the client as well (only V2s has the else).               *)
SeSends(s, client, dialect, sid) ==
    /\ sdpRess' = IF s = "answeredSdp" THEN AddUdp(sdpRess) ELSE sdpRess
    /\ toEv' = IF client /\ evSock = "open"
               THEN Append(toEv, SeResponse(s, dialect, sid)) ELSE toEv

(* Mutant: WeldingDetection leaves the source to the next cycle. *)
SePowersWelding(s, rx) ==
    CASE s = "answeredPreCharge" ->
           psOn' = (seCp = "C") /\ psAmps' = FALSE
      [] s = "answeredCurrentDemand" ->
           psOn' = (seCp = "C") /\ psAmps' = (rx.arg = "flow")
      [] OTHER ->
           psOn' = (PsKept /\ psOn) /\ psAmps' = (PsKept /\ psAmps)

(* Mutant: the pilot is looked at in PreCharge only. *)
SePowersOnce(s, rx) ==
    CASE s = "answeredPreCharge" ->
           psOn' = (seCp = "C") /\ psAmps' = FALSE
      [] s = "answeredCurrentDemand" ->
           psOn' = (PsKept /\ psOn) /\ psAmps' = (rx.arg = "flow")
      [] s = "answeredWeldingDetection" ->
           psOn' = FALSE /\ psAmps' = FALSE
      [] OTHER ->
           psOn' = (PsKept /\ psOn) /\ psAmps' = (PsKept /\ psAmps)

(* What entering s does to the power source. *)
SePowers(s, rx) ==
    CASE s = "answeredPreCharge" ->
           psOn' = (seCp = "C") /\ psAmps' = FALSE
      [] s = "answeredCurrentDemand" ->
           psOn' = (seCp = "C") /\ psAmps' = (rx.arg = "flow")
      [] s = "answeredWeldingDetection" ->
           psOn' = FALSE /\ psAmps' = FALSE
      [] OTHER ->
           psOn' = (PsKept /\ psOn) /\ psAmps' = (PsKept /\ psAmps)

-----------------------------------------------------------------------------
(* The outcomes of a cycle.  client: pClient # nullptr after its operate() *)

HasClient(fin) == seSock = "open" /\ ~fin

(* Mutant: an SDP request is answered again in answeredSdp. *)
EdgeTakenSdpAgain(rx, fin, s) ==
    /\ s \in Successors(seState) \/ (s = "answeredSdp" /\ seState = s)
    /\ Answers(s) = rx.type
    /\ HasClient(fin) \/ seState \in Clientless

(* The first pass finds an edge for the received message. *)
EdgeTaken(rx, fin, s) ==
    /\ s \in Successors(seState)
    /\ Answers(s) = rx.type
    /\ HasClient(fin) \/ seState \in Clientless

SeAnswer(rx, fin, s) ==
    LET refused == s = "answeredSupportedAppProtocol" /\ ~seDialect'
        sid == IF s = "answeredSessionSetup" THEN (seSid + 1) % SidMod ELSE seSid
    IN
    /\ EdgeTaken(rx, fin, s)
    /\ seState' = IF refused THEN "failure" ELSE s
    /\ seEntered' = refused
    /\ seSid' = sid
    /\ SeSends(s, HasClient(fin), seDialect', sid)
    /\ SePowers(s, rx)
    /\ SeClientAfter(HasClient(fin))

(* No edge: the message, if any, is dropped ("unexpected message"). *)
SeNoEdge(rx, fin) == \A s \in AnsweredStates : ~EdgeTaken(rx, fin, s)

SeStays(keeps) ==
    /\ UNCHANGED <<seSid, sdpRess, toEv>>
    /\ psOn' = (PsKept /\ psOn)
    /\ psAmps' = (PsKept /\ psAmps)
    /\ SeClientAfter(keeps)

SeDropsOrWaits(rx, fin) ==
    /\ seState \in {"awaitSdp"} \cup AnsweredStates
    /\ SeNoEdge(rx, fin)
    /\ HasClient(fin) \/ seState \in Clientless
    /\ seState = "answeredSessionStop" => HasClient(fin)
    /\ seState' = seState
    /\ seEntered' = FALSE
    /\ SeStays(HasClient(fin))

(* A session state without its client: failure, entered in the second pass *)
(* (which goes on to idle if run is FALSE, and leaves that for the next    *)
(* cycle to enter; so for the next one).                                   *)
SeLostClient(fin, run) ==
    /\ seState \in AnsweredStates \ Clientless
    /\ ~HasClient(fin)
    /\ seState' = IF run THEN "failure" ELSE "idle"
    /\ seEntered' = ~run
    /\ SeStays(FALSE)

(* Mutant: the station does not leave answeredSessionStop. *)
SeSessionStoppedStays(fin, run) ==
    /\ seState = "answeredSessionStop"
    /\ ~HasClient(fin)
    /\ seState' = seState
    /\ seEntered' = FALSE
    /\ SeStays(FALSE)

(* The vehicle has hung up after its SessionStop. *)
SeSessionStopped(fin, run) ==
    /\ seState = "answeredSessionStop"
    /\ ~HasClient(fin)
    /\ seState' = IF run THEN "finished" ELSE "idle"
    /\ seEntered' = ~run
    /\ SeStays(FALSE)

(* idle: clear() also deletes a client that was accepted meanwhile. *)
SeIdle(fin, run) ==
    /\ seState = "idle"
    /\ seState' = IF run THEN "awaitSdp" ELSE "idle"
    /\ seEntered' = FALSE
    /\ SeStays(HasClient(fin) /\ ~run)

SeFailure(fin, run) ==
    /\ seState = "failure"
    /\ seState' = IF run THEN "failure" ELSE "idle"
    /\ seEntered' = FALSE
    /\ SeStays(HasClient(fin) /\ ~seEntered)

SeFinished(fin, run) ==
    /\ seState = "finished"
    /\ seState' = IF run THEN "finished" ELSE "idle"
    /\ seEntered' = FALSE
    /\ SeStays(HasClient(fin))

(* onFrameReceive() in idle or finished acknowledges on pClient, also for  *)
(* a UDP frame and when there is no client.                                *)
SeNullClient(udp) ==
    udp /\ seState \in {"idle", "finished"} /\ seSock # "open"

SeCycleWith(run, udp, tcp, fin) ==
    LET rx == SeRx(udp, tcp) IN
    /\ seAlive
    /\ ~SeNullClient(udp)
    /\ SeTakesFrames(udp, tcp, fin)
    /\ SeEvaluates(rx)
    /\ \/ \E s \in AnsweredStates : SeAnswer(rx, fin, s)
       \/ SeDropsOrWaits(rx, fin)
       \/ SeLostClient(fin, run)
       \/ SeSessionStopped(fin, run)
       \/ SeIdle(fin, run)
       \/ SeFailure(fin, run)
       \/ SeFinished(fin, run)
    /\ SeContactorFollowsPilot
    /\ toSe' = IF seSock' = "none" \/ fin THEN <<>> ELSE SeUnread(tcp)
    /\ UNCHANGED <<seAlive, seCp, evSock>>

SeCycle(run) == \E udp, tcp, fin \in BOOLEAN : SeCycleWith(run, udp, tcp, fin)

(* The cycle that finds every frame and the end of the connection at hand. *)
SeCycleEager(run) ==
    LET tcp == seSock = "open" /\ toSe # <<>>
    IN  SeCycleWith(run, sdpReqs > 0, tcp, seSock = "open" /\ EvHungUp /\ ~tcp)

(* The process dies; the kernel closes its sockets. *)
SeCrash ==
    /\ seAlive
    /\ sdpReqs > 0
    /\ SeNullClient(TRUE)
    /\ seAlive' = FALSE
    /\ sdpReqs' = 0
    /\ seSock' = "none"
    /\ toSe' = <<>>
    /\ UNCHANGED <<seState, seEntered, seDialect, seSid, seMode, seCp,
                   seContactor, psOn, psAmps, sdpRess, toEv, evSock>>

(* The program is quit (or has died) and is started again: a new process   *)
(* with its initial data.  The power source keeps its set-point until the  *)
(* first operate(); an SDP request may be lost or still be under way.      *)
SeRestart ==
    /\ seAlive' = TRUE
    /\ seState' = "idle"
    /\ seEntered' = TRUE
    /\ seDialect' = FALSE
    /\ seSid' = 0
    /\ seMode' = SeMode0
    /\ seContactor' = FALSE
    /\ sdpReqs' \in {0, sdpReqs}
    /\ seSock' = "none"
    /\ toSe' = <<>>
    /\ UNCHANGED <<seCp, psOn, psAmps, sdpRess, toEv, evSock>>

=============================================================================
