------------------------------ MODULE V2gSession ------------------------------
(***************************************************************************)
(* A vehicle and a charging station running cIsoProcessEVCC and            *)
(* cIsoProcessSECC against each other, driven as in the sample programs:   *)
(* every loop calls operate(isOperational() [&& enable]).                  *)
(***************************************************************************)
EXTENDS IsoProcessEVCC, IsoProcessSECC

CONSTANTS
    Lossy,      \* UDP frames may get lost
    NetFaults,  \* connect() may fail although the station is listening
    EvQuits,    \* the vehicle's program may be quit and started again
    SeQuits     \* the station's program may be quit and started again

ASSUME FaultsAssumption ==
    {Lossy, NetFaults, EvQuits, SeQuits} \subseteq BOOLEAN

vars == <<linkVars, evVars, seVars>>

Init == LinkInit /\ EvInit /\ SeInit

-----------------------------------------------------------------------------
(* Steps of the vehicle *)

Ev      == EvCycle(EvSampleRun) /\ UNCHANGED seVars
EvEager == EvCycleEager(EvSampleRun) /\ UNCHANGED seVars

User     == \E on \in BOOLEAN : EvSetEnable(on) /\ UNCHANGED seVars
EvReboot == EvQuits /\ EvRestart /\ UNCHANGED seVars

(* Steps of the station *)

Se      == SeCycle(SeIsOperational) /\ UNCHANGED evVars
SeEager == SeCycleEager(SeIsOperational) /\ UNCHANGED evVars
SeDies  == SeCrash /\ UNCHANGED evVars

SeReboot == SeQuits /\ SeRestart /\ UNCHANGED evVars

(* The pilot voltage that the vehicle sets is seen by the station's pilot  *)
(* hardware some time later.                                               *)
Pilot ==
    /\ seCp # evCp
    /\ seCp' = evCp
    /\ UNCHANGED <<linkVars, evVars, seAlive, seState, seEntered, seDialect,
                   seSid, seMode, seContactor, psOn, psAmps>>

(* Steps of the network and of the socket threads *)

Connect ==
    /\ seAlive
    /\ ConnectSucceeds
    /\ UNCHANGED <<evVars, seVars>>

Refuse ==
    /\ NetFaults \/ ~seAlive
    /\ ConnectFails
    /\ UNCHANGED <<evVars, seVars>>

Accept == AcceptThread /\ UNCHANGED <<evVars, seVars>>
HangUp == EvNoticesHangUp /\ UNCHANGED <<evVars, seVars>>

Lose ==
    /\ Lossy
    /\ LoseSdpReq \/ LoseSdpRes
    /\ UNCHANGED <<evVars, seVars>>

Next ==
    \/ Ev \/ User \/ EvReboot
    \/ Se \/ SeDies \/ SeReboot \/ Pilot
    \/ Connect \/ Refuse \/ Accept \/ HangUp \/ Lose

Spec == Init /\ [][Next]_vars

(* Both main loops keep running and their threads and timers keep up.  The *)
(* station's loop, as long as its process lives, is not starved by a user  *)
(* who restarts its program again and again before the first cycle.        *)
Fairness ==
    /\ WF_vars(EvEager)
    /\ SF_vars(SeEager \/ SeDies)
    /\ WF_vars(Pilot)
    /\ WF_vars(Connect \/ Refuse)
    /\ WF_vars(Accept)
    /\ WF_vars(HangUp)

FairSpec == Spec /\ Fairness

-----------------------------------------------------------------------------
TypeOK == LinkTypeOK /\ EvTypeOK /\ SeTypeOK

(* The station states that accept a request of type t. *)
Expecting(t) ==
    {s \in SeStates : \E u \in Successors(s) : Answers(u) = t}

Linked == evSock = "open" /\ seSock # "none"

(* The two machines advance in step.  A request that reaches the station   *)
(* is the only one outstanding and one its state accepts; and as long as   *)
(* the connection stands, the vehicle is about to send, or its request is  *)
(* on the way, or the matching response is, never two of these.            *)
RequestExpected ==
    seSock # "none" /\ toSe # <<>> =>
        /\ Len(toSe) = 1
        /\ seState \in Expecting(toSe[1].type)

AboutToSend ==
    /\ evEntered \/ (evTimer /\ evState \in Repeating)
    /\ toSe = <<>> /\ toEv = <<>>
    /\ seState \in Expecting(Awaits(evState))

RequestUnderWay ==
    /\ ~evEntered /\ ~evTimer
    /\ Len(toSe) = 1 /\ toEv = <<>>
    /\ toSe[1].type = Awaits(evState)

ResponseUnderWay ==
    /\ ~evEntered /\ ~evTimer
    /\ toSe = <<>> /\ Len(toEv) = 1
    /\ toEv[1].type = Awaits(evState)
    /\ seState \in AnsweredStates
    /\ Answers(seState) = Awaits(evState)

InStep ==
    /\ RequestExpected
    /\ evState \in ExchangeStates =>
           /\ Linked
           /\ AboutToSend \/ RequestUnderWay \/ ResponseUnderWay

(* An SDP response, or the connection it leads to, exists only while the   *)
(* station waits in answeredSdp for that connection: the station's single  *)
(* client pointer never meets a second client.                             *)
OneConnection ==
    /\ seState # "answeredSdp" =>
           /\ sdpRess = 0
           /\ evSock # "connecting"
           /\ seSock \notin {"backlog", "queued"}
    /\ evSock = "connecting" => seSock = "none" /\ sdpRess = 0
    /\ sdpRess > 0 => seSock = "none"
    /\ seState \in {"idle", "awaitSdp", "finished", "failure"} => seSock = "none"

(* What else is needed to make InStep and OneConnection inductive. *)

(* One SDP response at most, and a TCP socket that is connecting only for  *)
(* a vehicle that has had it.                                              *)
SdpFollowed ==
    /\ sdpRess \in {0, 1}
    /\ evSock = "connecting" => evState = "awaitSdp"

(* A connection the vehicle has not yet used is known to the station. *)
FreshConnection ==
    evState = "awaitSdp" /\ evSock = "open" =>
        /\ seSock # "none"
        /\ toSe = <<>> /\ toEv = <<>>
        /\ seState = "answeredSdp"

(* The vehicle offers no schema but ISO 15118-2. *)
IsoOffered ==
    seSock # "none" /\ toSe # <<>> /\ toSe[1].type = "SupportedAppProtocol"
        => toSe[1].arg = "iso"

SessionInv ==
    OneConnection /\ InStep /\ SdpFollowed /\ FreshConnection /\ IsoOffered

(* A session, once connected, is never given up by the vehicle: every      *)
(* response it gets is the awaited one, positive and of its session.       *)
SessionNeverFails ==
    [][evState' = "failure" /\ evState # "failure" => evState = "awaitSdp"]_vars

(* The vehicle only ends the session, and the driver only finds it         *)
(* finished, when the station's power source is off.                       *)
SafeToDisconnect ==
    evState \in {"awaitSessionStop", "awaitDisconnection", "finished"} => ~psOn

(* The station drives a current only into a closed vehicle contactor, as   *)
(* long as the vehicle is in its charging loop.                            *)
CurrentIntoClosedContactor ==
    psOn /\ psAmps /\ Linked /\ evState \in {"awaitCurrentDemand", "awaitPowerDelivery"}
        => evContactor

(* The source is enabled only in the power states, or for one cycle after  *)
(* the connection broke there.                                             *)
SourceConfined == psOn => seState \in SePowerStates \cup {"failure"}

(* From ChargeParameterDiscovery on both sides charge in the same mode. *)
AfterParameters ==
    {"answeredChargeParameterDiscovery", "answeredCableCheck",
     "answeredPreCharge", "answeredPowerDelivery", "answeredChargingStatus",
     "answeredCurrentDemand", "answeredWeldingDetection", "answeredSessionStop"}

ModesAgree == Linked /\ seState \in AfterParameters => seMode = evMode

-----------------------------------------------------------------------------
(* What makes the properties of the source inductive. *)

PowerTypes == {"PreCharge", "PowerDelivery", "CurrentDemand", "WeldingDetection"}

(* While the source is enabled, whatever reaches the station keeps it in   *)
(* the power states or switches the source off.                            *)
PowerRequested ==
    psOn /\ seSock # "none" /\ toSe # <<>> => toSe[1].type \in PowerTypes

(* ... and a vehicle in a session is one that charges with direct current. *)
EvPowered ==
    /\ psOn /\ evState \in ExchangeStates =>
           ~IsAC3 /\ Awaits(evState) \in PowerTypes
    /\ evState \in {"awaitCableCheck", "awaitPreCharge", "awaitCurrentDemand",
                    "awaitWeldingDetection"} => ~IsAC3

(* After SessionStop the vehicle sends nothing. *)
NothingAfterStop == evState \in {"awaitDisconnection", "finished"} => toSe = <<>>

(* The contactor is closed before the first current is demanded, and no    *)
(* current is demanded before that.                                        *)
ContactorFirst ==
    /\ evState = "awaitCurrentDemand" /\ ~evEntered => evContactor
    /\ evState \in {"awaitCurrentDemand", "awaitPowerDelivery"} /\ psOn /\ psAmps
           => evContactor
    /\ evState = "awaitPreCharge" => ~(psOn /\ psAmps)

PowerInv ==
    /\ SourceConfined /\ SafeToDisconnect
    /\ PowerRequested /\ EvPowered /\ NothingAfterStop /\ ContactorFirst

(* What makes SessionNeverFails and ModesAgree inductive: the responses    *)
(* are those of the vehicle's session, and the mode it asks for is its own. *)

(* A connection belongs to a session, or to the one cycle after a negative *)
(* response.                                                               *)
ConnectionUsed ==
    evSock = "open" =>
        \/ evState \in ExchangeStates \cup {"awaitSdp", "awaitDisconnection"}
        \/ /\ evState = "failure" /\ evEntered
           /\ toSe = <<>> /\ seState \notin AfterParameters

SessionKnown ==
    /\ evState \in ExchangeStates
           \ {"awaitSupportedAppProtocol", "awaitSessionSetup"} => evSid = seSid
    /\ evState \in ExchangeStates /\ toEv # <<>> =>
           /\ toEv[1].ok
           /\ toEv[1].sid = seSid
           /\ toEv[1].type = "ServiceDiscovery" => toEv[1].modes = SeModes

ModesKnown ==
    /\ evMode \in EvModes \/ (evMode = "DC_extended" /\ "DC_extended" \in SeModes)
    /\ evState \in ExchangeStates /\ toSe # <<>>
           /\ toSe[1].type = "ChargeParameterDiscovery" => toSe[1].arg = evMode
    /\ evState \in ExchangeStates \cup {"awaitDisconnection"}
           /\ seState \in AfterParameters => seMode = evMode

IdentityInv == ConnectionUsed /\ SessionKnown /\ ModesKnown

(* The station offers what every configuration of the vehicle asks for. *)
CompatibleModes ==
    \A m \in EvModes : m \in SeModes \/ (m = "DC_core" /\ "DC_extended" \in SeModes)
-----------------------------------------------------------------------------
(* Liveness *)

(* Disabling charging brings a running session to its end, whatever it is  *)
(* doing and whoever toggled the switch before.                            *)
StopEndsSession ==
    []((evState \in ExchangeStates /\ []~evEnable) => <>(evState = "idle"))

(* A vehicle that looks for a station finds it (if its process lives).     *)
SdpServed ==
    evState = "awaitSdp" ~> (evState # "awaitSdp" \/ ~seAlive)

(* A session that is not being ended gets to the charging loop, and there  *)
(* the current flows, however late the station sees pilot state C.         *)
SessionCharges ==
    /\ []((evState \in ExchangeStates \ {"awaitWeldingDetection", "awaitSessionStop"}
               /\ []evEnable)
              => <>(evState \in {"awaitChargingStatus", "awaitCurrentDemand"}))
    /\ []((evState = "awaitCurrentDemand" /\ []evEnable)
              => <>(psOn /\ psAmps /\ evContactor))

(* A station that has ended a session waits for the next vehicle.          *)
StationReleased ==
    seState = "answeredSessionStop" ~> (seState = "awaitSdp" \/ ~seAlive)

(* A vehicle that is gone, however it went, leaves no enabled source.      *)
PowerWithdrawn ==
    (psOn /\ evSock # "open") ~> (~psOn \/ ~seAlive)

-----------------------------------------------------------------------------
(* The session as its surroundings see it: V2gDialogue, with the phase     *)
(* read off the vehicle's state while it holds the connection, and off     *)
(* what the station still holds when it does not.                          *)

PhaseBar ==
    IF evSock = "open" /\ evState # "failure"
    THEN CASE evState \in {"awaitCableCheck", "awaitPreCharge"} -> "preparing"
           [] evState = "awaitPowerDelivery" -> "switching"
           [] evState \in {"awaitCurrentDemand", "awaitChargingStatus"} -> "charging"
           [] evState = "awaitWeldingDetection" -> "stopping"
           [] evState \in {"awaitSessionStop", "awaitDisconnection"} -> "over"
           [] OTHER -> "agreeing"
    ELSE IF seSock = "none" /\ ~psOn THEN "apart"
    ELSE IF evState \in {"awaitDisconnection", "finished"} THEN "over"
    ELSE "broken"

SupplyBar ==
    IF PhaseBar \in {"preparing", "switching", "charging", "stopping"}
    THEN IF IsAC3 THEN "AC" ELSE "DC"
    ELSE "none"

AbstractDialogue == INSTANCE V2gDialogue
    WITH phase <- PhaseBar, supply <- SupplyBar, energised <- psOn

(* Vehicle and station together do nothing but what V2gDialogue allows:    *)
(* they meet with the source off, agree on AC or DC before it may be       *)
(* enabled, reach the charging loop through pre-charge, conclude with the  *)
(* source off, and a session that breaks off anywhere is cleared before    *)
(* the next one.                                                           *)
ImplementsDialogue == AbstractDialogue!Spec

-----------------------------------------------------------------------------
(* What the documentation says and the code does not do; see README.md. *)

(* Starting the vehicle before the station is allowed.                     *)
SeccSurvives == seAlive

(* The stack is said to be suitable for AC charging: a vehicle that stays  *)
(* in the AC charging loop gets the mains from the station's contactor.    *)
AcPowerSupplied ==
    []((evState = "awaitChargingStatus" /\ []evEnable) => <>seContactor)

=============================================================================
