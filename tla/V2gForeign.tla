------------------------------ MODULE V2gForeign ------------------------------
(***************************************************************************)
(* One of the two state machines against a peer that is not this stack:    *)
(* the vehicle of cIsoProcessEVCC at any station, or the station of        *)
(* cIsoProcessSECC with any vehicle.  The peer speaks SDP and the message  *)
(* format, but it may send what it likes, be silent, and leave at any      *)
(* moment.                                                                 *)
(***************************************************************************)
EXTENDS V2gSession

CONSTANT MaxForeign     \* most frames of the foreign peer in flight (bound)

ASSUME MaxForeignAssumption == MaxForeign \in Nat \ {0}

VARIABLE real           \* which of the two runs the code of this stack

foreignVars == <<vars, real>>

ForeignInit == Init /\ real \in {"vehicle", "station"}

-----------------------------------------------------------------------------
(* A foreign station.  Of its answers those matter that the vehicle looks  *)
(* at: the awaited type, and SessionSetup, evaluated in any state.         *)

ForeignArgs(t) ==
    CASE t \in {"Authorization", "CableCheck"} -> {"Finished", "Ongoing"}
      [] t = "CurrentDemand" -> {"flow", "zero"}
      [] OTHER -> {NoArg}

ForeignOffers(t) == IF t = "ServiceDiscovery" THEN {{}, SeModes} ELSE {{}}

StationOffers ==
    /\ sdpRess' = AddUdp(sdpRess)
    /\ UNCHANGED <<sdpReqs, evSock, seSock, toSe, toEv>>

(* It has read what was there before it answers. *)
StationAnswers ==
    /\ seSock # "none" /\ evSock = "open" /\ Len(toEv) < MaxForeign
    /\ \E t \in {Awaits(evState), "SessionSetup"}, ok \in BOOLEAN, s \in Sids :
       \E a \in ForeignArgs(t), m \in ForeignOffers(t) :
           toEv' = Append(toEv, Res(t, ok, s, a, m))
    /\ toSe' = <<>>
    /\ UNCHANGED <<sdpReqs, sdpRess, evSock, seSock>>

StationLeaves ==
    /\ seSock # "none"
    /\ seSock' = "none"
    /\ toSe' = <<>>
    /\ UNCHANGED <<sdpReqs, sdpRess, evSock, toEv>>

ForeignStation ==
    /\ StationOffers \/ StationAnswers \/ StationLeaves
    /\ UNCHANGED <<evVars, seVars>>

AtForeignStation ==
    /\ real = "vehicle"
    /\ \/ Ev \/ User \/ HangUp
       \/ ConnectSucceeds /\ UNCHANGED <<evVars, seVars>>
       \/ ConnectFails /\ UNCHANGED <<evVars, seVars>>
       \/ ForeignStation

-----------------------------------------------------------------------------
(* A foreign vehicle. *)

ForeignRequests ==
    {Req(t, NoArg) : t \in TcpTypes \ {"SupportedAppProtocol", "CurrentDemand",
                                       "ChargeParameterDiscovery"}}
        \cup {Req("SupportedAppProtocol", a) : a \in {"iso", "alien"}}
        \cup {Req("CurrentDemand", a) : a \in {"flow", "zero"}}
        \cup {Req("ChargeParameterDiscovery", a) : a \in EvModes}

VehicleAsksSdp ==
    /\ sdpReqs' = AddUdp(sdpReqs)
    /\ UNCHANGED <<sdpRess, evSock, seSock, toSe, toEv>>

(* ... to the station, whatever its state. *)
VehicleConnects ==
    /\ seAlive
    /\ evSock = "none" /\ seSock = "none"
    /\ evSock' = "open" /\ seSock' = "backlog"
    /\ UNCHANGED <<sdpReqs, sdpRess, toSe, toEv>>

VehicleAsks ==
    /\ evSock = "open" /\ seSock # "none" /\ Len(toSe) < MaxForeign
    /\ \E r \in ForeignRequests : toSe' = Append(toSe, r)
    /\ toEv' = <<>>
    /\ UNCHANGED <<sdpReqs, sdpRess, evSock, seSock>>

VehicleLeaves ==
    /\ evSock = "open"
    /\ evSock' = "none"
    /\ toEv' = <<>>
    /\ UNCHANGED <<sdpReqs, sdpRess, seSock, toSe>>

ForeignVehicle ==
    /\ VehicleAsksSdp \/ VehicleConnects \/ VehicleAsks \/ VehicleLeaves
    /\ UNCHANGED <<evVars, seVars>>

(* It sets the pilot as it likes. *)
ForeignPilot ==
    /\ seCp' \in {"B", "C"} \ {seCp}
    /\ UNCHANGED <<linkVars, evVars, seAlive, seState, seEntered, seDialect,
                   seSid, seMode, seContactor, psOn, psAmps>>

WithForeignVehicle ==
    /\ real = "station"
    /\ \/ Se \/ SeDies \/ Accept
       \/ ForeignVehicle
       \/ ForeignPilot

-----------------------------------------------------------------------------
ForeignNext ==
    /\ AtForeignStation \/ WithForeignVehicle
    /\ UNCHANGED real

ForeignFairness ==
    /\ WF_foreignVars(real = "vehicle" /\ EvEager /\ UNCHANGED real)
    /\ WF_foreignVars(real = "vehicle" /\ HangUp /\ UNCHANGED real)
    /\ SF_foreignVars(real = "station" /\ (SeEager \/ SeDies) /\ UNCHANGED real)
    /\ WF_foreignVars(real = "station" /\ Accept /\ UNCHANGED real)

ForeignSpec == ForeignInit /\ [][ForeignNext]_foreignVars /\ ForeignFairness

-----------------------------------------------------------------------------
(* Whatever a station answers, the vehicle shows it state C only in the    *)
(* states of a direct current session in which it wants power, and in the  *)
(* one cycle in which it leaves them.                                      *)
PilotInPowerStates ==
    real = "vehicle" /\ evCp = "C" =>
        /\ ~IsAC3
        /\ evState \in EvPowerStates \/ evEntered

(* ... and as long as its session has not failed its contactor is closed   *)
(* while a request for current is under way, however the charging loop was *)
(* reached and how often.                                                  *)
NoCurrentThroughOpenContactor ==
    real = "vehicle" /\ evState \in ExchangeStates =>
        \A i \in 1 .. Len(toSe) : toSe[i].arg = "flow" => evContactor

(* Whatever a vehicle asks for in whatever order, the source is enabled in *)
(* the power states only, or for the one cycle in which one of them is     *)
(* left without a welding detection: never while the parameters are        *)
(* agreed, the cable is checked or the welding is detected.                *)
LeftUnderPower ==
    (UNION {Successors(s) : s \in SePowerStates}) \ {"answeredWeldingDetection"}

SourceOnlyForPower ==
    psOn => seState \in SePowerStates \cup LeftUnderPower \cup {"failure"}

(* A vehicle whose station leaves goes back to pilot state B, and opens    *)
(* its contactor unless a current was reported until then.                 *)
PilotWithdrawn ==
    (real = "vehicle" /\ seSock = "none" /\ evSock = "open")
        ~> (evCp = "B" /\ (evContactor => evAmps))

(* Whatever a vehicle does, when it has left for good the station ends up  *)
(* without client and with the source off, ready for an SDP request or for *)
(* the connection it has already offered.                                  *)
StationFreed ==
    []((real = "station" /\ [](evSock = "none")) =>
           <>(\/ ~seAlive
              \/ /\ seSock = "none" /\ ~psOn
                 /\ seState \in {"awaitSdp", "answeredSdp"}))

=============================================================================
