------------------------------- MODULE V2gLink -------------------------------
(***************************************************************************)
(* The messages of an ISO 15118-2 charging session and the network between *)
(* an electric vehicle (EVCC) and a charging station (SECC): SDP frames    *)
(* over UDP, everything else over one TCP connection that the vehicle      *)
(* opens and the station accepts.                                          *)
(*                                                                         *)
(* A message keeps what the two state machines branch on: its type, the    *)
(* response code and the session id of a response, and one abstract        *)
(* argument (schema found or not, start or stop, current or no current,    *)
(* finished or ongoing).  EXI coding, V2GTP headers and all floats are     *)
(* abstracted.                                                             *)
(***************************************************************************)
EXTENDS Naturals, Sequences

CONSTANTS
    UdpCap,     \* most SDP frames in flight per direction (bound)
    SidMod      \* session ids are numbers modulo SidMod (2^64 in the code)

ASSUME UdpCapAssumption == UdpCap \in Nat \ {0}
ASSUME SidModAssumption == SidMod \in Nat \ {0, 1}

VARIABLES
    sdpReqs,    \* SDP requests in the station's UDP socket
    sdpRess,    \* SDP responses in the vehicle's UDP socket
    evSock,     \* the vehicle's TCP socket (cTcpClient)
    seSock,     \* the station's TCP socket (cConnectedClient)
    toSe,       \* TCP frames on their way to the station
    toEv        \* TCP frames on their way to the vehicle

linkVars == <<sdpReqs, sdpRess, evSock, seSock, toSe, toEv>>

-----------------------------------------------------------------------------
(* Messages *)

ACModes == {"AC_three_phase", "AC_single_phase"}
DCModes == {"DC_core", "DC_extended", "DC_combo", "DC_unique"}
Modes   == ACModes \cup DCModes

TcpTypes == {"SupportedAppProtocol", "SessionSetup", "ServiceDiscovery",
             "ServiceDetail", "PaymentServiceSelection", "Authorization",
             "ChargeParameterDiscovery", "CableCheck", "PreCharge",
             "PowerDelivery", "ChargingStatus", "CurrentDemand",
             "WeldingDetection", "SessionStop"}

MsgTypes == TcpTypes \cup {"Sdp", "Empty"}

(* arg: the transfer mode of ChargeParameterDiscovery, the charge progress *)
(* of PowerDelivery, whether CurrentDemand asks for (reports) a current,   *)
(* whether Authorization and CableCheck are Finished or Ongoing.           *)
NoArg == "none"
ReqArgs == Modes \cup {"Start", "Stop", "flow", "zero", "iso", "alien", NoArg}
ResArgs == {"Finished", "Ongoing", "flow", "zero", NoArg}
Sids    == 0 .. SidMod - 1

Requests  == {r \in [type : MsgTypes, arg : ReqArgs] :
                 r.type = "ChargeParameterDiscovery" => r.arg \in Modes}
Responses == [type : MsgTypes, ok : BOOLEAN, sid : Sids, arg : ResArgs,
              modes : SUBSET Modes]

Req(t, a)      == [type |-> t, arg |-> a]
Res(t, ok, s, a, m) ==
    [type |-> t, ok |-> ok, sid |-> s, arg |-> a, modes |-> m]

(* receivedMessage.clear(): the single slot both machines read from *)
EmptyReq == Req("Empty", NoArg)
EmptyRes == Res("Empty", TRUE, 0, NoArg, {})
SdpReq   == Req("Sdp", NoArg)
SdpRes   == Res("Sdp", TRUE, 0, NoArg, {})

-----------------------------------------------------------------------------
(* Sockets.  evSock: "none" (closed by the application), "connecting",     *)
(* "open" (isConnected()), "lost" (the client thread has ended: refused,   *)
(* or the peer hung up; isClosed()).  seSock: "none", "backlog" (connected *)
(* by the kernel), "queued" (handed over by the accept thread, waiting for *)
(* newClient()), "open" (the process' pClient).                            *)
EvSocks == {"none", "connecting", "open", "lost"}
SeSocks == {"none", "backlog", "queued", "open"}

(* The station sees the end of a connection that the vehicle has left (a   *)
(* vehicle that is connecting anew has left the old one).                  *)
EvHungUp == evSock # "open"
(* ... and the vehicle the end of one the station has dropped.             *)
SeHungUp == seSock = "none"

AddUdp(n) == IF n < UdpCap THEN n + 1 ELSE n

LinkTypeOK ==
    /\ sdpReqs \in 0 .. UdpCap
    /\ sdpRess \in 0 .. UdpCap
    /\ evSock \in EvSocks
    /\ seSock \in SeSocks
    /\ toSe \in Seq(Requests)
    /\ toEv \in Seq(Responses)

LinkInit ==
    /\ sdpReqs = 0
    /\ sdpRess = 0
    /\ evSock = "none"
    /\ seSock = "none"
    /\ toSe = <<>>
    /\ toEv = <<>>

-----------------------------------------------------------------------------
(* The client thread's connect(): the kernel completes it as soon as the   *)
(* server listens, before the station's loop takes the client over.  Bound: *)
(* one connection at a time (the station has noticed the end of the last). *)
ConnectSucceeds ==
    /\ evSock = "connecting"
    /\ seSock = "none"
    /\ evSock' = "open"
    /\ seSock' = "backlog"
    /\ toSe' = <<>>
    /\ toEv' = <<>>
    /\ UNCHANGED <<sdpReqs, sdpRess>>

(* threadAccepting(): the connection waits in newConnectedClient. *)
AcceptThread ==
    /\ seSock = "backlog"
    /\ seSock' = "queued"
    /\ UNCHANGED <<sdpReqs, sdpRess, evSock, toSe, toEv>>

(* connect() is refused or times out: the thread ends. *)
ConnectFails ==
    /\ evSock = "connecting"
    /\ evSock' = "lost"
    /\ UNCHANGED <<sdpReqs, sdpRess, seSock, toSe, toEv>>

(* recv() returns 0 or an error: the vehicle's client thread ends.  A      *)
(* reset may overtake frames that were already on their way.               *)
EvNoticesHangUp ==
    /\ evSock = "open"
    /\ SeHungUp
    /\ evSock' = "lost"
    /\ toEv' = <<>>
    /\ UNCHANGED <<sdpReqs, sdpRess, seSock, toSe>>

(* UDP gives no guarantee. *)
LoseSdpReq ==
    /\ sdpReqs > 0
    /\ sdpReqs' = sdpReqs - 1
    /\ UNCHANGED <<sdpRess, evSock, seSock, toSe, toEv>>

LoseSdpRes ==
    /\ sdpRess > 0
    /\ sdpRess' = sdpRess - 1
    /\ UNCHANGED <<sdpReqs, evSock, seSock, toSe, toEv>>

=============================================================================
