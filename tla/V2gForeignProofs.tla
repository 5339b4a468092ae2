--------------------------- MODULE V2gForeignProofs ---------------------------
(***************************************************************************)
(* Proofs about one machine of this stack against a peer that is not:      *)
(* nothing is assumed here of the order in which messages arrive, so the   *)
(* invariants are those that one machine keeps by itself, and what the     *)
(* frames buffered in both directions can be, given where it stands.       *)
(***************************************************************************)
EXTENDS V2gForeign, V2gPowerProofs

-----------------------------------------------------------------------------
(* The inductive invariants *)

(* Only a vehicle that charges with direct current gets to the states of   *)
(* direct current, and shows pilot state C.                                *)
PilotInv ==
    real = "vehicle" =>
        /\ evState \in DcStates => ~IsAC3
        /\ evCp = "C" => ~IsAC3 /\ (evState \in EvPowerStates \/ evEntered)

(* The buffers: no message of type t; none of type u behind one of type t. *)
NeverIn(q, t) == \A i \in 1 .. Len(q) : q[i].type # t

NotAfter(q, t, u) ==
    \A i, j \in 1 .. Len(q) : i < j /\ q[i].type = t => q[j].type # u

BeforePower ==
    {"awaitSdp", "awaitSupportedAppProtocol", "awaitSessionSetup",
     "awaitServiceDiscovery", "awaitPaymentServiceSelection",
     "awaitAuthorization", "awaitChargeParameterDiscovery", "awaitCableCheck",
     "awaitPreCharge"}

ChargingStates == {"awaitCurrentDemand", "awaitPowerDelivery"}

CurrentRequested == \E i \in 1 .. Len(toSe) : toSe[i].arg = "flow"

(* A request for current is under way in the charging loop, with the       *)
(* contactor closed, and in the PowerDelivery that ends it, as long as the *)
(* station has not read and answered that.  Answers that were sent before  *)
(* the vehicle changed its state arrive before those sent after it.        *)
RequestsBehindContactor ==
    /\ evState \in ChargingStates /\ CurrentRequested => evContactor
    /\ evState \in ExchangeStates \ ChargingStates => ~CurrentRequested
    /\ evState = "awaitSdp" /\ evSock = "open" => ~CurrentRequested
    /\ evState = "awaitPowerDelivery" /\ CurrentRequested
           => NeverIn(toEv, "PowerDelivery")

AnswersInOrder ==
    /\ evState = "awaitCurrentDemand"
           => NotAfter(toEv, "CurrentDemand", "PowerDelivery")
    /\ evState = "awaitPowerDelivery"
           => NotAfter(toEv, "PowerDelivery", "CurrentDemand")
    /\ evState = "awaitChargingStatus" => NeverIn(toEv, "CurrentDemand")
    /\ evState \in BeforePower =>
           NeverIn(toEv, "PowerDelivery") /\ NeverIn(toEv, "CurrentDemand")

CurrentInv ==
    real = "vehicle" => RequestsBehindContactor /\ AnswersInOrder

-----------------------------------------------------------------------------
(* Types *)

(* What a foreign peer sends is well formed, the two machines keep the     *)
(* types they keep among themselves.                                       *)
LEMMA ForeignMessages ==
    /\ \A t \in TcpTypes, ok \in BOOLEAN, s \in Sids :
          \A a \in ForeignArgs(t), m \in ForeignOffers(t) :
             Res(t, ok, s, a, m) \in Responses
    /\ ForeignRequests \subseteq Requests
  <1>1. \A t : ForeignArgs(t) \subseteq ResArgs
    BY DEF ForeignArgs, ResArgs, NoArg
  <1>2. \A t : \A m \in ForeignOffers(t) : m \in SUBSET Modes
    BY SeModesAssumption DEF ForeignOffers
  <1>3. TcpTypes \subseteq MsgTypes
    BY DEF MsgTypes
  <1>4. ForeignRequests \subseteq Requests
    <2>1. \A a \in {NoArg, "iso", "alien", "flow", "zero"} : a \in ReqArgs
      BY DEF ReqArgs, NoArg
    <2>2. \A a \in EvModes : a \in Modes /\ a \in ReqArgs
      BY EvModesAssumption DEF ReqArgs
    <2>3. {"SupportedAppProtocol", "CurrentDemand", "ChargeParameterDiscovery"}
              \subseteq MsgTypes
      BY DEF MsgTypes, TcpTypes
    <2> QED
      BY <1>3, <2>1, <2>2, <2>3, MessageTypes DEF ForeignRequests
  <1> QED  BY <1>1, <1>2, <1>3, <1>4, MessageTypes

LEMMA ForeignStationType ==
    ASSUME TypeOK, ForeignStation
    PROVE  TypeOK'
  <1>1. UNCHANGED evVars /\ UNCHANGED seVars
    BY DEF ForeignStation
  <1>2. EvTypeOK' /\ SeTypeOK'
    BY <1>1 DEF TypeOK, EvTypeOK, SeTypeOK, evVars, seVars
  <1>3. CASE StationOffers
    BY <1>3, UdpCapAssumption, <1>2 DEF StationOffers, AddUdp, TypeOK, LinkTypeOK
  <1>4. CASE StationAnswers
    <2>1. PICK t \in {Awaits(evState), "SessionSetup"}, ok \in BOOLEAN, s \in Sids :
               \E a \in ForeignArgs(t), m \in ForeignOffers(t) :
                   toEv' = Append(toEv, Res(t, ok, s, a, m))
      BY <1>4 DEF StationAnswers
    <2>2. t \in TcpTypes
      BY MessageOfState DEF TcpTypes
    <2>3. PICK r \in Responses : toEv' = Append(toEv, r)
      BY <2>1, <2>2, ForeignMessages
    <2>4. toEv' \in Seq(Responses)
      BY <2>3, WriteBuffer DEF TypeOK, LinkTypeOK
    <2>5. toSe' \in Seq(Requests) /\ UNCHANGED <<sdpReqs, sdpRess, evSock, seSock>>
      BY <1>4 DEF StationAnswers
    <2> QED  BY <1>2, <2>4, <2>5 DEF TypeOK, LinkTypeOK
  <1>5. CASE StationLeaves
    BY <1>2, <1>5 DEF StationLeaves, TypeOK, LinkTypeOK, SeSocks
  <1> QED  BY <1>3, <1>4, <1>5 DEF ForeignStation

LEMMA ForeignVehicleType ==
    ASSUME TypeOK, ForeignVehicle
    PROVE  TypeOK'
  <1>1. UNCHANGED evVars /\ UNCHANGED seVars
    BY DEF ForeignVehicle
  <1>2. EvTypeOK' /\ SeTypeOK'
    BY <1>1 DEF TypeOK, EvTypeOK, SeTypeOK, evVars, seVars
  <1>3. CASE VehicleAsksSdp
    BY <1>3, UdpCapAssumption, <1>2 DEF VehicleAsksSdp, AddUdp, TypeOK, LinkTypeOK
  <1>4. CASE VehicleConnects
    BY <1>2, <1>4 DEF VehicleConnects, TypeOK, LinkTypeOK, EvSocks, SeSocks
  <1>5. CASE VehicleAsks
    <2>1. PICK r \in ForeignRequests : toSe' = Append(toSe, r)
      BY <1>5 DEF VehicleAsks
    <2>2. toSe' \in Seq(Requests)
      BY <2>1, ForeignMessages, WriteBuffer DEF TypeOK, LinkTypeOK
    <2>3. toEv' \in Seq(Responses) /\ UNCHANGED <<sdpReqs, sdpRess, evSock, seSock>>
      BY <1>5 DEF VehicleAsks
    <2> QED  BY <1>2, <2>2, <2>3 DEF TypeOK, LinkTypeOK
  <1>6. CASE VehicleLeaves
    BY <1>2, <1>6 DEF VehicleLeaves, TypeOK, LinkTypeOK, EvSocks
  <1> QED  BY <1>3, <1>4, <1>5, <1>6 DEF ForeignVehicle

LEMMA ForeignNextTypeOK == TypeOK /\ [ForeignNext]_foreignVars => TypeOK'
  <1> SUFFICES ASSUME TypeOK, [ForeignNext]_foreignVars PROVE TypeOK'
    OBVIOUS
  <1>1. CASE Ev \/ User \/ HangUp \/ Se \/ SeDies \/ Accept \/ UNCHANGED vars
    BY <1>1, NextTypeOK DEF Next
  <1>2. CASE ConnectSucceeds /\ UNCHANGED <<evVars, seVars>>
    BY <1>2 DEF ConnectSucceeds, evVars, seVars, TypeOK, LinkTypeOK, EvTypeOK,
                SeTypeOK, EvSocks, SeSocks
  <1>3. CASE ConnectFails /\ UNCHANGED <<evVars, seVars>>
    BY <1>3 DEF ConnectFails, evVars, seVars, TypeOK, LinkTypeOK, EvTypeOK,
                SeTypeOK, EvSocks
  <1>4. CASE ForeignStation
    BY <1>4, ForeignStationType
  <1>5. CASE ForeignVehicle
    BY <1>5, ForeignVehicleType
  <1>6. CASE ForeignPilot
    BY <1>6 DEF ForeignPilot, linkVars, evVars, TypeOK, LinkTypeOK, EvTypeOK, SeTypeOK
  <1>7. UNCHANGED foreignVars => UNCHANGED vars
    BY DEF foreignVars
  <1> QED
    BY <1>1, <1>2, <1>3, <1>4, <1>5, <1>6, <1>7
    DEF ForeignNext, AtForeignStation, WithForeignVehicle

-----------------------------------------------------------------------------
(* The source of the station, whatever it is asked for *)

LEMMA UnderPower ==
    /\ LeftUnderPower = {"answeredPreCharge", "answeredPowerDelivery",
                         "answeredChargeParameterDiscovery", "answeredChargingStatus",
                         "answeredSessionStop", "answeredCurrentDemand"}
    /\ \A s \in SePowerStates :
          s \notin {"idle", "failure", "finished", "answeredSessionStop"}
    /\ \A s \in SePowerStates : \A t \in Successors(s) :
          t # "answeredWeldingDetection" => t \in LeftUnderPower
  <1>1. /\ Successors("answeredPreCharge") = {"answeredPreCharge", "answeredPowerDelivery"}
        /\ Successors("answeredCurrentDemand") =
               {"answeredCurrentDemand", "answeredPowerDelivery"}
        /\ Successors("answeredPowerDelivery") =
               {"answeredChargeParameterDiscovery", "answeredChargingStatus",
                "answeredSessionStop", "answeredCurrentDemand", "answeredWeldingDetection"}
    BY DEF Successors
  <1>2. \A t : t \in LeftUnderPower <=>
              /\ t # "answeredWeldingDetection"
              /\ \E s \in SePowerStates : t \in Successors(s)
    BY DEF LeftUnderPower
  <1>3. LeftUnderPower = {"answeredPreCharge", "answeredPowerDelivery",
                         "answeredChargeParameterDiscovery", "answeredChargingStatus",
                         "answeredSessionStop", "answeredCurrentDemand"}
    BY <1>1, <1>2 DEF SePowerStates
  <1> QED  BY <1>2, <1>3 DEF SePowerStates

LEMMA SeForeignSource ==
    ASSUME TypeOK, SourceOnlyForPower, SeCycle(SeIsOperational)
    PROVE  SourceOnlyForPower'
  <1> PICK udp \in BOOLEAN, tcp \in BOOLEAN, fin \in BOOLEAN :
           SeCycleWith(SeIsOperational, udp, tcp, fin)
    BY DEF SeCycle
  <1> DEFINE rx == SeRx(udp, tcp)
  <1> HIDE DEF rx
  <1>1. ASSUME NEW s \in AnsweredStates, SeAnswer(rx, fin, s)
        PROVE  SourceOnlyForPower'
    <2>1. /\ psOn' => \/ s \in {"answeredPreCharge", "answeredCurrentDemand"}
                      \/ psOn /\ seState \in SePowerStates /\ s # "answeredWeldingDetection"
          /\ s # "answeredSupportedAppProtocol" => seState' = s
          /\ s \in Successors(seState)
      BY <1>1, SourceAfterAnswer
    <2>2. psOn' => s \in LeftUnderPower
      BY <2>1, UnderPower
    <2> QED  BY <2>1, <2>2, UnderPower DEF SourceOnlyForPower
  <1>2. ASSUME NEW keeps, SeStays(keeps),
               seState \in SePowerStates => seState' \in {seState, "failure"}
        PROVE  SourceOnlyForPower'
    <2>1. psOn' => seState \in SePowerStates
      BY <1>2 DEF SeStays, PsKept
    <2> QED  BY <1>2, <2>1 DEF SourceOnlyForPower
  <1>3. CASE SeDropsOrWaits(rx, fin)
    BY <1>2, <1>3 DEF SeDropsOrWaits
  <1>4. CASE SeLostClient(fin, SeIsOperational)
    <2>1. seState \in SePowerStates => seState' = "failure"
      BY <1>4, UnderPower DEF SeLostClient, SeIsOperational
    <2> QED  BY <1>2, <1>4, <2>1 DEF SeLostClient
  <1>5. CASE SeSessionStopped(fin, SeIsOperational)
    BY <1>2, <1>5, UnderPower DEF SeSessionStopped
  <1>6. CASE SeIdle(fin, SeIsOperational)
    BY <1>2, <1>6, UnderPower DEF SeIdle
  <1>7. CASE SeFailure(fin, SeIsOperational)
    BY <1>2, <1>7, UnderPower DEF SeFailure
  <1>8. CASE SeFinished(fin, SeIsOperational)
    BY <1>2, <1>8, UnderPower DEF SeFinished
  <1> QED
    BY <1>1, <1>3, <1>4, <1>5, <1>6, <1>7, <1>8 DEF SeCycleWith, rx

LEMMA ForeignNextSource ==
    TypeOK /\ SourceOnlyForPower /\ [ForeignNext]_foreignVars => SourceOnlyForPower'
  <1> SUFFICES ASSUME TypeOK, SourceOnlyForPower, [ForeignNext]_foreignVars
               PROVE  SourceOnlyForPower'
    OBVIOUS
  <1>1. CASE UNCHANGED <<psOn, seState>>
    BY <1>1 DEF SourceOnlyForPower
  <1>2. CASE Se
    BY <1>2, SeForeignSource DEF Se
  <1>3. CASE AtForeignStation
    <2>1. UNCHANGED seVars
      BY <1>3 DEF AtForeignStation, Ev, User, EvSetEnable, HangUp, ForeignStation
    <2> QED  BY <1>1, <2>1 DEF seVars
  <1>4. CASE SeDies
    BY <1>1, <1>4 DEF SeDies, SeCrash
  <1>5. CASE Accept \/ ForeignVehicle
    BY <1>1, <1>5 DEF Accept, ForeignVehicle, seVars
  <1>6. CASE ForeignPilot
    BY <1>1, <1>6 DEF ForeignPilot
  <1>7. CASE UNCHANGED foreignVars
    BY <1>1, <1>7 DEF foreignVars, vars, seVars
  <1> QED
    BY <1>2, <1>3, <1>4, <1>5, <1>6, <1>7 DEF ForeignNext, WithForeignVehicle

-----------------------------------------------------------------------------
(* The pilot of the vehicle, whatever it is answered *)

(* Where an exchange may lead: the state itself, the next one, failure. *)
LEMMA ExchangeGoes ==
    ASSUME NEW rx, NEW tcp, NEW tick, NEW arg, NEW next,
           Exchange(rx, tcp, tick, arg, next)
    PROVE  /\ evState' \in {evState, next, "failure"}
           /\ evEntered' = (evState' # evState)
  BY DEF Exchange, EvGoto

LEMMA EvForeignPilot ==
    ASSUME TypeOK, PilotInv, real = "vehicle", real' = real, NEW run, EvCycle(run)
    PROVE  PilotInv'
  <1> PICK udp \in BOOLEAN, tcp \in BOOLEAN, tick \in BOOLEAN :
           EvCycleWith(run, udp, tcp, tick)
    BY DEF EvCycle
  <1> DEFINE rx == EvRx(udp, tcp)
  <1> HIDE DEF rx
  <1>1. /\ evState \in DcStates => ~IsAC3
        /\ evCp = "C" => ~IsAC3
    BY DEF PilotInv
  <1>2. ASSUME evCp' = "B", evState' \in DcStates => ~IsAC3'
        PROVE  PilotInv'
    BY <1>2 DEF PilotInv
  <1>3. ASSUME NEW arg, NEW next, Exchange(rx, tcp, tick, arg, next), EvDepowers,
               UNCHANGED evMode, evState \notin DcStates \/ ~IsAC3,
               next \in DcStates => ~IsAC3
        PROVE  PilotInv'
    <2>1. evState' \in {evState, next, "failure"} /\ evCp' = "B" /\ IsAC3' = IsAC3
      BY <1>3, ExchangeGoes DEF EvDepowers, IsAC3
    <2> QED  BY <1>2, <1>3, <2>1 DEF DcStates
  <1>4. ASSUME NEW arg, NEW next, Exchange(rx, tcp, tick, arg, next),
               evState \in EvPowerStates, UNCHANGED evMode,
               evCp' = "C" => ~IsAC3, evState \notin DcStates \/ ~IsAC3,
               next \in DcStates => ~IsAC3
        PROVE  PilotInv'
    <2>1. /\ evState' \in {evState, next, "failure"}
          /\ evEntered' = (evState' # evState) /\ IsAC3' = IsAC3
      BY <1>4, ExchangeGoes DEF IsAC3
    <2>2. evState' \in EvPowerStates \/ evEntered'
      BY <1>4, <2>1
    <2>3. evState' \in DcStates => ~IsAC3'
      BY <1>4, <2>1 DEF DcStates
    <2>4. evCp' = "C" => ~IsAC3'
      BY <1>4, <2>1
    <2> QED  BY <2>2, <2>3, <2>4 DEF PilotInv
  <1>5. CASE EvIdle(tcp, run)
    BY <1>2, <1>5 DEF EvIdle, EvGoto, EvDepowers, DcStates, ExchangeStates
  <1>6. CASE EvAwaitSdp(rx, tcp, tick)
    <2>1. evState' \in {"failure", "awaitSupportedAppProtocol", "awaitSdp"} /\ evCp' = "B"
      BY <1>6 DEF EvAwaitSdp, EvGoto, EvDepowers
    <2> QED  BY <1>2, <2>1 DEF DcStates
  <1>7. CASE EvAwaitSupportedAppProtocol(rx, tcp, tick)
    BY <1>3, <1>7 DEF EvAwaitSupportedAppProtocol, DcStates
  <1>8. CASE EvAwaitSessionSetup(rx, tcp, tick)
    BY <1>3, <1>8 DEF EvAwaitSessionSetup, DcStates
  <1>9. CASE EvAwaitServiceDiscovery(rx, tcp, tick)
    <2>1. PICK next \in {"awaitPaymentServiceSelection", "failure"} :
               Exchange(rx, tcp, tick, NoArg, next)
      BY <1>9 DEF EvAwaitServiceDiscovery
    <2>2. evState' \in {evState, next, "failure"} /\ evCp' = "B"
          /\ evState = "awaitServiceDiscovery"
      BY <1>9, <2>1, ExchangeGoes DEF EvAwaitServiceDiscovery, EvDepowers
    <2> QED  BY <1>2, <2>2 DEF DcStates
  <1>10. CASE EvAwaitPaymentServiceSelection(rx, tcp, tick)
    BY <1>3, <1>10 DEF EvAwaitPaymentServiceSelection, DcStates
  <1>11. CASE EvAwaitAuthorization(rx, tcp, tick)
    BY <1>3, <1>11 DEF EvAwaitAuthorization, DcStates
  <1>12. CASE EvAwaitChargeParameterDiscovery(rx, tcp, tick)
    BY <1>3, <1>12 DEF EvAwaitChargeParameterDiscovery, DcStates
  <1>13. CASE EvAwaitPowerDelivery(rx, tcp, tick)
    <2>1. PICK arg, next :
               /\ Exchange(rx, tcp, tick, arg, next)
               /\ next \in DcStates => ~IsAC3
      BY <1>13 DEF EvAwaitPowerDelivery, DcStates
    <2>2. /\ evState = "awaitPowerDelivery"
          /\ evCp' = evCp /\ evMode' = evMode
      BY <1>13 DEF EvAwaitPowerDelivery
    <2> QED  BY <1>1, <1>4, <2>1, <2>2 DEF DcStates, EvPowerStates
  <1>14. CASE EvAwaitChargingStatus(rx, tcp, tick)
    BY <1>3, <1>14 DEF EvAwaitChargingStatus, DcStates
  <1>15. CASE EvAwaitCableCheck(rx, tcp, tick)
    BY <1>1, <1>4, <1>15 DEF EvAwaitCableCheck, DcStates, EvPowerStates
  <1>16. CASE EvAwaitPreCharge(rx, tcp, tick)
    <2>1. PICK next : Exchange(rx, tcp, tick, NoArg, next)
      BY <1>16 DEF EvAwaitPreCharge
    <2> QED
      BY <1>1, <1>4, <1>16, <2>1 DEF EvAwaitPreCharge, DcStates, EvPowerStates
  <1>17. CASE EvAwaitCurrentDemand(rx, tcp, tick)
    <2>1. PICK arg, next : Exchange(rx, tcp, tick, arg, next)
      BY <1>17 DEF EvAwaitCurrentDemand
    <2>2. /\ evState = "awaitCurrentDemand" /\ ~IsAC3
          /\ evCp' = evCp /\ evMode' = evMode
      BY <1>1, <1>17 DEF EvAwaitCurrentDemand, DcStates
    <2> QED  BY <1>4, <2>1, <2>2 DEF EvPowerStates
  <1>18. CASE EvAwaitWeldingDetection(rx, tcp, tick)
    BY <1>1, <1>3, <1>18 DEF EvAwaitWeldingDetection, DcStates
  <1>19. CASE EvAwaitSessionStop(rx, tcp, tick)
    BY <1>3, <1>19 DEF EvAwaitSessionStop, DcStates
  <1>20. CASE EvAwaitDisconnection(rx, tcp)
    BY <1>2, <1>20
    DEF EvAwaitDisconnection, EvGoto, EvDepowers, DcStates, ExchangeStates
  <1>21. CASE EvFailure(rx, tcp, run)
    BY <1>2, <1>21 DEF EvFailure, EvGoto, EvDepowers, DcStates, ExchangeStates
  <1>22. CASE EvFinished(tcp, run)
    BY <1>2, <1>22 DEF EvFinished, EvGoto, EvDepowers, DcStates, ExchangeStates
  <1> QED
    BY <1>5, <1>6, <1>7, <1>8, <1>9, <1>10, <1>11, <1>12, <1>13, <1>14, <1>15,
       <1>16, <1>17, <1>18, <1>19, <1>20, <1>21, <1>22
    DEF EvCycleWith, rx

LEMMA ForeignNextPilot ==
    TypeOK /\ PilotInv /\ [ForeignNext]_foreignVars => PilotInv'
  <1> SUFFICES ASSUME TypeOK, PilotInv, [ForeignNext]_foreignVars
               PROVE  PilotInv'
    OBVIOUS
  <1>0. real' = real
    BY DEF ForeignNext, foreignVars
  <1>1. CASE UNCHANGED <<evState, evEntered, evMode, evCp>>
    BY <1>0, <1>1 DEF PilotInv, IsAC3
  <1>2. CASE real = "vehicle" /\ Ev
    BY <1>0, <1>2, EvForeignPilot DEF Ev
  <1>3. CASE real = "vehicle" /\ User
    BY <1>1, <1>3 DEF User, EvSetEnable
  <1>4. CASE \/ HangUp \/ ForeignStation
             \/ ConnectSucceeds /\ UNCHANGED <<evVars, seVars>>
             \/ ConnectFails /\ UNCHANGED <<evVars, seVars>>
    BY <1>1, <1>4 DEF HangUp, ForeignStation, evVars
  <1>5. CASE WithForeignVehicle
    <2>1. UNCHANGED evVars
      BY <1>5 DEF WithForeignVehicle, Se, SeDies, Accept, ForeignVehicle, ForeignPilot
    <2> QED  BY <1>1, <2>1 DEF evVars
  <1>6. CASE UNCHANGED foreignVars
    BY <1>1, <1>6 DEF foreignVars, vars, evVars
  <1> QED
    BY <1>2, <1>3, <1>4, <1>5, <1>6 DEF ForeignNext, AtForeignStation

-----------------------------------------------------------------------------
(* The buffers *)

LEMMA ReadAnswers ==
    ASSUME NEW q \in Seq(Responses), q # <<>>, NEW t, NEW u
    PROVE  /\ NeverIn(q, t) => NeverIn(Tail(q), t) /\ Head(q).type # t
           /\ NotAfter(q, t, u) => NotAfter(Tail(q), t, u)
           /\ NotAfter(q, t, u) /\ Head(q).type = t => NeverIn(Tail(q), u)
  <1>1. /\ Len(Tail(q)) = Len(q) - 1 /\ Len(q) \in Nat \ {0}
        /\ \A i \in 1 .. Len(Tail(q)) : Tail(q)[i] = q[i + 1]
        /\ Head(q) = q[1] /\ Len(Tail(q)) \in Nat
    BY HeadTailProperties, LenProperties, EmptySeq
  <1>2. \A i \in 1 .. Len(Tail(q)) : i + 1 \in 1 .. Len(q) /\ 1 < i + 1
    BY <1>1
  <1>3. \A i, j \in 1 .. Len(Tail(q)) : i < j => i + 1 < j + 1
    OBVIOUS
  <1>4. 1 \in 1 .. Len(q)
    BY <1>1
  <1>5. NeverIn(q, t) => NeverIn(Tail(q), t) /\ Head(q).type # t
    BY <1>1, <1>2, <1>4 DEF NeverIn
  <1>6. NotAfter(q, t, u) => NotAfter(Tail(q), t, u)
    BY <1>1, <1>2, <1>3 DEF NotAfter
  <1>7. NotAfter(q, t, u) /\ Head(q).type = t => NeverIn(Tail(q), u)
    BY <1>1, <1>2, <1>4 DEF NotAfter, NeverIn
  <1> QED  BY <1>5, <1>6, <1>7

LEMMA AddAnswer ==
    ASSUME NEW q \in Seq(Responses), NEW r \in Responses, NEW t, NEW u
    PROVE  /\ NeverIn(q, t) /\ r.type # t => NeverIn(Append(q, r), t)
           /\ NotAfter(q, t, u) /\ r.type # u => NotAfter(Append(q, r), t, u)
  <1>1. /\ Len(Append(q, r)) = Len(q) + 1 /\ Len(q) \in Nat
        /\ \A i \in 1 .. Len(q) : Append(q, r)[i] = q[i]
        /\ Append(q, r)[Len(q) + 1] = r
    BY AppendProperties, LenProperties
  <1>2. \A i \in 1 .. Len(Append(q, r)) : i \in 1 .. Len(q) \/ i = Len(q) + 1
    BY <1>1
  <1>3. \A i, j \in 1 .. Len(Append(q, r)) : i < j => i \in 1 .. Len(q)
    BY <1>1
  <1>4. NeverIn(q, t) /\ r.type # t => NeverIn(Append(q, r), t)
    BY <1>1, <1>2 DEF NeverIn
  <1>5. NotAfter(q, t, u) /\ r.type # u => NotAfter(Append(q, r), t, u)
    BY <1>1, <1>2, <1>3 DEF NotAfter
  <1> QED  BY <1>4, <1>5

LEMMA NeverAndNotAfter ==
    /\ \A q, t, u : NeverIn(q, t) => NotAfter(q, t, u) /\ NotAfter(q, u, t)
    /\ \A t : NeverIn(<<>>, t)
  BY DEF NeverIn, NotAfter

(* What the vehicle reads from the buffer and leaves there. *)
LEMMA AnswersRead ==
    ASSUME TypeOK, NEW udp \in BOOLEAN, NEW tcp \in BOOLEAN,
           EvTakesFrames(udp, tcp), NEW t, NEW u
    PROVE  /\ NeverIn(toEv, t) => NeverIn(EvUnread(tcp), t)
           /\ NotAfter(toEv, t, u) => NotAfter(EvUnread(tcp), t, u)
           /\ EvRx(udp, tcp).type = t /\ t \in TcpTypes =>
                  /\ ~NeverIn(toEv, t)
                  /\ NotAfter(toEv, t, u) => NeverIn(EvUnread(tcp), u)
  <1>1. CASE tcp
    <2>1. toEv \in Seq(Responses) /\ toEv # <<>> /\ EvUnread(tcp) = Tail(toEv)
      BY <1>1 DEF TypeOK, LinkTypeOK, EvTakesFrames, EvUnread
    <2>2. EvRx(udp, tcp) = Head(toEv) \/ EvRx(udp, tcp) = EmptyRes
      BY <1>1 DEF EvRx
    <2>3. EmptyRes.type \notin TcpTypes
      BY DEF EmptyRes, Res, TcpTypes
    <2> QED  BY <2>1, <2>2, <2>3, ReadAnswers
  <1>2. CASE ~tcp
    <2>1. EvUnread(tcp) = toEv /\ EvRx(udp, tcp) \in {EmptyRes, SdpRes}
      BY <1>2 DEF EvUnread, EvRx
    <2>2. EmptyRes.type \notin TcpTypes /\ SdpRes.type \notin TcpTypes
      BY DEF EmptyRes, SdpRes, Res, TcpTypes
    <2> QED  BY <2>1, <2>2
  <1> QED  BY <1>1, <1>2

LEMMA RequestsSent ==
    ASSUME TypeOK, NEW t, NEW arg, Req(t, arg) \in Requests, NEW sends \in BOOLEAN,
           toSe' = IF sends THEN EvSent(Req(t, arg)) ELSE toSe,
           CurrentRequested'
    PROVE  CurrentRequested \/ arg = "flow"
  <1> DEFINE r == Req(t, arg)
  <1>0. r.arg = arg /\ r \in Requests
    BY DEF Req
  <1> HIDE DEF r
  <1>1. CASE toSe' = toSe
    BY <1>1 DEF CurrentRequested
  <1>2. CASE toSe' = Append(toSe, r)
    <2>1. toSe \in Seq(Requests)
      BY DEF TypeOK, LinkTypeOK
    <2>2. /\ Len(Append(toSe, r)) = Len(toSe) + 1 /\ Len(toSe) \in Nat
          /\ \A i \in 1 .. Len(toSe) : Append(toSe, r)[i] = toSe[i]
          /\ Append(toSe, r)[Len(toSe) + 1] = r
      BY <1>0, <2>1, AppendProperties, LenProperties
    <2>3. PICK i \in 1 .. Len(toSe') : toSe'[i].arg = "flow"
      BY DEF CurrentRequested
    <2>4. i \in 1 .. Len(toSe) \/ i = Len(toSe) + 1
      BY <1>2, <2>2, <2>3
    <2> QED  BY <1>0, <1>2, <2>2, <2>3, <2>4 DEF CurrentRequested
  <1> QED  BY <1>1, <1>2 DEF EvSent, r

LEMMA NothingRequested == toSe' = <<>> => ~CurrentRequested'
  BY DEF CurrentRequested

-----------------------------------------------------------------------------
(* The requests for current: an exchange of the vehicle *)

LEMMA ExchangeCurrent ==
    ASSUME TypeOK, RequestsBehindContactor, AnswersInOrder,
           evState \in ExchangeStates,
           NEW udp \in BOOLEAN, NEW tcp \in BOOLEAN, NEW tick \in BOOLEAN,
           EvTakesFrames(udp, tcp), NEW arg, NEW next,
           Req(Awaits(evState), arg) \in Requests,
           Exchange(EvRx(udp, tcp), tcp, tick, arg, next),
           arg = "flow" => evState = "awaitCurrentDemand" /\ evContactor',
           evState \in ChargingStates /\ evContactor => evContactor',
           next # "awaitSdp",
           next = "awaitCurrentDemand" =>
               evState \in {"awaitPowerDelivery", "awaitCurrentDemand"},
           evState = "awaitPowerDelivery" => next # "awaitPowerDelivery",
           evState = "awaitCurrentDemand" => next \in ChargingStates,
           next = "awaitChargingStatus" =>
               evState \in {"awaitPowerDelivery", "awaitChargingStatus"},
           next = "awaitPowerDelivery" =>
               evState \in BeforePower \cup {"awaitCurrentDemand", "awaitChargingStatus"},
           next \in BeforePower => evState \in BeforePower
    PROVE  RequestsBehindContactor' /\ AnswersInOrder'
  <1> DEFINE rx == EvRx(udp, tcp)
  <1>1. /\ \/ evState' \in {evState, "failure"}
           \/ evState' = next /\ rx.type = Awaits(evState)
        /\ toEv' = EvUnread(tcp) /\ evSock' = evSock
    BY DEF Exchange, EvGoto, EvAnswered
  <1>2. CurrentRequested' =>
            CurrentRequested \/ (evState = "awaitCurrentDemand" /\ evContactor')
    <2>1. EvSends(tick) \in BOOLEAN
      BY DEF EvSends, TypeOK, EvTypeOK
    <2>2. toSe' = IF EvSends(tick) THEN EvSent(Req(Awaits(evState), arg)) ELSE toSe
      BY DEF Exchange
    <2> QED  BY <2>1, <2>2, RequestsSent
  <1> DEFINE Keeps(t) == NeverIn(toEv, t) => NeverIn(toEv', t)
             KeepsAfter(t, u) == NotAfter(toEv, t, u) => NotAfter(toEv', t, u)
             Reads(t, u) == rx.type = t =>
                 ~NeverIn(toEv, t) /\ (NotAfter(toEv, t, u) => NeverIn(toEv', u))
  <1>3. /\ Keeps("CurrentDemand") /\ Keeps("PowerDelivery")
        /\ KeepsAfter("CurrentDemand", "PowerDelivery")
        /\ KeepsAfter("PowerDelivery", "CurrentDemand")
        /\ Reads("CurrentDemand", "PowerDelivery")
        /\ Reads("PowerDelivery", "CurrentDemand")
    <2>1. {"CurrentDemand", "PowerDelivery"} \subseteq TcpTypes
      BY DEF TcpTypes
    <2> QED  BY <1>1, <2>1, AnswersRead
  <1> HIDE DEF rx
  <1>4. /\ {"failure", "awaitSdp"} \cap ExchangeStates = {}
        /\ {"failure"} \cap (BeforePower \cup ChargingStates \cup {"awaitSdp"}) = {}
        /\ ChargingStates = {"awaitCurrentDemand", "awaitPowerDelivery"}
        /\ (BeforePower \cup {"awaitChargingStatus"}) \cap ChargingStates = {}
        /\ "awaitChargingStatus" \notin BeforePower
        /\ Awaits("awaitCurrentDemand") = "CurrentDemand"
        /\ Awaits("awaitPowerDelivery") = "PowerDelivery"
    BY DEF ExchangeStates, BeforePower, ChargingStates, Awaits
  <1>5. CASE evState' = "failure"
    BY <1>4, <1>5 DEF RequestsBehindContactor, AnswersInOrder
  <1>6. CASE evState' = evState
    <2>1. RequestsBehindContactor'
      BY <1>2, <1>3, <1>4, <1>6 DEF RequestsBehindContactor
    <2>2. AnswersInOrder'
      BY <1>3, <1>6 DEF AnswersInOrder
    <2> QED  BY <2>1, <2>2
  <1>7. CASE evState' = next /\ next # evState /\ rx.type = Awaits(evState)
    <2>1. evState = "awaitPowerDelivery" =>
              ~CurrentRequested /\ NeverIn(toEv', "CurrentDemand")
      BY <1>3, <1>4, <1>7 DEF RequestsBehindContactor, AnswersInOrder
    <2>2. evState = "awaitCurrentDemand" => NeverIn(toEv', "PowerDelivery")
      BY <1>3, <1>4, <1>7 DEF AnswersInOrder
    <2>3. evState # "awaitCurrentDemand" => ~CurrentRequested'
      BY <1>2, <1>4, <2>1 DEF RequestsBehindContactor
    <2>4. evState = "awaitCurrentDemand" /\ CurrentRequested' => evContactor'
      BY <1>2, <1>4 DEF RequestsBehindContactor
    <2>5. RequestsBehindContactor'
      BY <1>4, <1>7, <2>2, <2>3, <2>4 DEF RequestsBehindContactor
    <2>6. /\ evState = "awaitChargingStatus" => NeverIn(toEv', "CurrentDemand")
          /\ evState \in BeforePower =>
                 NeverIn(toEv', "PowerDelivery") /\ NeverIn(toEv', "CurrentDemand")
      BY <1>3 DEF AnswersInOrder
    <2>7. evState' = "awaitCurrentDemand" =>
              NotAfter(toEv', "CurrentDemand", "PowerDelivery")
      BY <1>7, <2>1, NeverAndNotAfter
    <2>8. evState' = "awaitPowerDelivery" =>
              NotAfter(toEv', "PowerDelivery", "CurrentDemand")
      BY <1>7, <2>2, <2>6, NeverAndNotAfter
    <2>9. AnswersInOrder'
      BY <1>7, <2>1, <2>6, <2>7, <2>8 DEF AnswersInOrder
    <2> QED  BY <2>5, <2>9
  <1> QED  BY <1>1, <1>5, <1>6, <1>7

LEMMA EvForeignCurrent ==
    ASSUME TypeOK, RequestsBehindContactor, AnswersInOrder, NEW run, EvCycle(run)
    PROVE  RequestsBehindContactor' /\ AnswersInOrder'
  <1> DEFINE Goal == RequestsBehindContactor' /\ AnswersInOrder'
  <1> HIDE DEF Goal
  <1>0. SUFFICES Goal
    BY DEF Goal
  <1> PICK udp \in BOOLEAN, tcp \in BOOLEAN, tick \in BOOLEAN :
           EvCycleWith(run, udp, tcp, tick)
    BY DEF EvCycle
  <1> DEFINE rx == EvRx(udp, tcp)
  <1> HIDE DEF rx
  <1>1. EvTakesFrames(udp, tcp)
    BY DEF EvCycleWith
  <1>2. ASSUME NEW arg, NEW next, evState \in ExchangeStates,
               Req(Awaits(evState), arg) \in Requests,
               Exchange(rx, tcp, tick, arg, next),
               arg = "flow" => evState = "awaitCurrentDemand" /\ evContactor',
               evState \in ChargingStates /\ evContactor => evContactor',
               next # "awaitSdp",
               next = "awaitCurrentDemand" =>
                   evState \in {"awaitPowerDelivery", "awaitCurrentDemand"},
               evState = "awaitPowerDelivery" => next # "awaitPowerDelivery",
               evState = "awaitCurrentDemand" => next \in ChargingStates,
               next = "awaitChargingStatus" =>
                   evState \in {"awaitPowerDelivery", "awaitChargingStatus"},
               next = "awaitPowerDelivery" =>
                   evState \in BeforePower \cup {"awaitCurrentDemand", "awaitChargingStatus"},
               next \in BeforePower => evState \in BeforePower
        PROVE  Goal
    BY <1>1, <1>2, ExchangeCurrent DEF rx, Goal
  <1>3. \A a \in ReqArgs : Awaits(evState) # "ChargeParameterDiscovery"
                             => Req(Awaits(evState), a) \in Requests
    BY MessageTypes, MessageOfState
  <1>4. {NoArg, "iso", "Start", "Stop", "flow", "zero"} \subseteq ReqArgs
    BY DEF ReqArgs
  <1>5. NoArg # "flow"
    BY DEF NoArg
  <1>6. evState' \notin ExchangeStates \cup {"awaitSdp"} => Goal
    BY DEF RequestsBehindContactor, AnswersInOrder, ExchangeStates, ChargingStates,
           BeforePower, Goal
  <1>7. CASE EvIdle(tcp, run)
    <2>1. CASE run
      <3>1. evState' = "awaitSdp" /\ evSock' = "none" /\ toEv' = <<>>
        BY <1>7, <2>1 DEF EvIdle, EvGoto, EvCloses, ExchangeStates
      <3> QED
        BY <3>1, NeverAndNotAfter
        DEF RequestsBehindContactor, AnswersInOrder, ExchangeStates, ChargingStates, Goal
    <2>2. CASE ~run
      BY <1>6, <1>7, <2>2 DEF EvIdle, EvGoto, ExchangeStates
    <2> QED  BY <2>1, <2>2
  <1>8. CASE EvAwaitSdp(rx, tcp, tick)
    <2>1. /\ evState = "awaitSdp" /\ toSe' = toSe /\ toEv' = EvUnread(tcp)
          /\ evState' \in {"failure", "awaitSupportedAppProtocol", "awaitSdp"}
          /\ evState' = "awaitSupportedAppProtocol" => evSock' = "open"
      BY <1>8 DEF EvAwaitSdp, EvGoto, ExchangeStates
    <2>2. evSock' = "open" => evSock = "open"
      BY <1>8 DEF EvAwaitSdp
    <2>3. evState \in BeforePower /\ "awaitSupportedAppProtocol" \in BeforePower
      BY <2>1 DEF BeforePower
    <2>4. NeverIn(toEv', "PowerDelivery") /\ NeverIn(toEv', "CurrentDemand")
      BY <1>1, <2>1, <2>3, AnswersRead DEF AnswersInOrder
    <2>5. evSock = "open" => ~CurrentRequested'
      BY <2>1 DEF RequestsBehindContactor, CurrentRequested
    <2>6. RequestsBehindContactor'
      BY <2>1, <2>2, <2>5 DEF RequestsBehindContactor, ExchangeStates, ChargingStates
    <2>7. AnswersInOrder'
      BY <2>1, <2>4 DEF AnswersInOrder
    <2> QED  BY <2>6, <2>7 DEF Goal
  <1>9. CASE EvAwaitSupportedAppProtocol(rx, tcp, tick)
    BY <1>2, <1>3, <1>4, <1>5, <1>9
    DEF EvAwaitSupportedAppProtocol, ExchangeStates, ChargingStates, BeforePower, Awaits
  <1>10. CASE EvAwaitSessionSetup(rx, tcp, tick)
    BY <1>2, <1>3, <1>4, <1>5, <1>10
    DEF EvAwaitSessionSetup, ExchangeStates, ChargingStates, BeforePower, Awaits
  <1>11. CASE EvAwaitServiceDiscovery(rx, tcp, tick)
    <2>1. PICK next \in {"awaitPaymentServiceSelection", "failure"} :
               Exchange(rx, tcp, tick, NoArg, next)
      BY <1>11 DEF EvAwaitServiceDiscovery
    <2> QED
      BY <1>2, <1>3, <1>4, <1>5, <1>11, <2>1
      DEF EvAwaitServiceDiscovery, ExchangeStates, ChargingStates, BeforePower, Awaits
  <1>12. CASE EvAwaitPaymentServiceSelection(rx, tcp, tick)
    BY <1>2, <1>3, <1>4, <1>5, <1>12
    DEF EvAwaitPaymentServiceSelection, ExchangeStates, ChargingStates, BeforePower, Awaits
  <1>13. CASE EvAwaitAuthorization(rx, tcp, tick)
    BY <1>2, <1>3, <1>4, <1>5, <1>13
    DEF EvAwaitAuthorization, ExchangeStates, ChargingStates, BeforePower, Awaits
  <1>14. CASE EvAwaitChargeParameterDiscovery(rx, tcp, tick)
    <2>1. Req(Awaits(evState), evMode) \in Requests /\ evMode # "flow"
      <3>1. evMode \in Modes /\ evMode \in ReqArgs
        BY DEF TypeOK, EvTypeOK, ReqArgs
      <3>2. evMode # "flow"
        BY <3>1 DEF Modes, ACModes, DCModes
      <3> QED  BY <3>1, <3>2, MessageTypes, MessageOfState
    <2> QED
      BY <1>2, <1>14, <2>1
      DEF EvAwaitChargeParameterDiscovery, ExchangeStates, ChargingStates, BeforePower
  <1>15. CASE EvAwaitPowerDelivery(rx, tcp, tick)
    <2>1. PICK arg \in {"Start", "Stop"},
               next \in {"awaitChargingStatus", "awaitCurrentDemand",
                         "awaitSessionStop", "awaitWeldingDetection"} :
               Exchange(rx, tcp, tick, arg, next)
      BY <1>15 DEF EvAwaitPowerDelivery
    <2>2. evState = "awaitPowerDelivery" /\ evContactor' = evContactor
      BY <1>15 DEF EvAwaitPowerDelivery
    <2> QED
      BY <1>2, <1>3, <1>4, <2>1, <2>2
      DEF ExchangeStates, ChargingStates, BeforePower, Awaits
  <1>16. CASE EvAwaitChargingStatus(rx, tcp, tick)
    BY <1>2, <1>3, <1>4, <1>5, <1>16
    DEF EvAwaitChargingStatus, ExchangeStates, ChargingStates, BeforePower, Awaits
  <1>17. CASE EvAwaitCableCheck(rx, tcp, tick)
    BY <1>2, <1>3, <1>4, <1>5, <1>17
    DEF EvAwaitCableCheck, ExchangeStates, ChargingStates, BeforePower, Awaits
  <1>18. CASE EvAwaitPreCharge(rx, tcp, tick)
    <2>1. PICK next \in {"awaitPowerDelivery", "awaitPreCharge"} :
               Exchange(rx, tcp, tick, NoArg, next)
      BY <1>18 DEF EvAwaitPreCharge
    <2> QED
      BY <1>2, <1>3, <1>4, <1>5, <1>18, <2>1
      DEF EvAwaitPreCharge, ExchangeStates, ChargingStates, BeforePower, Awaits
  <1>19. CASE EvAwaitCurrentDemand(rx, tcp, tick)
    <2>1. /\ evState = "awaitCurrentDemand"
          /\ evContactor' = (evContactor \/ evEntered)
      BY <1>19 DEF EvAwaitCurrentDemand
    <2>2. evContactor => evContactor'
      BY <2>1 DEF TypeOK, EvTypeOK
    <2>3. PICK arg \in {"flow", "zero"},
               next \in {"awaitCurrentDemand", "awaitPowerDelivery"} :
               Exchange(rx, tcp, tick, arg, next) /\ (arg = "flow" => evContactor')
      BY <1>19 DEF EvAwaitCurrentDemand
    <2> QED
      BY <1>2, <1>3, <1>4, <2>1, <2>2, <2>3
      DEF ExchangeStates, ChargingStates, BeforePower, Awaits
  <1>20. CASE EvAwaitWeldingDetection(rx, tcp, tick)
    BY <1>2, <1>3, <1>4, <1>5, <1>20
    DEF EvAwaitWeldingDetection, ExchangeStates, ChargingStates, BeforePower, Awaits
  <1>21. CASE EvAwaitSessionStop(rx, tcp, tick)
    BY <1>2, <1>3, <1>4, <1>5, <1>21
    DEF EvAwaitSessionStop, ExchangeStates, ChargingStates, BeforePower, Awaits
  <1>22. CASE EvAwaitDisconnection(rx, tcp)
    BY <1>6, <1>22 DEF EvAwaitDisconnection, EvGoto, ExchangeStates
  <1>23. CASE EvFailure(rx, tcp, run)
    BY <1>6, <1>23 DEF EvFailure, EvGoto, ExchangeStates
  <1>24. CASE EvFinished(tcp, run)
    BY <1>6, <1>24 DEF EvFinished, EvGoto, ExchangeStates
  <1> QED
    BY <1>7, <1>8, <1>9, <1>10, <1>11, <1>12, <1>13, <1>14, <1>15,
       <1>16, <1>17, <1>18, <1>19, <1>20, <1>21, <1>22, <1>23, <1>24
    DEF EvCycleWith, rx

LEMMA ForeignNextCurrent ==
    TypeOK /\ CurrentInv /\ [ForeignNext]_foreignVars => CurrentInv'
  <1> SUFFICES ASSUME TypeOK, CurrentInv, [ForeignNext]_foreignVars, real = "vehicle",
                      RequestsBehindContactor, AnswersInOrder
               PROVE  RequestsBehindContactor' /\ AnswersInOrder'
    BY DEF CurrentInv, ForeignNext, foreignVars
  <1>1. CASE /\ UNCHANGED <<evState, evSock, evContactor, toEv>>
             /\ toSe' \in {<<>>, toSe}
    <2>1. CurrentRequested' => CurrentRequested
      BY <1>1 DEF CurrentRequested
    <2>2. RequestsBehindContactor'
      BY <1>1, <2>1 DEF RequestsBehindContactor
    <2>3. AnswersInOrder'
      BY <1>1 DEF AnswersInOrder
    <2> QED  BY <2>2, <2>3
  <1>2. CASE Ev
    BY <1>2, EvForeignCurrent DEF Ev
  <1>3. CASE User
    BY <1>1, <1>3 DEF User, EvSetEnable, linkVars
  <1>4. CASE HangUp \/ (ConnectFails /\ UNCHANGED <<evVars, seVars>>)
    <2>1. /\ evSock' = "lost" /\ UNCHANGED <<evState, evContactor, toSe>>
          /\ toEv' \in {<<>>, toEv}
      BY <1>4 DEF HangUp, EvNoticesHangUp, ConnectFails, evVars
    <2>2. AnswersInOrder'
      BY <2>1, NeverAndNotAfter DEF AnswersInOrder
    <2>3. CurrentRequested' => CurrentRequested
      BY <2>1 DEF CurrentRequested
    <2>4. RequestsBehindContactor'
      BY <2>1, <2>3, NeverAndNotAfter DEF RequestsBehindContactor
    <2> QED  BY <2>2, <2>4
  <1>5. CASE ConnectSucceeds /\ UNCHANGED <<evVars, seVars>>
    <2>1. toSe' = <<>> /\ toEv' = <<>>
      BY <1>5 DEF ConnectSucceeds
    <2>2. ~CurrentRequested'
      BY <2>1, NothingRequested
    <2> QED
      BY <2>1, <2>2, NeverAndNotAfter DEF RequestsBehindContactor, AnswersInOrder
  <1>6. CASE ForeignStation
    <2>1. UNCHANGED <<evState, evContactor>>
      BY <1>6 DEF ForeignStation, evVars
    <2>2. CASE StationOffers \/ StationLeaves
      BY <1>1, <2>1, <2>2 DEF StationOffers, StationLeaves
    <2>3. CASE StationAnswers
      <3>1. PICK t \in {Awaits(evState), "SessionSetup"}, r \in Responses :
                 toEv' = Append(toEv, r) /\ r.type = t
        <4>1. PICK t \in {Awaits(evState), "SessionSetup"}, ok \in BOOLEAN, sid \in Sids :
                   \E a \in ForeignArgs(t), m \in ForeignOffers(t) :
                       toEv' = Append(toEv, Res(t, ok, sid, a, m))
          BY <2>3 DEF StationAnswers
        <4>2. PICK a \in ForeignArgs(t), m \in ForeignOffers(t) :
                   toEv' = Append(toEv, Res(t, ok, sid, a, m))
          BY <4>1
        <4>3. t \in TcpTypes
          BY MessageOfState DEF TcpTypes
        <4>4. Res(t, ok, sid, a, m) \in Responses
          BY <4>3, ForeignMessages
        <4>5. Res(t, ok, sid, a, m).type = t
          BY DEF Res
        <4> QED  BY <4>2, <4>4, <4>5
      <3>2. toSe' = <<>> /\ evSock' = evSock
        BY <2>3 DEF StationAnswers
      <3>3. RequestsBehindContactor'
        BY <3>2, NothingRequested DEF RequestsBehindContactor
      <3>4. toEv \in Seq(Responses)
        BY DEF TypeOK, LinkTypeOK
      <3>5. /\ t = "CurrentDemand" => evState = "awaitCurrentDemand"
            /\ t = "PowerDelivery" => evState = "awaitPowerDelivery"
        BY DEF Awaits
      <3>6. AnswersInOrder'
        BY <2>1, <3>1, <3>4, <3>5, AddAnswer DEF AnswersInOrder, BeforePower
      <3> QED  BY <3>3, <3>6
    <2> QED  BY <1>6, <2>2, <2>3 DEF ForeignStation
  <1>7. CASE UNCHANGED foreignVars
    BY <1>1, <1>7 DEF foreignVars, vars, linkVars, evVars
  <1>8. real # "station"
    OBVIOUS
  <1> QED
    BY <1>2, <1>3, <1>4, <1>5, <1>6, <1>7, <1>8
    DEF ForeignNext, AtForeignStation, WithForeignVehicle

-----------------------------------------------------------------------------
(* The theorems *)

ForeignInv == TypeOK /\ SourceOnlyForPower /\ PilotInv /\ CurrentInv

LEMMA InitForeignInv == ForeignInit => ForeignInv
  <1> SUFFICES ASSUME ForeignInit PROVE ForeignInv
    OBVIOUS
  <1>1. Init
    BY DEF ForeignInit
  <1>2. evState = "idle" /\ evCp = "B" /\ ~psOn
    BY <1>1 DEF Init, EvInit, SeInit
  <1>3. TypeOK
    BY <1>1, InitTypeOK
  <1>4. SourceOnlyForPower
    BY <1>2 DEF SourceOnlyForPower
  <1>5. PilotInv
    BY <1>2 DEF PilotInv, DcStates
  <1>6. CurrentInv
    BY <1>2
    DEF CurrentInv, RequestsBehindContactor, AnswersInOrder, ExchangeStates,
        ChargingStates, BeforePower
  <1> QED  BY <1>3, <1>4, <1>5, <1>6 DEF ForeignInv

(* Every state of one machine of this stack with whatever peer satisfies   *)
(* the invariants above.                                                   *)
THEOREM ForeignInvariant == ForeignSpec => []ForeignInv
  <1>1. ForeignInv /\ [ForeignNext]_foreignVars => ForeignInv'
    BY ForeignNextTypeOK, ForeignNextSource, ForeignNextPilot, ForeignNextCurrent
    DEF ForeignInv
  <1> QED  BY InitForeignInv, <1>1, PTL DEF ForeignSpec

(* Whatever a vehicle asks the station for, in whatever order: the source  *)
(* is enabled in the power states only, or for one cycle after them.       *)
THEOREM AnyVehicleSource == ForeignSpec => []SourceOnlyForPower
  <1>1. ForeignInv => SourceOnlyForPower
    BY DEF ForeignInv
  <1> QED  BY <1>1, ForeignInvariant, PTL

(* Whatever a station answers, the vehicle shows pilot state C in the      *)
(* states of a direct current session only, or in the cycle that left them.*)
THEOREM AnyStationPilot == ForeignSpec => []PilotInPowerStates
  <1>1. ForeignInv => PilotInPowerStates
    BY DEF ForeignInv, PilotInv, PilotInPowerStates
  <1> QED  BY <1>1, ForeignInvariant, PTL

(* Whatever a station answers and however late it reads: in a session that *)
(* has not failed no request for current is under way while the vehicle's  *)
(* contactor is open, for any number of frames in the buffers.             *)
THEOREM AnyStationContactor == ForeignSpec => []NoCurrentThroughOpenContactor
  <1>1. ForeignInv => NoCurrentThroughOpenContactor
    BY DEF ForeignInv, CurrentInv, RequestsBehindContactor, ChargingStates,
           CurrentRequested, NoCurrentThroughOpenContactor
  <1> QED  BY <1>1, ForeignInvariant, PTL

=============================================================================
