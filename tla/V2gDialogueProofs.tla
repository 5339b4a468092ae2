-------------------------- MODULE V2gDialogueProofs --------------------------
(***************************************************************************)
(* Proof that vehicle and station, as V2gSession composes them, implement  *)
(* V2gDialogue: every step of one of them, of the network or of the user   *)
(* is a step of the dialogue or none.                                      *)
(***************************************************************************)
EXTENDS V2gPowerProofs

DialogueState == <<PhaseBar, SupplyBar, psOn>>

-----------------------------------------------------------------------------
(* The refinement mapping, read case by case *)

(* The phase of a vehicle that holds its connection in state s ... *)
PhaseIn(s) ==
    IF s \in {"awaitCableCheck", "awaitPreCharge"} THEN "preparing"
    ELSE IF s = "awaitPowerDelivery" THEN "switching"
    ELSE IF s \in {"awaitCurrentDemand", "awaitChargingStatus"} THEN "charging"
    ELSE IF s = "awaitWeldingDetection" THEN "stopping"
    ELSE IF s \in {"awaitSessionStop", "awaitDisconnection"} THEN "over"
    ELSE "agreeing"

(* ... and of one that does not, by what the station still holds. *)
PhaseLeft ==
    IF seSock = "none" /\ ~psOn THEN "apart"
    ELSE IF evState \in {"awaitDisconnection", "finished"} THEN "over"
    ELSE "broken"

Together == evSock = "open" /\ evState # "failure"

LEMMA PhaseRead ==
    /\ Together => PhaseBar = PhaseIn(evState)
    /\ ~Together => PhaseBar = PhaseLeft
    /\ Together' => PhaseBar' = PhaseIn(evState')
    /\ ~Together' => PhaseBar' = PhaseLeft'
  BY DEF PhaseBar, PhaseIn, PhaseLeft, Together

LEMMA SupplyRead ==
    /\ PhaseBar \in {"preparing", "switching", "charging", "stopping"} =>
          SupplyBar = IF IsAC3 THEN "AC" ELSE "DC"
    /\ PhaseBar \notin {"preparing", "switching", "charging", "stopping"} =>
          SupplyBar = "none"
    /\ PhaseBar' \in {"preparing", "switching", "charging", "stopping"} =>
          SupplyBar' = IF IsAC3' THEN "AC" ELSE "DC"
    /\ PhaseBar' \notin {"preparing", "switching", "charging", "stopping"} =>
          SupplyBar' = "none"
  BY DEF SupplyBar

(* A step that moves neither the phase nor the agreement nor the source.   *)
LEMMA SamePhase ==
    ASSUME PhaseBar' = PhaseBar, psOn' = psOn,
           \/ IsAC3' = IsAC3
           \/ PhaseBar \in {"apart", "agreeing", "over", "broken"}
    PROVE  UNCHANGED DialogueState
  <1>1. SupplyBar' = SupplyBar
    BY SupplyRead
  <1> QED  BY <1>1 DEF DialogueState

(* A step of the vehicle or of the network after which there is no session *)
(* (any more): the vehicle loses it, parts from the station, or is alone   *)
(* as before.                                                              *)
LEMMA LeftAlone ==
    ASSUME SafeToDisconnect, ~Together', UNCHANGED <<seSock, psOn>>,
           Together =>
               \/ seSock # "none"
               \/ evState = "awaitDisconnection",
           Together /\ evState # "awaitDisconnection" =>
               evState' \notin {"awaitDisconnection", "finished"},
           ~Together /\ evState' \in {"awaitDisconnection", "finished"} =>
               evState \in {"awaitDisconnection", "finished"}
    PROVE  \/ AbstractDialogue!Break \/ AbstractDialogue!Part
           \/ UNCHANGED DialogueState
  <1>1. PhaseBar' = PhaseLeft' /\ PhaseLeft' \in {"apart", "over", "broken"}
    BY PhaseRead DEF PhaseLeft
  <1>2. SupplyBar' = "none"
    BY <1>1, SupplyRead
  <1>3. CASE Together /\ evState = "awaitDisconnection"
    <2>1. PhaseBar = "over" /\ SupplyBar = "none" /\ ~psOn
      BY <1>3, PhaseRead, SupplyRead DEF PhaseIn, SafeToDisconnect
    <2>2. CASE PhaseBar' = "apart"
      BY <1>2, <2>1, <2>2 DEF AbstractDialogue!Part
    <2>3. CASE PhaseBar' = "over"
      BY <2>1, <2>3, SamePhase
    <2>4. CASE PhaseBar' = "broken"
      BY <1>2, <2>1, <2>4 DEF AbstractDialogue!Break
    <2> QED  BY <1>1, <2>2, <2>3, <2>4
  <1>4. CASE Together /\ evState # "awaitDisconnection"
    <2>1. PhaseBar \notin {"apart", "broken"}
      BY <1>4, PhaseRead DEF PhaseIn
    <2>2. PhaseBar' = "broken"
      BY <1>1, <1>4 DEF PhaseLeft
    <2> QED  BY <1>2, <2>1, <2>2 DEF AbstractDialogue!Break
  <1>5. CASE ~Together
    <2>1. PhaseBar = PhaseLeft /\ PhaseLeft \in {"apart", "over", "broken"}
      BY <1>5, PhaseRead DEF PhaseLeft
    <2>2. PhaseBar' = PhaseBar \/ (PhaseBar = "over" /\ PhaseBar' = "broken")
      BY <1>1, <1>5, <2>1 DEF PhaseLeft
    <2>3. CASE PhaseBar' = PhaseBar
      BY <2>1, <2>3, SamePhase
    <2>4. CASE PhaseBar = "over" /\ PhaseBar' = "broken"
      BY <1>2, <2>4 DEF AbstractDialogue!Break
    <2> QED  BY <2>2, <2>3, <2>4
  <1> QED  BY <1>3, <1>4, <1>5

-----------------------------------------------------------------------------
(* Steps of the vehicle *)

(* The common part of the exchange handlers: the vehicle stays, goes on or *)
(* fails, and fails where the dialogue breaks.                             *)
LEMMA ExchangeDialogue ==
    ASSUME TypeOK, SessionInv, evState \in ExchangeStates,
           NEW udp \in BOOLEAN, NEW tcp \in BOOLEAN, NEW tick \in BOOLEAN,
           EvTakesFrames(udp, tcp), tick => evTimer, UNCHANGED seVars,
           NEW arg, NEW next,
           Req(Awaits(evState), arg) \in Requests,
           Exchange(EvRx(udp, tcp), tcp, tick, arg, next),
           IsAC3' = IsAC3
    PROVE  \/ AbstractDialogue!Break \/ UNCHANGED DialogueState
           \/ /\ evState' = next /\ evState' # "failure"
              /\ Together /\ Together' /\ UNCHANGED psOn
  <1>1. /\ Linked /\ UNCHANGED <<evSock, seSock>>
        /\ evState' \in {evState, next, "failure"}
    <2> DEFINE rx == EvRx(udp, tcp)
    <2>1. /\ Linked /\ UNCHANGED <<evSock, seSock>>
          /\ Receives(rx, next) \/ Asks(arg) \/ Waits
      BY ExchangeSteps
    <2> HIDE DEF rx
    <2>2. evState' \in {evState, next, "failure"}
      BY <2>1 DEF Receives, Asks, Waits
    <2> QED  BY <2>1, <2>2
  <1>2. Together /\ psOn' = psOn /\ evState \notin {"awaitDisconnection", "failure"}
    BY <1>1 DEF Together, Linked, ExchangeStates, seVars
  <1>3. CASE evState' = "failure"
    <2>1. PhaseBar = PhaseIn(evState) /\ PhaseIn(evState) \notin {"apart", "broken"}
      BY <1>2, PhaseRead DEF PhaseIn
    <2>2. PhaseBar' = "broken"
      BY <1>1, <1>3, PhaseRead DEF Together, PhaseLeft, Linked
    <2>3. SupplyBar' = "none"
      BY <2>2, SupplyRead
    <2> QED  BY <1>2, <2>1, <2>2, <2>3 DEF AbstractDialogue!Break
  <1>4. CASE evState' = evState
    <2>1. Together'
      BY <1>1, <1>2, <1>4 DEF Together
    <2>2. PhaseBar' = PhaseBar
      BY <1>2, <1>4, <2>1, PhaseRead
    <2> QED  BY <1>2, <2>2, SamePhase
  <1>5. CASE evState' = next /\ evState' # "failure"
    BY <1>1, <1>2, <1>5 DEF Together
  <1> QED  BY <1>1, <1>3, <1>4, <1>5

(* What the steps that go on from one exchange to the next are. *)
Advances == Together /\ Together' /\ psOn' = psOn /\ IsAC3' = IsAC3

LEMMA AdvanceReads ==
    Advances =>
        /\ PhaseBar = PhaseIn(evState) /\ PhaseBar' = PhaseIn(evState')
        /\ PhaseBar \in {"preparing", "switching", "charging", "stopping"}
               => SupplyBar = IF IsAC3 THEN "AC" ELSE "DC"
        /\ PhaseBar \notin {"preparing", "switching", "charging", "stopping"}
               => SupplyBar = "none"
        /\ PhaseBar' \in {"preparing", "switching", "charging", "stopping"}
               => SupplyBar' = IF IsAC3 THEN "AC" ELSE "DC"
        /\ PhaseBar' \notin {"preparing", "switching", "charging", "stopping"}
               => SupplyBar' = "none"
        /\ psOn' = psOn /\ IsAC3' = IsAC3
  BY PhaseRead, SupplyRead DEF Advances

LEMMA SamePhaseAdvance ==
    Advances /\ PhaseIn(evState') = PhaseIn(evState) => UNCHANGED DialogueState
  BY AdvanceReads, SamePhase DEF Advances

LEMMA AdvanceAgrees ==
    ASSUME Advances, evState = "awaitChargeParameterDiscovery",
           evState' = IF IsAC3 THEN "awaitPowerDelivery" ELSE "awaitCableCheck"
    PROVE  AbstractDialogue!Agree
  <1>1. PhaseBar = "agreeing"
    BY AdvanceReads DEF PhaseIn
  <1>2. CASE IsAC3
    <2>1. PhaseBar' = "switching"
      BY <1>2, AdvanceReads DEF PhaseIn
    <2>2. SupplyBar' = "AC" /\ psOn' = psOn
      BY <1>2, <2>1, AdvanceReads
    <2> QED  BY <1>1, <2>1, <2>2 DEF AbstractDialogue!Agree
  <1>3. CASE ~IsAC3
    <2>1. PhaseBar' = "preparing"
      BY <1>3, AdvanceReads DEF PhaseIn
    <2>2. SupplyBar' = "DC" /\ psOn' = psOn
      BY <1>3, <2>1, AdvanceReads
    <2> QED  BY <1>1, <2>1, <2>2 DEF AbstractDialogue!Agree
  <1> QED  BY <1>2, <1>3

LEMMA AdvancePrepares ==
    ASSUME Advances, evState = "awaitPreCharge", evState' = "awaitPowerDelivery"
    PROVE  AbstractDialogue!Prepare
  <1>1. PhaseBar = "preparing" /\ PhaseBar' = "switching"
    BY AdvanceReads DEF PhaseIn
  <1>2. SupplyBar' = SupplyBar /\ psOn' = psOn
    BY <1>1, AdvanceReads
  <1> QED  BY <1>1, <1>2 DEF AbstractDialogue!Prepare

LEMMA AdvanceCharges ==
    ASSUME Advances, evState = "awaitPowerDelivery",
           evState' \in {"awaitChargingStatus", "awaitCurrentDemand"}
    PROVE  AbstractDialogue!Charge
  <1>1. PhaseBar = "switching" /\ PhaseBar' = "charging"
    BY AdvanceReads DEF PhaseIn
  <1>2. SupplyBar' = SupplyBar /\ psOn' = psOn
    BY <1>1, AdvanceReads
  <1> QED  BY <1>1, <1>2 DEF AbstractDialogue!Charge

LEMMA AdvanceEndsCharge ==
    ASSUME Advances, evState \in {"awaitChargingStatus", "awaitCurrentDemand"},
           evState' = "awaitPowerDelivery"
    PROVE  AbstractDialogue!EndCharge
  <1>1. PhaseBar = "charging" /\ PhaseBar' = "switching"
    BY AdvanceReads DEF PhaseIn
  <1>2. SupplyBar' = SupplyBar /\ psOn' = psOn
    BY <1>1, AdvanceReads
  <1> QED  BY <1>1, <1>2 DEF AbstractDialogue!EndCharge

LEMMA AdvanceStops ==
    ASSUME Advances, evState = "awaitPowerDelivery", ~IsAC3,
           evState' = "awaitWeldingDetection"
    PROVE  AbstractDialogue!Stop
  <1>1. PhaseBar = "switching" /\ PhaseBar' = "stopping"
    BY AdvanceReads DEF PhaseIn
  <1>2. SupplyBar = "DC" /\ SupplyBar' = SupplyBar /\ psOn' = psOn
    BY <1>1, AdvanceReads
  <1> QED  BY <1>1, <1>2 DEF AbstractDialogue!Stop

LEMMA AdvanceConcludes ==
    ASSUME Advances, ~psOn, evState' = "awaitSessionStop",
           \/ evState = "awaitPowerDelivery" /\ IsAC3
           \/ evState = "awaitWeldingDetection"
    PROVE  AbstractDialogue!Conclude
  <1>1. PhaseBar' = "over"
    BY AdvanceReads DEF PhaseIn
  <1>2. SupplyBar' = "none" /\ psOn' = psOn
    BY <1>1, AdvanceReads
  <1>3. \/ PhaseBar = "stopping"
        \/ PhaseBar = "switching" /\ SupplyBar = "AC"
    <2>1. CASE evState = "awaitPowerDelivery" /\ IsAC3
      <3>1. PhaseBar = "switching"
        BY <2>1, AdvanceReads DEF PhaseIn
      <3> QED  BY <2>1, <3>1, AdvanceReads
    <2>2. CASE evState = "awaitWeldingDetection"
      BY <2>2, AdvanceReads DEF PhaseIn
    <2> QED  BY <2>1, <2>2
  <1> QED  BY <1>1, <1>2, <1>3 DEF AbstractDialogue!Conclude

(* A cycle of the vehicle, handler by handler. *)
LEMMA EvDialogue ==
    ASSUME TypeOK, SessionInv, PowerInv, ConnectionUsed, PowerInv',
           NEW run, EvCycle(run), UNCHANGED seVars
    PROVE  [AbstractDialogue!Next]_(AbstractDialogue!dialogueVars)
  <1> PICK udp \in BOOLEAN, tcp \in BOOLEAN, tick \in BOOLEAN :
           EvCycleWith(run, udp, tcp, tick)
    BY DEF EvCycle
  <1> DEFINE rx == EvRx(udp, tcp)
             Abstract == [AbstractDialogue!Next]_(AbstractDialogue!dialogueVars)
  <1>a. UNCHANGED DialogueState \/ AbstractDialogue!Next => Abstract
    BY DEF DialogueState, AbstractDialogue!dialogueVars
  <1> SUFFICES Abstract
    OBVIOUS
  <1> HIDE DEF rx, Abstract
  <1>1. EvTakesFrames(udp, tcp) /\ (tick => evTimer)
    BY DEF EvCycleWith
  <1>2. ASSUME NEW arg, NEW next, evState \in ExchangeStates,
               Req(Awaits(evState), arg) \in Requests,
               Exchange(rx, tcp, tick, arg, next),
               IsAC3' = IsAC3
        PROVE  Abstract \/ (Advances /\ evState' = next)
    <2>1. \/ AbstractDialogue!Break \/ UNCHANGED DialogueState
          \/ evState' = next /\ Together /\ Together' /\ UNCHANGED psOn
      BY <1>1, <1>2, ExchangeDialogue DEF rx
    <2> QED  BY <1>2, <1>a, <2>1 DEF AbstractDialogue!Next, Advances
  <1>3. \A a \in ReqArgs : Awaits(evState) # "ChargeParameterDiscovery"
                             => Req(Awaits(evState), a) \in Requests
    BY MessageTypes, MessageOfState
  <1>4. {NoArg, "iso", "Start", "Stop", "flow", "zero"} \subseteq ReqArgs
    BY DEF ReqArgs
  <1>5. evMode' = evMode => IsAC3' = IsAC3
    BY DEF IsAC3
  <1>6. psOn' = psOn /\ (psOn /\ evState \in ExchangeStates => ~IsAC3)
    BY DEF seVars, PowerInv, EvPowered
  (* Exchanges that leave the phase as it is. *)
  <1>7. Advances /\ PhaseIn(evState') = PhaseIn(evState) => Abstract
    BY <1>a, SamePhaseAdvance
  <1>8. /\ \A s \in {"awaitSupportedAppProtocol", "awaitSessionSetup",
                     "awaitServiceDiscovery", "awaitPaymentServiceSelection",
                     "awaitAuthorization", "awaitChargeParameterDiscovery", "failure"} :
              PhaseIn(s) = "agreeing"
        /\ PhaseIn("awaitCableCheck") = PhaseIn("awaitPreCharge")
        /\ PhaseIn("awaitSessionStop") = PhaseIn("awaitDisconnection")
    BY DEF PhaseIn
  (* What is left when no exchange is going on. *)
  <1>9. ASSUME ~Together', seSock' = seSock,
               Together => evState = "awaitDisconnection",
               evState' \in {"awaitDisconnection", "finished"} =>
                   evState \in {"awaitDisconnection", "finished"}
        PROVE  Abstract
    <2>1. \/ AbstractDialogue!Break \/ AbstractDialogue!Part
          \/ UNCHANGED DialogueState
      BY <1>6, <1>9, LeftAlone DEF PowerInv
    <2> QED  BY <1>a, <2>1 DEF AbstractDialogue!Next
  <1> HIDE DEF Advances
  <1>10. CASE EvIdle(tcp, run)
    <2>1. evSock # "open" /\ evSock' # "open"
      BY <1>10 DEF EvIdle, EvCloses, ConnectionUsed, ExchangeStates
    <2> QED
      BY <1>9, <1>10, <2>1 DEF EvIdle, EvGoto, Together, ExchangeStates
  <1>11. CASE EvAwaitSdp(rx, tcp, tick)
    <2>1. CASE evSock = "open"
      <3>1. seSock # "none" /\ toEv = <<>> /\ sdpRess = 0
        BY <1>11, <2>1
        DEF EvAwaitSdp, SessionInv, FreshConnection, OneConnection, TypeOK, LinkTypeOK
      <3>2. ~udp /\ ~tcp
        BY <1>1, <3>1 DEF EvTakesFrames
      <3>3. rx.type # "Sdp"
        BY <3>2 DEF rx, EvRx, EmptyRes, Res
      <3>4. evSock' = "open" /\ evState' \in {"awaitSdp", "awaitSupportedAppProtocol"}
        BY <1>11, <2>1, <3>3 DEF EvAwaitSdp, EvGoto, ExchangeStates
      <3>5. Together /\ Together' /\ evState = "awaitSdp"
        BY <1>11, <2>1, <3>4 DEF EvAwaitSdp, Together
      <3>6. PhaseBar' = PhaseBar /\ PhaseBar = "agreeing"
        BY <3>4, <3>5, PhaseRead DEF PhaseIn
      <3>7. UNCHANGED DialogueState
        BY <1>6, <3>6, SamePhase
      <3> QED  BY <1>a, <3>7
    <2>2. CASE evSock # "open"
      <3>1. evSock' # "open" /\ evState' \in {"awaitSdp", "failure"} /\ seSock' = seSock
        BY <1>11, <2>2 DEF EvAwaitSdp, EvGoto, ExchangeStates
      <3> QED  BY <1>9, <2>2, <3>1 DEF Together
    <2> QED  BY <2>1, <2>2
  <1>12. CASE EvAwaitSupportedAppProtocol(rx, tcp, tick)
    <2>1. /\ evState = "awaitSupportedAppProtocol"
          /\ Abstract \/ (Advances /\ evState' = "awaitSessionSetup")
      BY <1>2, <1>3, <1>4, <1>5, <1>12
      DEF EvAwaitSupportedAppProtocol, ExchangeStates, Awaits
    <2> QED  BY <1>7, <1>8, <2>1
  <1>13. CASE EvAwaitSessionSetup(rx, tcp, tick)
    <2>1. /\ evState = "awaitSessionSetup"
          /\ Abstract \/ (Advances /\ evState' = "awaitServiceDiscovery")
      BY <1>2, <1>3, <1>4, <1>5, <1>13 DEF EvAwaitSessionSetup, ExchangeStates, Awaits
    <2> QED  BY <1>7, <1>8, <2>1
  <1>14. CASE EvAwaitServiceDiscovery(rx, tcp, tick)
    <2>1. IsAC3' = IsAC3
      BY <1>14 DEF EvAwaitServiceDiscovery, AdoptedMode, IsAC3
    <2>2. /\ evState = "awaitServiceDiscovery"
          /\ Abstract \/ (Advances /\ evState' \in {"awaitPaymentServiceSelection", "failure"})
      BY <1>2, <1>3, <1>4, <1>14, <2>1 DEF EvAwaitServiceDiscovery, ExchangeStates, Awaits
    <2> QED  BY <1>7, <1>8, <2>2
  <1>15. CASE EvAwaitPaymentServiceSelection(rx, tcp, tick)
    <2>1. /\ evState = "awaitPaymentServiceSelection"
          /\ Abstract \/ (Advances /\ evState' = "awaitAuthorization")
      BY <1>2, <1>3, <1>4, <1>5, <1>15
      DEF EvAwaitPaymentServiceSelection, ExchangeStates, Awaits
    <2> QED  BY <1>7, <1>8, <2>1
  <1>16. CASE EvAwaitAuthorization(rx, tcp, tick)
    <2>1. /\ evState = "awaitAuthorization"
          /\ Abstract \/ (Advances /\ evState' \in {"awaitAuthorization",
                                                    "awaitChargeParameterDiscovery"})
      BY <1>2, <1>3, <1>4, <1>5, <1>16 DEF EvAwaitAuthorization, ExchangeStates, Awaits
    <2> QED  BY <1>7, <1>8, <2>1
  <1>17. CASE EvAwaitChargeParameterDiscovery(rx, tcp, tick)
    <2>1. Req(Awaits(evState), evMode) \in Requests
      BY MessageTypes, MessageOfState DEF TypeOK, EvTypeOK, ReqArgs
    <2>2. /\ evState = "awaitChargeParameterDiscovery"
          /\ \/ Abstract
             \/ Advances /\ evState' = IF IsAC3 THEN "awaitPowerDelivery"
                                       ELSE "awaitCableCheck"
      BY <1>2, <1>5, <1>17, <2>1 DEF EvAwaitChargeParameterDiscovery, ExchangeStates
    <2> QED  BY <1>a, <2>2, AdvanceAgrees DEF AbstractDialogue!Next
  <1>18. CASE EvAwaitPowerDelivery(rx, tcp, tick)
    <2> DEFINE next == IF evEnable
                THEN IF IsAC3 THEN "awaitChargingStatus" ELSE "awaitCurrentDemand"
                ELSE IF IsAC3 THEN "awaitSessionStop" ELSE "awaitWeldingDetection"
               arg == IF evEnable THEN "Start" ELSE "Stop"
    <2>1. /\ Exchange(rx, tcp, tick, arg, next)
          /\ evState = "awaitPowerDelivery" /\ evMode' = evMode
      BY <1>18 DEF EvAwaitPowerDelivery
    <2>2. Req(Awaits(evState), arg) \in Requests /\ evState \in ExchangeStates
      BY <1>3, <1>4, <2>1 DEF ExchangeStates, Awaits
    <2>3. Abstract \/ (Advances /\ evState' = next)
      BY <1>2, <1>5, <2>1, <2>2
    <2>4. CASE Advances /\ evState' = next
      <3>1. CASE evEnable
        BY <2>1, <2>4, <3>1, AdvanceCharges, <1>a DEF AbstractDialogue!Next
      <3>2. CASE ~evEnable /\ IsAC3
        <4>1. ~psOn
          BY <1>6, <2>2, <3>2
        <4> QED  BY <2>1, <2>4, <3>2, <4>1, AdvanceConcludes, <1>a DEF AbstractDialogue!Next
      <3>3. CASE ~evEnable /\ ~IsAC3
        BY <2>1, <2>4, <3>3, AdvanceStops, <1>a DEF AbstractDialogue!Next
      <3> QED  BY <3>1, <3>2, <3>3
    <2> QED  BY <2>3, <2>4
  <1>19. CASE EvAwaitChargingStatus(rx, tcp, tick)
    <2>1. /\ evState = "awaitChargingStatus"
          /\ Abstract \/ (Advances /\ evState' \in {"awaitChargingStatus",
                                                    "awaitPowerDelivery"})
      BY <1>2, <1>3, <1>4, <1>5, <1>19 DEF EvAwaitChargingStatus, ExchangeStates, Awaits
    <2> QED  BY <1>7, <1>a, <2>1, AdvanceEndsCharge DEF AbstractDialogue!Next
  <1>20. CASE EvAwaitCableCheck(rx, tcp, tick)
    <2>1. /\ evState = "awaitCableCheck"
          /\ Abstract \/ (Advances /\ evState' \in {"awaitCableCheck", "awaitPreCharge"})
      BY <1>2, <1>3, <1>4, <1>5, <1>20 DEF EvAwaitCableCheck, ExchangeStates, Awaits
    <2> QED  BY <1>7, <1>8, <2>1
  <1>21. CASE EvAwaitPreCharge(rx, tcp, tick)
    <2> PICK next \in {"awaitPowerDelivery", "awaitPreCharge"} :
             Exchange(rx, tcp, tick, NoArg, next)
      BY <1>21 DEF EvAwaitPreCharge
    <2>1. evState = "awaitPreCharge" /\ evMode' = evMode
      BY <1>21 DEF EvAwaitPreCharge
    <2>2. Abstract \/ (Advances /\ evState' = next)
      BY <1>2, <1>3, <1>4, <1>5, <2>1 DEF ExchangeStates, Awaits
    <2> QED  BY <1>7, <1>a, <2>1, <2>2, AdvancePrepares DEF AbstractDialogue!Next
  <1>22. CASE EvAwaitCurrentDemand(rx, tcp, tick)
    <2> PICK arg \in {"flow", "zero"}, next \in {"awaitCurrentDemand", "awaitPowerDelivery"} :
             Exchange(rx, tcp, tick, arg, next)
      BY <1>22 DEF EvAwaitCurrentDemand
    <2>1. evState = "awaitCurrentDemand" /\ evMode' = evMode
      BY <1>22 DEF EvAwaitCurrentDemand
    <2>2. Abstract \/ (Advances /\ evState' = next)
      BY <1>2, <1>3, <1>4, <1>5, <2>1 DEF ExchangeStates, Awaits
    <2> QED  BY <1>7, <1>a, <2>1, <2>2, AdvanceEndsCharge DEF AbstractDialogue!Next
  <1>23. CASE EvAwaitWeldingDetection(rx, tcp, tick)
    <2>1. /\ evState = "awaitWeldingDetection"
          /\ Abstract \/ (Advances /\ evState' = "awaitSessionStop")
      BY <1>2, <1>3, <1>4, <1>5, <1>23 DEF EvAwaitWeldingDetection, ExchangeStates, Awaits
    <2>2. evState' = "awaitSessionStop" => ~psOn
      BY <1>6 DEF PowerInv, SafeToDisconnect
    <2> QED  BY <1>a, <2>1, <2>2, AdvanceConcludes DEF AbstractDialogue!Next
  <1>24. CASE EvAwaitSessionStop(rx, tcp, tick)
    <2>1. /\ evState = "awaitSessionStop"
          /\ Abstract \/ (Advances /\ evState' = "awaitDisconnection")
      BY <1>2, <1>3, <1>4, <1>5, <1>24 DEF EvAwaitSessionStop, ExchangeStates, Awaits
    <2> QED  BY <1>7, <1>8, <2>1
  <1>25. CASE EvAwaitDisconnection(rx, tcp)
    BY <1>9, <1>25
    DEF EvAwaitDisconnection, EvCloses, EvGoto, ExchangeStates, Together
  <1>26. CASE EvFailure(rx, tcp, run)
    <2>1. /\ ~Together /\ evState' \in {"failure", "idle"} /\ seSock' = seSock
          /\ evState = "failure"
      BY <1>26 DEF EvFailure, EvGoto, ExchangeStates, Together
    <2>2. evSock' # "open"
      BY <1>26 DEF EvFailure, EvCloses, ConnectionUsed, ExchangeStates
    <2> QED  BY <1>9, <2>1, <2>2 DEF Together
  <1>27. CASE EvFinished(tcp, run)
    <2>1. evSock # "open"
      BY <1>27 DEF EvFinished, ConnectionUsed, ExchangeStates
    <2> QED
      BY <1>9, <1>27, <2>1 DEF EvFinished, EvGoto, ExchangeStates, Together
  <1> QED
    BY <1>10, <1>11, <1>12, <1>13, <1>14, <1>15, <1>16, <1>17, <1>18, <1>19,
       <1>20, <1>21, <1>22, <1>23, <1>24, <1>25, <1>26, <1>27
    DEF EvCycleWith, rx

-----------------------------------------------------------------------------
(* Steps of the station *)

(* A connection is handed over or kept in a cycle, but none comes from     *)
(* nothing; and the source, unless the cycle answers a request, is only    *)
(* switched off.                                                           *)
LEMMA SeCycleReads ==
    ASSUME NEW udp \in BOOLEAN, NEW tcp \in BOOLEAN, NEW fin \in BOOLEAN,
           SeCycleWith(SeIsOperational, udp, tcp, fin), TypeOK
    PROVE  /\ seSock = "none" => seSock' = "none"
           /\ \/ \E s \in AnsweredStates : SeAnswer(SeRx(udp, tcp), fin, s)
              \/ psOn' => psOn
  <1> DEFINE rx == SeRx(udp, tcp)
  <1>1. ASSUME NEW keeps, SeClientAfter(keeps), keeps => HasClient(fin)
        PROVE  seSock = "none" => seSock' = "none"
    BY <1>1 DEF SeClientAfter, HasClient
  <1>2. ASSUME NEW s \in AnsweredStates, SeAnswer(rx, fin, s)
        PROVE  seSock = "none" => seSock' = "none"
    BY <1>1, <1>2 DEF SeAnswer
  <1>3. ASSUME NEW keeps, SeStays(keeps), keeps => HasClient(fin)
        PROVE  (seSock = "none" => seSock' = "none") /\ (psOn' => psOn)
    <2>1. psOn' => psOn
      BY <1>3 DEF SeStays
    <2> QED  BY <1>1, <1>3, <2>1 DEF SeStays
  <1>4. CASE \E s \in AnsweredStates : SeAnswer(rx, fin, s)
    BY <1>2, <1>4
  <1>5. CASE SeDropsOrWaits(rx, fin)
    BY <1>3, <1>5 DEF SeDropsOrWaits
  <1>6. CASE SeLostClient(fin, SeIsOperational)
    BY <1>3, <1>6 DEF SeLostClient
  <1>7. CASE SeSessionStopped(fin, SeIsOperational)
    BY <1>3, <1>7 DEF SeSessionStopped
  <1>8. CASE SeIdle(fin, SeIsOperational)
    BY <1>3, <1>8 DEF SeIdle
  <1>9. CASE SeFailure(fin, SeIsOperational)
    BY <1>3, <1>9 DEF SeFailure
  <1>10. CASE SeFinished(fin, SeIsOperational)
    BY <1>3, <1>10 DEF SeFinished
  <1> QED
    BY <1>4, <1>5, <1>6, <1>7, <1>8, <1>9, <1>10 DEF SeCycleWith

(* The station switches its source on for a request on its connection, and *)
(* for a vehicle that has not hung up only when it is preparing or         *)
(* charging, with direct current.                                          *)
LEMMA SeSwitchesOn ==
    ASSUME TypeOK, SessionInv, PowerInv, ConnectionUsed, PowerInv', ~psOn, psOn',
           SeCycle(SeIsOperational), UNCHANGED evVars
    PROVE  /\ seSock = "open"
           /\ evSock = "open" =>
                  evState \in {"awaitPreCharge", "awaitCurrentDemand"} /\ ~IsAC3
  <1> PICK udp \in BOOLEAN, tcp \in BOOLEAN, fin \in BOOLEAN :
           SeCycleWith(SeIsOperational, udp, tcp, fin)
    BY DEF SeCycle
  <1> DEFINE rx == SeRx(udp, tcp)
  <1>1. SeTakesFrames(udp, tcp, fin)
    BY DEF SeCycleWith
  <1> HIDE DEF rx
  <1>2. PICK s \in AnsweredStates : SeAnswer(rx, fin, s)
    BY SeCycleReads DEF rx
  <1>3. s \in {"answeredPreCharge", "answeredCurrentDemand"} /\ Answers(s) = rx.type
    BY <1>2, SourceAfterAnswer
  <1>4. rx.type \in {"PreCharge", "CurrentDemand"}
    BY <1>3, PowerAnswers
  <1>5. tcp
    BY <1>4 DEF rx, SeRx, EmptyReq, SdpReq, Req
  <1>6. seSock = "open" /\ rx = toSe[1] /\ toSe # <<>>
    BY <1>1, <1>5, SeReadsRequest DEF rx, SeTakesFrames
  <1>7. ASSUME evSock = "open"
        PROVE  evState \in {"awaitPreCharge", "awaitCurrentDemand"} /\ ~IsAC3
    <2>1. evState \in ExchangeStates
      BY <1>6, <1>7
      DEF ConnectionUsed, SessionInv, FreshConnection, PowerInv, NothingAfterStop
    <2>2. Awaits(evState) = rx.type
      BY <1>6, <2>1 DEF SessionInv, InStep, AboutToSend, RequestUnderWay, ResponseUnderWay
    <2>3. evState \in {"awaitPreCharge", "awaitCurrentDemand"}
      BY <1>4, <2>2, PowerAnswers
    <2>4. evState' = evState /\ IsAC3' = IsAC3
      BY DEF evVars, IsAC3
    <2>5. ~IsAC3
      BY <2>1, <2>4 DEF PowerInv, EvPowered
    <2> QED  BY <2>3, <2>5
  <1> QED  BY <1>6, <1>7

LEMMA SeDialogue ==
    ASSUME TypeOK, SessionInv, PowerInv, ConnectionUsed, PowerInv',
           SeCycle(SeIsOperational), UNCHANGED evVars
    PROVE  [AbstractDialogue!Next]_(AbstractDialogue!dialogueVars)
  <1> DEFINE Abstract == [AbstractDialogue!Next]_(AbstractDialogue!dialogueVars)
  <1>a. UNCHANGED DialogueState \/ AbstractDialogue!Next => Abstract
    BY DEF DialogueState, AbstractDialogue!dialogueVars
  <1> SUFFICES Abstract
    OBVIOUS
  <1> HIDE DEF Abstract
  <1>1. UNCHANGED <<evState, evSock>> /\ IsAC3' = IsAC3
    BY DEF SeCycle, SeCycleWith, evVars, IsAC3
  <1>2. seSock = "none" => seSock' = "none"
    BY SeCycleReads DEF SeCycle
  <1>3. psOn \in BOOLEAN /\ psOn' \in BOOLEAN
    BY SeCycleType DEF TypeOK, SeTypeOK
  <1>4. CASE Together
    <2>1. PhaseBar' = PhaseBar /\ PhaseBar = PhaseIn(evState)
      BY <1>1, <1>4, PhaseRead DEF Together
    <2>2. SupplyBar' = SupplyBar
      BY <1>1, <2>1, SupplyRead
    <2>3. CASE psOn' = psOn
      BY <1>1, <1>a, <2>1, <2>3, SamePhase
    <2>4. CASE psOn /\ ~psOn'
      BY <1>a, <2>1, <2>2, <2>4 DEF AbstractDialogue!Next, AbstractDialogue!SwitchOff
    <2>5. CASE ~psOn /\ psOn'
      <3>1. evState \in {"awaitPreCharge", "awaitCurrentDemand"} /\ ~IsAC3
        BY <1>4, <2>5, SeSwitchesOn DEF Together
      <3>2. PhaseBar \in {"preparing", "charging"}
        BY <2>1, <3>1 DEF PhaseIn
      <3>3. SupplyBar = "DC"
        BY <3>1, <3>2, SupplyRead
      <3> QED
        BY <1>a, <2>1, <2>2, <2>5, <3>2, <3>3
        DEF AbstractDialogue!Next, AbstractDialogue!SwitchOn
    <2> QED  BY <1>3, <2>3, <2>4, <2>5
  <1>5. CASE ~Together
    <2>1. /\ PhaseBar = PhaseLeft /\ PhaseBar' = PhaseLeft'
          /\ PhaseBar \in {"apart", "over", "broken"}
          /\ PhaseBar' \in {"apart", "over", "broken"}
      BY <1>1, <1>5, PhaseRead DEF Together, PhaseLeft
    <2>2. SupplyBar = "none" /\ SupplyBar' = "none"
      BY <2>1, SupplyRead
    <2>3. PhaseBar = "over" \/ PhaseBar' = "over" => ~psOn /\ psOn' = psOn
      BY <1>1, <1>3, <2>1 DEF PhaseLeft, PowerInv, SafeToDisconnect
    <2>4. PhaseBar = "apart" => psOn' = psOn /\ PhaseBar' = "apart"
      BY <1>2, <1>3, <2>1, SeSwitchesOn DEF PhaseLeft
    <2>5. CASE PhaseBar = "apart"
      BY <1>a, <2>4, <2>5, SamePhase
    <2>6. CASE PhaseBar = "over" /\ PhaseBar' = "over"
      BY <1>a, <2>3, <2>6, SamePhase
    <2>7. CASE PhaseBar = "over" /\ PhaseBar' = "apart"
      BY <1>a, <2>2, <2>3, <2>7 DEF AbstractDialogue!Next, AbstractDialogue!Part
    <2>8. CASE PhaseBar = "broken" /\ PhaseBar' = "apart"
      <3>1. ~psOn'
        BY <2>1, <2>8 DEF PhaseLeft
      <3> QED
        BY <1>3, <1>a, <2>2, <2>8, <3>1 DEF AbstractDialogue!Next, AbstractDialogue!Clear
    <2>9. CASE PhaseBar = "broken" /\ PhaseBar' = "broken"
      <3>1. CASE psOn' = psOn
        BY <1>a, <2>9, <3>1, SamePhase
      <3>2. CASE ~psOn /\ psOn'
        BY <1>a, <2>2, <2>9, <3>2 DEF AbstractDialogue!Next, AbstractDialogue!SwitchOn
      <3>3. CASE psOn /\ ~psOn'
        BY <1>a, <2>2, <2>9, <3>3 DEF AbstractDialogue!Next, AbstractDialogue!SwitchOff
      <3> QED  BY <1>3, <3>1, <3>2, <3>3
    <2>10. ~(PhaseBar = "over" /\ PhaseBar' = "broken")
           /\ ~(PhaseBar = "broken" /\ PhaseBar' = "over")
      BY <1>1, <2>1 DEF PhaseLeft
    <2> QED  BY <2>1, <2>5, <2>6, <2>7, <2>8, <2>9, <2>10
  <1> QED  BY <1>4, <1>5

-----------------------------------------------------------------------------
LEMMA InitDialogue == Init => AbstractDialogue!Init
  <1> SUFFICES ASSUME Init PROVE AbstractDialogue!Init
    OBVIOUS
  <1>1. evSock = "none" /\ seSock = "none" /\ psOn = FALSE
    BY DEF Init, LinkInit, SeInit
  <1>2. PhaseBar = "apart"
    BY <1>1, PhaseRead DEF Together, PhaseLeft
  <1> QED  BY <1>1, <1>2, SupplyRead DEF AbstractDialogue!Init

LEMMA NextDialogue ==
    ~SeQuits /\ TypeOK /\ SessionInv /\ PowerInv /\ ConnectionUsed /\ [Next]_vars
        => [AbstractDialogue!Next]_(AbstractDialogue!dialogueVars)
  <1> SUFFICES ASSUME ~SeQuits, TypeOK, SessionInv, PowerInv, ConnectionUsed, [Next]_vars
               PROVE  [AbstractDialogue!Next]_(AbstractDialogue!dialogueVars)
    OBVIOUS
  <1> DEFINE Abstract == [AbstractDialogue!Next]_(AbstractDialogue!dialogueVars)
  <1>a. UNCHANGED DialogueState \/ AbstractDialogue!Next => Abstract
    BY DEF DialogueState, AbstractDialogue!dialogueVars
  <1>b. PowerInv'
    BY NextPowerInv
  <1> SUFFICES Abstract
    OBVIOUS
  <1>1. CASE Ev
    BY <1>1, <1>b, EvDialogue DEF Ev
  <1>2. CASE Se
    BY <1>2, <1>b, SeDialogue DEF Se
  <1> HIDE DEF Abstract
  (* A step that leaves the vehicle, its connection and the source alone.  *)
  <1>c. ASSUME UNCHANGED <<evState, evMode, psOn>>,
               (evSock' = "open") = (evSock = "open"),
               (seSock' = "none") = (seSock = "none")
        PROVE  Abstract
    <2>1. PhaseBar' = PhaseBar /\ IsAC3' = IsAC3
      BY <1>c, PhaseRead DEF Together, PhaseLeft, IsAC3
    <2> QED  BY <1>a, <1>c, <2>1, SamePhase
  <1>d. ASSUME ~Together', UNCHANGED <<seSock, psOn>>,
               Together => seSock # "none" \/ evState = "awaitDisconnection",
               evState' \in {"awaitDisconnection", "finished"} =>
                   evState' = evState,
               Together /\ evState' = evState => evState = "awaitDisconnection"
        PROVE  Abstract
    <2>1. \/ AbstractDialogue!Break \/ AbstractDialogue!Part
          \/ UNCHANGED DialogueState
      BY <1>d, LeftAlone DEF PowerInv
    <2> QED  BY <1>a, <2>1 DEF AbstractDialogue!Next
  <1>3. CASE User
    BY <1>c, <1>3 DEF User, EvSetEnable, linkVars, seVars
  <1>4. CASE EvReboot
    <2>1. ~Together' /\ UNCHANGED <<seSock, psOn>> /\ evState' = "idle"
      BY <1>4 DEF EvReboot, EvRestart, EvCloses, Together, seVars
    <2>2. Together => seSock # "none" \/ evState = "awaitDisconnection"
      BY DEF Together, ConnectionUsed, SessionInv, InStep, Linked, FreshConnection
    <2>3. ~(Together /\ evState' = evState)
      BY <2>1 DEF Together, ConnectionUsed, ExchangeStates
    <2> QED  BY <1>d, <2>1, <2>2, <2>3
  <1>5. CASE SeDies
    <2>1. seState \in {"idle", "finished"}
      BY <1>5 DEF SeDies, SeCrash, SeNullClient
    <2>2. seSock = "none"
      BY <2>1 DEF SessionInv, OneConnection
    <2> QED  BY <1>c, <1>5, <2>2 DEF SeDies, SeCrash, evVars
  <1>6. CASE SeReboot
    BY <1>6 DEF SeReboot
  <1>7. CASE Pilot
    BY <1>c, <1>7 DEF Pilot, linkVars, evVars
  <1>8. CASE Connect
    <2>1. /\ evSock = "connecting" /\ seSock = "none" /\ evSock' = "open"
          /\ UNCHANGED <<evState, psOn>>
      BY <1>8 DEF Connect, ConnectSucceeds, evVars, seVars
    <2>2. evState = "awaitSdp" /\ seState = "answeredSdp"
      BY <2>1 DEF SessionInv, SdpFollowed, OneConnection
    <2>3. ~psOn
      BY <2>2 DEF PowerInv, SourceConfined, SePowerStates
    <2>4. PhaseBar = "apart" /\ PhaseBar' = "agreeing"
      BY <2>1, <2>2, <2>3, PhaseRead DEF Together, PhaseLeft, PhaseIn
    <2>5. SupplyBar = "none" /\ SupplyBar' = "none"
      BY <2>4, SupplyRead
    <2> QED
      BY <1>a, <2>1, <2>3, <2>4, <2>5 DEF AbstractDialogue!Next, AbstractDialogue!Meet
  <1>9. CASE Refuse
    BY <1>c, <1>9 DEF Refuse, ConnectFails, evVars, seVars
  <1>10. CASE Accept
    BY <1>c, <1>10 DEF Accept, AcceptThread, evVars, seVars
  <1>11. CASE HangUp
    <2>1. /\ evSock = "open" /\ seSock = "none" /\ ~Together'
          /\ UNCHANGED <<seSock, evState, psOn>>
      BY <1>11 DEF HangUp, EvNoticesHangUp, SeHungUp, Together, evVars, seVars
    <2>2. Together => evState = "awaitDisconnection"
      BY <2>1 DEF Together, ConnectionUsed, SessionInv, InStep, Linked, FreshConnection
    <2> QED  BY <1>d, <2>1, <2>2
  <1>12. CASE Lose
    BY <1>c, <1>12 DEF Lose, LoseSdpReq, LoseSdpRes, evVars, seVars
  <1>13. CASE UNCHANGED vars
    BY <1>c, <1>13 DEF vars, linkVars, evVars, seVars
  <1> QED
    BY <1>1, <1>2, <1>3, <1>4, <1>5, <1>6, <1>7, <1>8, <1>9, <1>10, <1>11,
       <1>12, <1>13
    DEF Next

(* Whatever the modes on both sides, the network's losses, the user and    *)
(* restarts of the vehicle's program do, vehicle and station meet, agree,  *)
(* prepare, charge, conclude and part in the order of V2gDialogue; their   *)
(* source is on only in the phases it allows; and a session that broke is  *)
(* cleared before the next begins.                                         *)
THEOREM DialogueImplemented ==
    ASSUME ~SeQuits
    PROVE  Spec => ImplementsDialogue
  <1>1. TypeOK /\ SessionInv /\ PowerInv /\ IdentityInv /\ [Next]_vars
            => [AbstractDialogue!Next]_(AbstractDialogue!dialogueVars)
    BY NextDialogue DEF IdentityInv
  <1> QED
    BY <1>1, InitDialogue, IdentityInvariant, PTL
    DEF Spec, ImplementsDialogue, AbstractDialogue!Spec

=============================================================================
