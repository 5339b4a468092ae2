---------------------------- MODULE V2gPowerProofs ----------------------------
(***************************************************************************)
(* Proofs about the station's power source, the vehicle's contactor, the   *)
(* session id and the transfer mode in V2gSession, on top of the proof     *)
(* that the two machines stay in step.                                     *)
(***************************************************************************)
EXTENDS V2gSessionProofs

-----------------------------------------------------------------------------
(* The three things a cycle of the vehicle can do in an exchange: take the *)
(* awaited response, send the request, or wait.                            *)

Receives(rx, next) ==
    /\ ResponseUnderWay /\ rx = toEv[1] /\ EvAnswered(rx)
    /\ toSe' = <<>> /\ toEv' = <<>>
    /\ evState' = IF EvValid(rx) THEN next ELSE "failure"

Asks(arg) ==
    /\ AboutToSend
    /\ evState' = evState /\ ~evEntered'
    /\ toSe' # <<>> /\ toSe'[1] = Req(Awaits(evState), arg) /\ toEv' = <<>>

Waits ==
    /\ evState' = evState /\ ~evEntered /\ ~evEntered'
    /\ toSe' = toSe /\ toEv' = toEv

LEMMA ExchangeSteps ==
    ASSUME TypeOK, SessionInv, evState \in ExchangeStates,
           NEW udp \in BOOLEAN, NEW tcp \in BOOLEAN, NEW tick \in BOOLEAN,
           EvTakesFrames(udp, tcp), tick => evTimer,
           NEW arg, NEW next,
           Req(Awaits(evState), arg) \in Requests,
           Exchange(EvRx(udp, tcp), tcp, tick, arg, next)
    PROVE  /\ Linked /\ UNCHANGED <<evSock, seSock>>
           /\ evEntered' = (evState' # evState)
           /\ \/ Receives(EvRx(udp, tcp), next)
              \/ Asks(arg) /\ EvRx(udp, tcp) = EmptyRes
              \/ Waits /\ EvRx(udp, tcp) = EmptyRes
  <1> DEFINE rx == EvRx(udp, tcp)
             req == Req(Awaits(evState), arg)
  <1>1. /\ Linked
        /\ tcp => ResponseUnderWay /\ EvAnswered(rx) /\ EvUnread(tcp) = <<>>
        /\ ~tcp => ~EvAnswered(rx) /\ EvUnread(tcp) = toEv
    BY ExchangeReads
  <1>2. UNCHANGED <<evSock, seSock>> /\ toEv' = EvUnread(tcp)
    BY DEF Exchange
  <1>3. /\ evState' = IF ~EvAnswered(rx) THEN evState
                      ELSE IF EvValid(rx) THEN next ELSE "failure"
        /\ evEntered' = (evState' # evState)
    BY <1>1 DEF Exchange, EvGoto, Linked
  <1>4. toSe' = IF EvSends(tick) THEN EvSent(req) ELSE toSe
    BY DEF Exchange
  <1>5. CASE tcp
    <2>1. ResponseUnderWay /\ EvAnswered(rx) /\ toEv' = <<>>
      BY <1>1, <1>2, <1>5
    <2>2. rx = toEv[1]
      <3>1. toEv # <<>> /\ toEv \in Seq(Responses) /\ evState \notin {"idle", "finished"}
        BY <1>5 DEF EvTakesFrames, TypeOK, LinkTypeOK, ExchangeStates
      <3> QED  BY <1>5, <3>1, ReadBuffer DEF EvRx
    <2>3. toSe' = <<>>
      BY <1>4, <2>1 DEF ResponseUnderWay, EvSends
    <2> QED  BY <1>1, <1>2, <1>3, <2>1, <2>2, <2>3 DEF Receives
  <1>6. CASE ~tcp
    <2>0. rx = EmptyRes
      BY <1>6, ExchangeReads DEF EvRx
    <2>1. toEv' = toEv /\ evState' = evState /\ ~evEntered'
      BY <1>1, <1>2, <1>3, <1>6
    <2>2. CASE EvSends(tick)
      <3>1. AboutToSend
        BY <2>2 DEF SessionInv, InStep, RequestUnderWay, ResponseUnderWay, EvSends
      <3>2. toSe' = Append(<<>>, req)
        BY <1>1, <1>4, <2>2, <3>1 DEF EvSent, Linked, AboutToSend
      <3> HIDE DEF req
      <3>3. toSe' # <<>> /\ toSe'[1] = req
        BY <3>2 DEF req
      <3> QED
        BY <1>1, <1>2, <1>3, <2>0, <2>1, <3>1, <3>3 DEF Asks, req, AboutToSend
    <2>3. CASE ~EvSends(tick)
      <3>1. toSe' = toSe /\ ~evEntered
        BY <1>4, <2>3 DEF EvSends, TypeOK, EvTypeOK
      <3> QED  BY <1>1, <1>2, <1>3, <2>0, <2>1, <3>1 DEF Waits
    <2> QED  BY <2>2, <2>3
  <1> QED  BY <1>5, <1>6

-----------------------------------------------------------------------------
(* The power source: steps of the vehicle *)

DcStates == {"awaitCableCheck", "awaitPreCharge", "awaitCurrentDemand",
             "awaitWeldingDetection"}

(* The states of a session with an enabled source, and what the source may *)
(* be while the response to their request is under way.                    *)
LEMMA PoweredDialogue ==
    /\ \A s \in ExchangeStates : Awaits(s) \in PowerTypes <=>
          s \in {"awaitPreCharge", "awaitPowerDelivery", "awaitCurrentDemand",
                 "awaitWeldingDetection"}
    /\ SourceConfined /\ psOn /\ ResponseUnderWay /\ evState \in ExchangeStates =>
          evState \in {"awaitPreCharge", "awaitPowerDelivery", "awaitCurrentDemand"}
  BY DEF Awaits, Answers, ExchangeStates, AnsweredStates, PowerTypes, SourceConfined,
         SePowerStates, ResponseUnderWay

(* The common part of the exchange handlers, given where the handler goes  *)
(* and what it does to the contactor.                                      *)
LEMMA ExchangePower ==
    ASSUME TypeOK, SessionInv, PowerInv, evState \in ExchangeStates,
           NEW udp \in BOOLEAN, NEW tcp \in BOOLEAN, NEW tick \in BOOLEAN,
           EvTakesFrames(udp, tcp), tick => evTimer, UNCHANGED seVars,
           NEW arg, NEW next,
           Req(Awaits(evState), arg) \in Requests,
           Exchange(EvRx(udp, tcp), tcp, tick, arg, next),
           IsAC3' = IsAC3,
           next \in DcStates => ~IsAC3,
           ~IsAC3 /\ evState \in {"awaitPreCharge", "awaitPowerDelivery", "awaitCurrentDemand"}
               => next \in {"awaitPreCharge", "awaitPowerDelivery", "awaitCurrentDemand",
                            "awaitWeldingDetection"},
           next = "awaitPreCharge" => evState \in {"awaitCableCheck", "awaitPreCharge"},
           next = "finished" => FALSE,
           evState \in {"awaitPowerDelivery", "awaitCurrentDemand"} /\ evContactor
               => evContactor',
           evState = "awaitCurrentDemand" /\ evEntered => evContactor'
    PROVE  PowerInv'
  <1> DEFINE rx == EvRx(udp, tcp)
  <1>1. /\ Linked /\ UNCHANGED <<evSock, seSock>>
        /\ evEntered' = (evState' # evState)
        /\ \/ Receives(rx, next) \/ Asks(arg) \/ Waits
    BY ExchangeSteps
  <1> HIDE DEF rx
  <1>2. UNCHANGED <<psOn, psAmps, seState>>
    BY DEF seVars
  <1>3. "failure" \notin ExchangeStates /\ "awaitDisconnection" \notin ExchangeStates
            /\ "finished" \notin ExchangeStates
    BY DEF ExchangeStates
  <1>4. SourceConfined'
    BY <1>2 DEF PowerInv, SourceConfined
  <1>5. psOn => ~IsAC3 /\ evState \in {"awaitPreCharge", "awaitPowerDelivery",
                                       "awaitCurrentDemand", "awaitWeldingDetection"}
    BY PoweredDialogue DEF PowerInv, EvPowered
  <1>6. psOn /\ ResponseUnderWay =>
            evState \in {"awaitPreCharge", "awaitPowerDelivery", "awaitCurrentDemand"}
    BY PoweredDialogue DEF PowerInv
  <1>7. CASE Receives(rx, next)
    <2>1. /\ ResponseUnderWay /\ toSe' = <<>>
          /\ evState' = next \/ evState' = "failure"
      BY <1>7 DEF Receives
    <2>2. PowerRequested' /\ NothingAfterStop'
      BY <2>1 DEF PowerRequested, NothingAfterStop
    <2>3. psOn => ~IsAC3 /\ evState' \in {"failure", "awaitPreCharge", "awaitPowerDelivery",
                                          "awaitCurrentDemand", "awaitWeldingDetection"}
      BY <1>5, <1>6, <2>1
    <2>4. EvPowered'
      <3>1. psOn' /\ evState' \in ExchangeStates => ~IsAC3' /\ Awaits(evState') \in PowerTypes
        BY <1>2, <1>3, <2>3, PoweredDialogue
      <3>2. evState' \in DcStates => ~IsAC3'
        BY <2>1 DEF DcStates
      <3> QED  BY <3>1, <3>2 DEF EvPowered, DcStates
    <2>5. SafeToDisconnect'
      BY <1>2, <2>3 DEF SafeToDisconnect
    <2>6. ContactorFirst'
      <3>1. evState' = "awaitCurrentDemand" /\ ~evEntered' => evContactor'
        BY <1>1, <2>1 DEF PowerInv, ContactorFirst, TypeOK, EvTypeOK
      <3>2. evState' = "awaitPreCharge" => ~(psOn' /\ psAmps')
        BY <1>2, <1>5, <2>1 DEF PowerInv, ContactorFirst
      <3>3. evState' \in {"awaitCurrentDemand", "awaitPowerDelivery"} /\ psOn' /\ psAmps'
                => evContactor'
        BY <1>2, <1>5, <1>6, <2>1 DEF PowerInv, ContactorFirst
      <3> QED  BY <3>1, <3>2, <3>3 DEF ContactorFirst
    <2> QED  BY <1>4, <2>2, <2>4, <2>5, <2>6 DEF PowerInv
  <1>8. CASE Asks(arg) \/ Waits
    <2>1. evState' = evState /\ ~evEntered'
      BY <1>8 DEF Asks, Waits
    <2>2. PowerRequested'
      <3>1. CASE Asks(arg)
        <4>1. toSe'[1].type = Awaits(evState)
          BY <3>1 DEF Asks, Req
        <4> QED
          BY <1>2, <1>5, <4>1, PoweredDialogue DEF PowerRequested
      <3>2. CASE Waits
        BY <1>1, <1>2, <3>2 DEF Waits, PowerInv, PowerRequested
      <3> QED  BY <1>8, <3>1, <3>2
    <2>3. NothingAfterStop' /\ SafeToDisconnect' /\ EvPowered'
      BY <1>2, <1>3, <2>1
      DEF PowerInv, NothingAfterStop, SafeToDisconnect, EvPowered
    <2>4. ContactorFirst'
      BY <1>2, <2>1 DEF PowerInv, ContactorFirst, TypeOK, EvTypeOK
    <2> QED  BY <1>4, <2>2, <2>3, <2>4 DEF PowerInv
  <1> QED  BY <1>1, <1>7, <1>8

(* A cycle of the vehicle, handler by handler. *)
LEMMA EvPower ==
    ASSUME TypeOK, SessionInv, PowerInv, NEW run, EvCycle(run), UNCHANGED seVars
    PROVE  PowerInv'
  <1> PICK udp \in BOOLEAN, tcp \in BOOLEAN, tick \in BOOLEAN :
           EvCycleWith(run, udp, tcp, tick)
    BY DEF EvCycle
  <1> DEFINE rx == EvRx(udp, tcp)
  <1> HIDE DEF rx
  <1>1. EvTakesFrames(udp, tcp) /\ (tick => evTimer)
    BY DEF EvCycleWith
  <1>2. ASSUME NEW arg, NEW next, evState \in ExchangeStates,
               Req(Awaits(evState), arg) \in Requests,
               Exchange(rx, tcp, tick, arg, next),
               IsAC3' = IsAC3,
               next \in DcStates => ~IsAC3,
               ~IsAC3 /\ evState \in {"awaitPreCharge", "awaitPowerDelivery",
                                      "awaitCurrentDemand"}
                   => next \in {"awaitPreCharge", "awaitPowerDelivery",
                               "awaitCurrentDemand", "awaitWeldingDetection"},
               next = "awaitPreCharge" => evState \in {"awaitCableCheck", "awaitPreCharge"},
               next = "finished" => FALSE,
               evState \in {"awaitPowerDelivery", "awaitCurrentDemand"} /\ evContactor
                   => evContactor',
               evState = "awaitCurrentDemand" /\ evEntered => evContactor'
        PROVE  PowerInv'
    BY <1>1, <1>2, ExchangePower DEF rx
  <1>3. \A a \in ReqArgs : Awaits(evState) # "ChargeParameterDiscovery"
                             => Req(Awaits(evState), a) \in Requests
    BY MessageTypes, MessageOfState
  <1>4. {NoArg, "iso", "Start", "Stop", "flow", "zero"} \subseteq ReqArgs
    BY DEF ReqArgs
  <1>5. evMode' = evMode => IsAC3' = IsAC3
    BY DEF IsAC3
  <1>6. ASSUME evState' \notin ExchangeStates, toSe' = toSe, seSock' = seSock,
               evState' \in {"awaitDisconnection", "finished"} =>
                   ~psOn /\ toSe = <<>>
        PROVE  PowerInv'
    <2>1. UNCHANGED <<psOn, psAmps, seState>>
      BY DEF seVars
    <2>2. SourceConfined' /\ PowerRequested' /\ NothingAfterStop'
      BY <1>6, <2>1 DEF PowerInv, SourceConfined, PowerRequested, NothingAfterStop
    <2>3. SafeToDisconnect' /\ EvPowered' /\ ContactorFirst'
      BY <1>6, <2>1 DEF SafeToDisconnect, EvPowered, ContactorFirst, ExchangeStates
    <2> QED  BY <2>2, <2>3 DEF PowerInv
  <1>7. CASE EvIdle(tcp, run)
    BY <1>6, <1>7 DEF EvIdle, EvGoto, ExchangeStates
  <1>8. CASE EvAwaitSdp(rx, tcp, tick)
    <2>1. /\ evState = "awaitSdp" /\ toSe' = toSe /\ seSock' = seSock
          /\ evState' \in {"failure", "awaitSupportedAppProtocol", "awaitSdp"}
          /\ evState' = "awaitSupportedAppProtocol" => evSock' = "open"
      BY <1>8 DEF EvAwaitSdp, EvGoto, ExchangeStates
    <2>2. CASE evState' # "awaitSupportedAppProtocol"
      BY <1>6, <2>1, <2>2 DEF ExchangeStates
    <2>3. CASE evState' = "awaitSupportedAppProtocol"
      <3>1. evSock = "open"
        BY <1>8, <2>1, <2>3 DEF EvAwaitSdp
      <3>2. seState = "answeredSdp" /\ toSe = <<>>
        BY <2>1, <3>1 DEF SessionInv, FreshConnection
      <3>3. ~psOn /\ ~psOn' /\ seState' = seState
        BY <3>2 DEF PowerInv, SourceConfined, SePowerStates, seVars
      <3> QED
        BY <2>1, <2>3, <3>2, <3>3
        DEF PowerInv, SourceConfined, PowerRequested, NothingAfterStop,
            SafeToDisconnect, EvPowered, ContactorFirst
    <2> QED  BY <2>2, <2>3
  <1>9. CASE EvAwaitSupportedAppProtocol(rx, tcp, tick)
    BY <1>2, <1>3, <1>4, <1>5, <1>9
    DEF EvAwaitSupportedAppProtocol, ExchangeStates, Awaits, DcStates
  <1>10. CASE EvAwaitSessionSetup(rx, tcp, tick)
    BY <1>2, <1>3, <1>4, <1>5, <1>10
    DEF EvAwaitSessionSetup, ExchangeStates, Awaits, DcStates
  <1>11. CASE EvAwaitServiceDiscovery(rx, tcp, tick)
    <2>1. IsAC3' = IsAC3
      BY <1>11 DEF EvAwaitServiceDiscovery, AdoptedMode, IsAC3
    <2> QED
      BY <1>2, <1>3, <1>4, <1>11, <2>1
      DEF EvAwaitServiceDiscovery, ExchangeStates, Awaits, DcStates
  <1>12. CASE EvAwaitPaymentServiceSelection(rx, tcp, tick)
    BY <1>2, <1>3, <1>4, <1>5, <1>12
    DEF EvAwaitPaymentServiceSelection, ExchangeStates, Awaits, DcStates
  <1>13. CASE EvAwaitAuthorization(rx, tcp, tick)
    BY <1>2, <1>3, <1>4, <1>5, <1>13
    DEF EvAwaitAuthorization, ExchangeStates, Awaits, DcStates
  <1>14. CASE EvAwaitChargeParameterDiscovery(rx, tcp, tick)
    <2>1. Req(Awaits(evState), evMode) \in Requests
      BY MessageTypes, MessageOfState DEF TypeOK, EvTypeOK, ReqArgs
    <2> QED
      BY <1>2, <1>5, <1>14, <2>1
      DEF EvAwaitChargeParameterDiscovery, ExchangeStates, DcStates
  <1>15. CASE EvAwaitPowerDelivery(rx, tcp, tick)
    <2> DEFINE next == IF evEnable
                THEN IF IsAC3 THEN "awaitChargingStatus" ELSE "awaitCurrentDemand"
                ELSE IF IsAC3 THEN "awaitSessionStop" ELSE "awaitWeldingDetection"
               arg == IF evEnable THEN "Start" ELSE "Stop"
    <2>1. Exchange(rx, tcp, tick, arg, next) /\ evState = "awaitPowerDelivery"
      BY <1>15 DEF EvAwaitPowerDelivery
    <2>2. UNCHANGED <<evMode, evContactor>>
      BY <1>15 DEF EvAwaitPowerDelivery
    <2> QED
      BY <1>2, <1>3, <1>4, <1>5, <2>1, <2>2 DEF ExchangeStates, Awaits, DcStates
  <1>16. CASE EvAwaitChargingStatus(rx, tcp, tick)
    BY <1>2, <1>3, <1>4, <1>5, <1>16
    DEF EvAwaitChargingStatus, ExchangeStates, Awaits, DcStates
  <1>17. CASE EvAwaitCableCheck(rx, tcp, tick)
    <2>1. ~IsAC3
      BY <1>17 DEF EvAwaitCableCheck, PowerInv, EvPowered
    <2> QED
      BY <1>2, <1>3, <1>4, <1>5, <1>17, <2>1
      DEF EvAwaitCableCheck, ExchangeStates, Awaits, DcStates
  <1>18. CASE EvAwaitPreCharge(rx, tcp, tick)
    <2>1. ~IsAC3
      BY <1>18 DEF EvAwaitPreCharge, PowerInv, EvPowered
    <2> QED
      BY <1>2, <1>3, <1>4, <1>5, <1>18, <2>1
      DEF EvAwaitPreCharge, ExchangeStates, Awaits, DcStates
  <1>19. CASE EvAwaitCurrentDemand(rx, tcp, tick)
    <2>1. ~IsAC3
      BY <1>19 DEF EvAwaitCurrentDemand, PowerInv, EvPowered
    <2> PICK arg \in {"flow", "zero"}, next \in {"awaitCurrentDemand", "awaitPowerDelivery"} :
             Exchange(rx, tcp, tick, arg, next)
      BY <1>19 DEF EvAwaitCurrentDemand
    <2>2. /\ evState = "awaitCurrentDemand" /\ evMode' = evMode
          /\ evContactor' = (evContactor \/ evEntered)
      BY <1>19 DEF EvAwaitCurrentDemand
    <2>3. (evContactor => evContactor') /\ (evEntered => evContactor')
      BY <2>2 DEF TypeOK, EvTypeOK
    <2> QED
      BY <1>2, <1>3, <1>4, <1>5, <2>1, <2>2, <2>3 DEF ExchangeStates, Awaits, DcStates
  <1>20. CASE EvAwaitWeldingDetection(rx, tcp, tick)
    BY <1>2, <1>3, <1>4, <1>5, <1>20
    DEF EvAwaitWeldingDetection, ExchangeStates, Awaits, DcStates
  <1>21. CASE EvAwaitSessionStop(rx, tcp, tick)
    BY <1>2, <1>3, <1>4, <1>5, <1>21
    DEF EvAwaitSessionStop, ExchangeStates, Awaits, DcStates
  <1>22. CASE EvAwaitDisconnection(rx, tcp)
    BY <1>6, <1>22
    DEF EvAwaitDisconnection, EvGoto, ExchangeStates, PowerInv, SafeToDisconnect,
        NothingAfterStop
  <1>23. CASE EvFailure(rx, tcp, run)
    BY <1>6, <1>23 DEF EvFailure, EvGoto, ExchangeStates
  <1>24. CASE EvFinished(tcp, run)
    BY <1>6, <1>24
    DEF EvFinished, EvGoto, ExchangeStates, PowerInv, SafeToDisconnect, NothingAfterStop
  <1> QED
    BY <1>7, <1>8, <1>9, <1>10, <1>11, <1>12, <1>13, <1>14, <1>15, <1>16, <1>17,
       <1>18, <1>19, <1>20, <1>21, <1>22, <1>23, <1>24
    DEF EvCycleWith, rx

-----------------------------------------------------------------------------
(* The power source: steps of the station *)

(* What answering does to the source, and where it leads while the source  *)
(* stays enabled.                                                          *)
LEMMA SourceAfterAnswer ==
    ASSUME TypeOK, NEW rx, NEW fin \in BOOLEAN, NEW s \in AnsweredStates,
           SeAnswer(rx, fin, s)
    PROVE  /\ psOn' => \/ s \in {"answeredPreCharge", "answeredCurrentDemand"}
                       \/ psOn /\ seState \in SePowerStates /\ s # "answeredWeldingDetection"
           /\ psOn' /\ psAmps' => \/ s = "answeredCurrentDemand"
                                  \/ s # "answeredPreCharge" /\ psOn /\ psAmps
           /\ s # "answeredSupportedAppProtocol" => seState' = s
           /\ s \in Successors(seState) /\ Answers(s) = rx.type
  <1>1. /\ EdgeTaken(rx, fin, s) /\ SePowers(s, rx)
        /\ s # "answeredSupportedAppProtocol" => seState' = s
    BY DEF SeAnswer
  <1>2. CASE s = "answeredPreCharge"
    <2>1. psAmps' = FALSE
      BY <1>1, <1>2 DEF SePowers
    <2> QED  BY <1>1, <1>2, <2>1 DEF EdgeTaken
  <1>3. CASE s = "answeredCurrentDemand"
    BY <1>1, <1>3 DEF EdgeTaken
  <1>4. CASE s = "answeredWeldingDetection"
    <2>1. psOn' = FALSE
      BY <1>1, <1>4 DEF SePowers
    <2> QED  BY <1>1, <1>4, <2>1 DEF EdgeTaken
  <1>5. CASE s \notin {"answeredPreCharge", "answeredCurrentDemand", "answeredWeldingDetection"}
    <2>1. psOn' = (PsKept /\ psOn) /\ psAmps' = (PsKept /\ psAmps)
      BY <1>1, <1>5 DEF SePowers
    <2> QED  BY <1>1, <1>5, <2>1 DEF EdgeTaken, PsKept
  <1> QED  BY <1>2, <1>3, <1>4, <1>5

(* The answers to the requests of the power states are power states, but   *)
(* for WeldingDetection.                                                   *)
LEMMA PowerAnswers ==
    /\ \A s : Answers(s) \in PowerTypes =>
          s \in SePowerStates \cup {"answeredWeldingDetection"}
    /\ Answers("answeredPreCharge") = "PreCharge"
    /\ Answers("answeredCurrentDemand") = "CurrentDemand"
    /\ "answeredSupportedAppProtocol" \notin SePowerStates
    /\ "awaitSdp" \notin SePowerStates
    /\ \A s : Awaits(s) = "CurrentDemand" => s = "awaitCurrentDemand"
    /\ \A s : Awaits(s) = "PreCharge" => s = "awaitPreCharge"
    /\ Awaits("awaitSessionStop") \notin PowerTypes
    /\ {"PreCharge", "CurrentDemand"} \subseteq PowerTypes
  BY DEF Answers, Awaits, PowerTypes, SePowerStates

(* A cycle of the station that answers a request. *)
LEMMA SeAnswerPower ==
    ASSUME TypeOK, SessionInv, PowerInv, UNCHANGED <<evVars, evSock>>,
           NEW udp \in BOOLEAN, NEW tcp \in BOOLEAN, NEW fin \in BOOLEAN,
           SeTakesFrames(udp, tcp, fin),
           NEW s \in AnsweredStates,
           SeAnswer(SeRx(udp, tcp), fin, s),
           toSe' = IF seSock' = "none" \/ fin THEN <<>> ELSE SeUnread(tcp)
    PROVE  PowerInv'
  <1> DEFINE rx == SeRx(udp, tcp)
  <1>1. /\ psOn' => \/ s \in {"answeredPreCharge", "answeredCurrentDemand"}
                    \/ psOn /\ seState \in SePowerStates /\ s # "answeredWeldingDetection"
        /\ psOn' /\ psAmps' => \/ s = "answeredCurrentDemand"
                               \/ s # "answeredPreCharge" /\ psOn /\ psAmps
        /\ s # "answeredSupportedAppProtocol" => seState' = s
        /\ s \in Successors(seState) /\ Answers(s) = rx.type
    BY SourceAfterAnswer
  <1>2. UNCHANGED <<evState, evEntered, evMode, evContactor, evSock>> /\ IsAC3' = IsAC3
    BY DEF evVars, IsAC3
  <1>3. CASE tcp
    <2>1. /\ rx = toSe[1] /\ SeUnread(tcp) = <<>> /\ toSe # <<>>
          /\ seSock # "none"
      BY <1>3, SeReadsRequest DEF SeTakesFrames
    <2> HIDE DEF rx
    <2>2. toSe' = <<>>
      BY <2>1
    <2>3. PowerRequested' /\ NothingAfterStop'
      BY <2>2 DEF PowerRequested, NothingAfterStop
    <2>4. psOn /\ psOn' => rx.type \in PowerTypes
      BY <2>1 DEF PowerInv, PowerRequested
    <2>5. SourceConfined'
      BY <1>1, <2>4, PowerAnswers DEF SourceConfined, SePowerStates
    <2>6. evState \in ExchangeStates =>
              ~evEntered /\ Awaits(evState) = rx.type
      BY <2>1 DEF SessionInv, InStep, AboutToSend, RequestUnderWay, ResponseUnderWay
    <2>7. EvPowered'
      <3>1. ASSUME psOn', evState \in ExchangeStates
            PROVE  ~IsAC3 /\ Awaits(evState) \in PowerTypes
        <4>1. CASE s \in {"answeredPreCharge", "answeredCurrentDemand"}
          BY <1>1, <2>6, <3>1, <4>1, PowerAnswers DEF PowerInv, EvPowered
        <4>2. CASE psOn
          BY <3>1, <4>2 DEF PowerInv, EvPowered
        <4> QED  BY <1>1, <3>1, <4>1, <4>2
      <3> QED  BY <1>2, <3>1 DEF PowerInv, EvPowered
    <2>8. SafeToDisconnect'
      <3>1. evState \notin {"awaitDisconnection", "finished"}
        BY <2>1 DEF PowerInv, NothingAfterStop
      <3>2. evState = "awaitSessionStop" => ~psOn'
        BY <1>2, <2>7, PowerAnswers DEF EvPowered, ExchangeStates
      <3> QED  BY <1>2, <3>1, <3>2 DEF SafeToDisconnect
    <2>9. ContactorFirst'
      <3>1. ASSUME s = "answeredCurrentDemand"
            PROVE  /\ evState \in {"awaitCurrentDemand", "awaitPowerDelivery"} => evContactor
                   /\ evState # "awaitPreCharge"
        <4>1. evState \in ExchangeStates => evState = "awaitCurrentDemand" /\ ~evEntered
          BY <1>1, <2>6, <3>1, PowerAnswers
        <4> QED  BY <4>1 DEF PowerInv, ContactorFirst, ExchangeStates
      <3> QED  BY <1>1, <1>2, <3>1 DEF PowerInv, ContactorFirst
    <2> QED  BY <2>3, <2>5, <2>7, <2>8, <2>9 DEF PowerInv
  <1>4. CASE ~tcp
    <2>1. rx \in {SdpReq, EmptyReq} /\ SeUnread(tcp) = toSe
      BY <1>4 DEF SeRx, SeUnread
    <2>2. s = "answeredSdp" /\ seState = "awaitSdp" /\ seState' = s
      BY <1>1, <2>1, MessageOfState, FirstRequest DEF SdpReq, EmptyReq, Req
    <2>3. ~psOn' /\ toSe' \in {<<>>, toSe}
      BY <1>1, <2>1, <2>2, PowerAnswers
    <2> QED
      BY <1>2, <2>3
      DEF PowerInv, SourceConfined, SafeToDisconnect, PowerRequested, EvPowered,
          NothingAfterStop, ContactorFirst
  <1> QED  BY <1>3, <1>4

(* A cycle of the station, outcome by outcome. *)
LEMMA SePower ==
    ASSUME TypeOK, SessionInv, PowerInv, SeCycle(SeIsOperational), UNCHANGED evVars
    PROVE  PowerInv'
  <1> PICK udp \in BOOLEAN, tcp \in BOOLEAN, fin \in BOOLEAN :
           SeCycleWith(SeIsOperational, udp, tcp, fin)
    BY DEF SeCycle
  <1> DEFINE rx == SeRx(udp, tcp)
  <1>1. /\ SeTakesFrames(udp, tcp, fin)
        /\ UNCHANGED <<evVars, evSock>>
        /\ toSe' = IF seSock' = "none" \/ fin THEN <<>> ELSE SeUnread(tcp)
    BY DEF SeCycleWith
  <1> HIDE DEF rx
  <1>2. tcp => /\ HasClient(fin) /\ ~SeNoEdge(rx, fin)
               /\ seState \notin {"idle", "finished", "failure"}
    <2> HAVE tcp
    <2>1. /\ HasClient(fin) /\ ~SeNoEdge(rx, fin)
          /\ seState \in Expecting(toSe[1].type)
      BY <1>1, SeReadsRequest DEF rx
    <2>2. seState \notin {"idle", "finished", "failure"}
      BY <2>1, FirstRequest DEF Expecting
    <2> QED  BY <2>1, <2>2
  <1>3. ASSUME NEW keeps, SeStays(keeps), keeps => HasClient(fin), ~tcp,
               seState' = seState \/ seState' = "failure" \/ ~psOn'
        PROVE  PowerInv'
    <2>1. /\ psOn' => psOn /\ seState \in SePowerStates
          /\ psOn' /\ psAmps' => psOn /\ psAmps
      BY <1>3 DEF SeStays, PsKept, TypeOK, SeTypeOK
    <2>2. /\ UNCHANGED <<evState, evEntered, evMode, evContactor>> /\ IsAC3' = IsAC3
          /\ toSe' \in {<<>>, toSe}
          /\ seSock' # "none" /\ toSe' # <<>> => seSock # "none"
      BY <1>1, <1>3
      DEF evVars, IsAC3, HasClient, SeUnread, SeStays, SeClientAfter, TypeOK, LinkTypeOK, SeSocks
    <2>3. SourceConfined'
      BY <1>3, <2>1 DEF PowerInv, SourceConfined
    <2> QED
      BY <2>1, <2>2, <2>3
      DEF PowerInv, SafeToDisconnect, PowerRequested, EvPowered, NothingAfterStop,
          ContactorFirst
  <1>4. ASSUME NEW s \in AnsweredStates, SeAnswer(rx, fin, s)
        PROVE  PowerInv'
    BY <1>1, <1>4, SeAnswerPower DEF rx
  <1>5. ASSUME NEW keeps, SeStays(keeps), seState \notin SePowerStates
        PROVE  ~psOn'
    BY <1>5 DEF SeStays, PsKept
  <1>6. CASE SeDropsOrWaits(rx, fin)
    BY <1>2, <1>3, <1>6 DEF SeDropsOrWaits
  <1>7. CASE SeLostClient(fin, SeIsOperational)
    <2>1. SeStays(FALSE) /\ ~tcp /\ seState' = "failure"
      BY <1>2, <1>7 DEF SeLostClient, SeIsOperational, AnsweredStates
    <2> QED  BY <1>3, <2>1
  <1>8. CASE SeSessionStopped(fin, SeIsOperational)
    BY <1>2, <1>3, <1>5, <1>8 DEF SeSessionStopped, SePowerStates
  <1>9. CASE SeIdle(fin, SeIsOperational)
    BY <1>2, <1>3, <1>5, <1>9 DEF SeIdle, SePowerStates
  <1>10. CASE SeFailure(fin, SeIsOperational)
    BY <1>2, <1>3, <1>5, <1>10 DEF SeFailure, SePowerStates
  <1>11. CASE SeFinished(fin, SeIsOperational)
    BY <1>2, <1>3, <1>5, <1>11 DEF SeFinished, SePowerStates
  <1> QED
    BY <1>4, <1>6, <1>7, <1>8, <1>9, <1>10, <1>11 DEF SeCycleWith, rx

-----------------------------------------------------------------------------
LEMMA InitPowerInv == Init => PowerInv
  BY DEF Init, LinkInit, EvInit, SeInit, PowerInv, SourceConfined, SafeToDisconnect,
         PowerRequested, EvPowered, NothingAfterStop, ContactorFirst, ExchangeStates

LEMMA NextPowerInv ==
    ~SeQuits /\ TypeOK /\ SessionInv /\ PowerInv /\ [Next]_vars => PowerInv'
  <1> SUFFICES ASSUME ~SeQuits, TypeOK, SessionInv, PowerInv, [Next]_vars
               PROVE  PowerInv'
    OBVIOUS
  <1>a. ASSUME UNCHANGED <<evState, evEntered, evMode, evContactor, seState, psOn, psAmps>>,
               toSe' \in {<<>>, toSe},
               seSock' # "none" /\ toSe' # <<>> => seSock # "none"
        PROVE  PowerInv'
    BY <1>a
    DEF PowerInv, SourceConfined, SafeToDisconnect, PowerRequested, EvPowered,
        NothingAfterStop, ContactorFirst, IsAC3
  <1>1. CASE Ev
    BY <1>1, EvPower DEF Ev
  <1>2. CASE User
    BY <1>a, <1>2 DEF User, EvSetEnable, linkVars, seVars
  <1>3. CASE EvReboot
    BY <1>3
    DEF EvReboot, EvRestart, seVars, PowerInv, SourceConfined, SafeToDisconnect,
        PowerRequested, EvPowered, NothingAfterStop, ContactorFirst, ExchangeStates
  <1>4. CASE Se
    BY <1>4, SePower DEF Se
  <1>5. CASE SeDies
    BY <1>a, <1>5 DEF SeDies, SeCrash, evVars
  <1>6. CASE SeReboot
    BY <1>6 DEF SeReboot
  <1>7. CASE Pilot
    BY <1>a, <1>7 DEF Pilot, linkVars, evVars
  <1>8. CASE Connect
    BY <1>a, <1>8 DEF Connect, ConnectSucceeds, evVars, seVars
  <1>9. CASE Refuse
    BY <1>a, <1>9 DEF Refuse, ConnectFails, evVars, seVars
  <1>10. CASE Accept
    BY <1>a, <1>10 DEF Accept, AcceptThread, evVars, seVars
  <1>11. CASE HangUp
    BY <1>a, <1>11 DEF HangUp, EvNoticesHangUp, evVars, seVars
  <1>12. CASE Lose
    BY <1>a, <1>12 DEF Lose, LoseSdpReq, LoseSdpRes, evVars, seVars
  <1>13. CASE UNCHANGED vars
    BY <1>a, <1>13 DEF vars, linkVars, evVars, seVars
  <1> QED
    BY <1>1, <1>2, <1>3, <1>4, <1>5, <1>6, <1>7, <1>8, <1>9, <1>10, <1>11, <1>12,
       <1>13
    DEF Next

(* The strengthened invariant of source and contactor, in every reachable  *)
(* state as long as the station's program is not quit.                     *)
THEOREM PowerInvariant ==
    ASSUME ~SeQuits
    PROVE  Spec => [](TypeOK /\ SessionInv /\ PowerInv)
  <1>1. Init => TypeOK /\ SessionInv /\ PowerInv
    BY InitTypeOK, InitSessionInv, InitPowerInv
  <1>2. TypeOK /\ SessionInv /\ PowerInv /\ [Next]_vars
            => (TypeOK /\ SessionInv /\ PowerInv)'
    BY NextTypeOK, NextSessionInv, NextPowerInv
  <1> QED  BY <1>1, <1>2, PTL DEF Spec

(* The source is enabled in the power states only, and for the cycle after *)
(* the connection broke there.                                             *)
THEOREM AlwaysSourceConfined ==
    ASSUME ~SeQuits
    PROVE  Spec => []SourceConfined
  <1>1. TypeOK /\ SessionInv /\ PowerInv => SourceConfined
    BY DEF PowerInv
  <1> QED  BY <1>1, PowerInvariant, PTL

(* The vehicle ends its session only when the source is off: a driver who  *)
(* finds it finished may pull the plug.                                    *)
THEOREM AlwaysSafeToDisconnect ==
    ASSUME ~SeQuits
    PROVE  Spec => []SafeToDisconnect
  <1>1. TypeOK /\ SessionInv /\ PowerInv => SafeToDisconnect
    BY DEF PowerInv
  <1> QED  BY <1>1, PowerInvariant, PTL

(* A current is driven only into a closed contactor of the vehicle. *)
THEOREM AlwaysIntoClosedContactor ==
    ASSUME ~SeQuits
    PROVE  Spec => []CurrentIntoClosedContactor
  <1>1. TypeOK /\ SessionInv /\ PowerInv => CurrentIntoClosedContactor
    BY DEF PowerInv, ContactorFirst, CurrentIntoClosedContactor
  <1> QED  BY <1>1, PowerInvariant, PTL

-----------------------------------------------------------------------------
(* Which state awaits the messages that carry an identity, and what the    *)
(* station's state is while their response is under way.                   *)
LEMMA IdentityMessages ==
    /\ \A s \in ExchangeStates : Awaits(s) = "SessionSetup" => s = "awaitSessionSetup"
    /\ \A s \in ExchangeStates : Awaits(s) = "ChargeParameterDiscovery"
                                    => s = "awaitChargeParameterDiscovery"
    /\ \A s : Awaits(s) = "ServiceDiscovery" => s = "awaitServiceDiscovery"
    /\ Awaits("awaitSessionSetup") = "SessionSetup"
    /\ Awaits("awaitServiceDiscovery") = "ServiceDiscovery"
    /\ \A s \in AnsweredStates : Answers(s) = "ServiceDiscovery" <=>
                                    s = "answeredServiceDiscovery"
    /\ \A s \in AnsweredStates : Answers(s) = "SupportedAppProtocol" <=>
                                    s = "answeredSupportedAppProtocol"
    /\ Answers("answeredSessionSetup") = "SessionSetup"
    /\ \A s \in AnsweredStates : Answers(s) = "ChargeParameterDiscovery" <=>
                                    s = "answeredChargeParameterDiscovery"
    /\ \A s \in AnsweredStates : Answers(s) \in {"SessionSetup", "ServiceDiscovery"} =>
                                    s \notin AfterParameters
  BY DEF Awaits, Answers, ExchangeStates, AnsweredStates, AfterParameters

(* The states after ChargeParameterDiscovery are entered through it. *)
LEMMA EnterParameters ==
    \A s : \A u \in Successors(s) :
        u \in AfterParameters =>
            u = "answeredChargeParameterDiscovery" \/ s \in AfterParameters
  BY DEF Successors, AfterParameters

-----------------------------------------------------------------------------
(* Steps of the vehicle *)

(* The awaited response is a valid one. *)
LEMMA ReceivesValid ==
    ASSUME IdentityInv, evState \in ExchangeStates, NEW rx, NEW next,
           Receives(rx, next)
    PROVE  EvValid(rx) /\ evState' = next
  <1>1. toEv # <<>> /\ rx = toEv[1]
    BY DEF Receives, ResponseUnderWay
  <1>2. EvValid(rx)
    BY <1>1 DEF IdentityInv, SessionKnown, EvValid
  <1> QED  BY <1>2 DEF Receives

(* The common part of the exchange handlers. *)
LEMMA ExchangeIdentity ==
    ASSUME TypeOK, SessionInv, IdentityInv, evState \in ExchangeStates,
           NEW udp \in BOOLEAN, NEW tcp \in BOOLEAN, NEW tick \in BOOLEAN,
           EvTakesFrames(udp, tcp), tick => evTimer, UNCHANGED seVars,
           NEW arg, NEW next,
           Req(Awaits(evState), arg) \in Requests,
           Exchange(EvRx(udp, tcp), tcp, tick, arg, next),
           \/ evMode' = evMode
           \/ /\ evState = "awaitServiceDiscovery" /\ EvAnswered(EvRx(udp, tcp))
              /\ evMode' = "DC_extended" /\ "DC_extended" \in SeModes,
           evState = "awaitChargeParameterDiscovery" => arg = evMode,
           next \in ExchangeStates \cup {"awaitDisconnection"}
               \/ (next = "failure" /\ evState = "awaitServiceDiscovery"),
           next = "awaitSupportedAppProtocol" => FALSE,
           next = "awaitSessionSetup" => evState = "awaitSupportedAppProtocol",
           evState = "awaitSupportedAppProtocol" => next = "awaitSessionSetup"
    PROVE  IdentityInv'
  <1> DEFINE rx == EvRx(udp, tcp)
  <1>1. /\ Linked /\ UNCHANGED <<evSock, seSock>>
        /\ evEntered' = (evState' # evState)
        /\ \/ Receives(rx, next)
           \/ Asks(arg) /\ rx = EmptyRes
           \/ Waits /\ rx = EmptyRes
    BY ExchangeSteps
  <1>2. EvLearnsSid(rx)
    BY DEF Exchange
  <1>3. UNCHANGED <<seState, seSid, seMode>>
    BY DEF seVars
  <1>4. "failure" \notin ExchangeStates
    BY DEF ExchangeStates
  <1>5. evMode' \in EvModes \/ (evMode' = "DC_extended" /\ "DC_extended" \in SeModes)
    BY DEF IdentityInv, ModesKnown
  <1>6. CASE Receives(rx, next)
    <2>1. EvValid(rx) /\ evState' = next /\ EvAnswered(rx) /\ ResponseUnderWay
      BY <1>6, ReceivesValid DEF Receives
    <2>2. /\ toSe' = <<>> /\ toEv' = <<>> /\ toEv # <<>> /\ rx = toEv[1]
          /\ rx.type = Awaits(evState)
      BY <1>6 DEF Receives, ResponseUnderWay, EvAnswered
    <2> HIDE DEF rx
    <2>3. evState = "awaitServiceDiscovery" => seState \notin AfterParameters
      BY <2>1, IdentityMessages DEF ResponseUnderWay
    <2>4. ConnectionUsed'
      BY <1>1, <1>3, <1>4, <2>1, <2>2, <2>3 DEF ConnectionUsed
    <2>5. evState' \in ExchangeStates
              \ {"awaitSupportedAppProtocol", "awaitSessionSetup"} => evSid' = seSid'
      <3>1. rx.ok /\ rx.sid = seSid
        BY <2>2 DEF IdentityInv, SessionKnown
      <3>2. evState # "awaitSessionSetup" /\ evState # "awaitSupportedAppProtocol"
                => evSid' = evSid /\ evSid = seSid
        BY <1>2, <2>2, IdentityMessages DEF EvLearnsSid, IdentityInv, SessionKnown
      <3>3. evState = "awaitSessionSetup" => evSid' = seSid
        BY <1>2, <2>2, <3>1, IdentityMessages DEF EvLearnsSid
      <3> QED  BY <1>3, <2>1, <3>2, <3>3
    <2>6. SessionKnown'
      BY <2>2, <2>5 DEF SessionKnown
    <2>7. evMode' = evMode \/ seState \notin AfterParameters
      BY <2>3
    <2>8. ModesKnown'
      BY <1>3, <1>5, <2>2, <2>7 DEF IdentityInv, ModesKnown
    <2> QED  BY <2>4, <2>6, <2>8 DEF IdentityInv
  <1>7. CASE (Asks(arg) \/ Waits) /\ rx = EmptyRes
    <2>1. /\ evState' = evState
          /\ toEv' # <<>> => toEv' = toEv
      BY <1>7 DEF Asks, Waits
    <2>2. ~EvAnswered(rx) /\ evSid' = evSid
      BY <1>2, <1>7, MessageOfState DEF EvAnswered, EmptyRes, Res, EvLearnsSid
    <2>3. evMode' = evMode
      BY <2>2
    <2> HIDE DEF rx
    <2>4. ConnectionUsed'
      BY <2>1 DEF ConnectionUsed
    <2>5. SessionKnown'
      BY <1>3, <2>1, <2>2 DEF IdentityInv, SessionKnown
    <2>6. ModesKnown'
      <3>1. CASE Asks(arg)
        <4>1. toSe'[1].type = Awaits(evState) /\ toSe'[1].arg = arg
          BY <3>1 DEF Asks, Req
        <4>2. toSe'[1].type = "ChargeParameterDiscovery" => toSe'[1].arg = evMode
          BY <4>1, IdentityMessages
        <4> QED  BY <1>3, <2>1, <2>3, <4>2 DEF IdentityInv, ModesKnown
      <3>2. CASE Waits
        BY <1>3, <2>1, <2>3, <3>2 DEF Waits, IdentityInv, ModesKnown
      <3> QED  BY <1>7, <3>1, <3>2
    <2> QED  BY <2>4, <2>5, <2>6 DEF IdentityInv
  <1> QED  BY <1>1, <1>6, <1>7

(* A cycle of the vehicle, handler by handler. *)
LEMMA EvIdentity ==
    ASSUME TypeOK, SessionInv, IdentityInv, EvCycle(EvSampleRun), UNCHANGED seVars
    PROVE  IdentityInv'
  <1> PICK udp \in BOOLEAN, tcp \in BOOLEAN, tick \in BOOLEAN :
           EvCycleWith(EvSampleRun, udp, tcp, tick)
    BY DEF EvCycle
  <1> DEFINE rx == EvRx(udp, tcp)
  <1> HIDE DEF rx
  <1>1. EvTakesFrames(udp, tcp) /\ (tick => evTimer)
    BY DEF EvCycleWith
  <1>2. ASSUME NEW arg, NEW next, evState \in ExchangeStates,
               Req(Awaits(evState), arg) \in Requests,
               Exchange(rx, tcp, tick, arg, next),
               \/ evMode' = evMode
               \/ /\ evState = "awaitServiceDiscovery" /\ EvAnswered(rx)
                  /\ evMode' = "DC_extended" /\ "DC_extended" \in SeModes,
               evState = "awaitChargeParameterDiscovery" => arg = evMode,
               next \in ExchangeStates \cup {"awaitDisconnection"}
                   \/ (next = "failure" /\ evState = "awaitServiceDiscovery"),
               next = "awaitSupportedAppProtocol" => FALSE,
               next = "awaitSessionSetup" => evState = "awaitSupportedAppProtocol",
               evState = "awaitSupportedAppProtocol" => next = "awaitSessionSetup"
        PROVE  IdentityInv'
    BY <1>1, <1>2, ExchangeIdentity DEF rx
  <1>3. \A a \in ReqArgs : Awaits(evState) # "ChargeParameterDiscovery"
                             => Req(Awaits(evState), a) \in Requests
    BY MessageTypes, MessageOfState
  <1>4. {NoArg, "iso", "Start", "Stop", "flow", "zero"} \subseteq ReqArgs
    BY DEF ReqArgs
  <1>5. UNCHANGED <<seState, seSid, seMode>>
    BY DEF seVars
  <1>6. ASSUME evState' \in {"idle", "awaitSdp", "awaitDisconnection", "failure", "finished"},
               evState' = "awaitDisconnection" => evState = "awaitDisconnection",
               evSock' = "open" => evState' \in {"awaitSdp", "awaitDisconnection"},
               evMode' = evMode
        PROVE  IdentityInv'
    <2>1. evState' \notin ExchangeStates
      BY <1>6 DEF ExchangeStates
    <2>2. ConnectionUsed' /\ SessionKnown'
      BY <1>6, <2>1 DEF ConnectionUsed, SessionKnown
    <2>3. ModesKnown'
      BY <1>5, <1>6, <2>1 DEF IdentityInv, ModesKnown
    <2> QED  BY <2>2, <2>3 DEF IdentityInv
  <1>7. evSock = "open" =>
            \/ evState \in ExchangeStates \cup {"awaitSdp", "awaitDisconnection"}
            \/ evState = "failure" /\ evEntered
    BY DEF IdentityInv, ConnectionUsed
  <1>8. CASE EvIdle(tcp, EvSampleRun)
    BY <1>6, <1>7, <1>8 DEF EvIdle, EvCloses, EvGoto, ExchangeStates
  <1>9. CASE EvAwaitSdp(rx, tcp, tick)
    <2>1. /\ evState = "awaitSdp" /\ toSe' = toSe /\ seSock' = seSock /\ evMode' = evMode
          /\ toEv' = EvUnread(tcp)
          /\ evState' \in {"failure", "awaitSupportedAppProtocol", "awaitSdp"}
          /\ evState' = "awaitSupportedAppProtocol" => evSock' = "open"
      BY <1>9 DEF EvAwaitSdp, EvGoto, ExchangeStates
    <2>2. evState' = "failure" => evSock' # "open"
      BY <1>9 DEF EvAwaitSdp, EvGoto, ExchangeStates
    <2>3. CASE evState' # "awaitSupportedAppProtocol"
      BY <1>6, <2>1, <2>2, <2>3 DEF ExchangeStates
    <2>4. CASE evState' = "awaitSupportedAppProtocol"
      <3>1. evSock = "open"
        BY <1>9, <2>1, <2>4 DEF EvAwaitSdp
      <3>2. seState = "answeredSdp" /\ toSe = <<>> /\ toEv = <<>>
        BY <2>1, <3>1 DEF SessionInv, FreshConnection
      <3>3. toEv' = <<>>
        BY <1>1, <2>1, <3>2 DEF EvUnread, EvTakesFrames
      <3>4. ConnectionUsed' /\ SessionKnown'
        BY <2>4, <3>3 DEF ConnectionUsed, SessionKnown, ExchangeStates
      <3>5. ModesKnown'
        BY <1>5, <2>1, <3>2 DEF IdentityInv, ModesKnown, AfterParameters
      <3> QED  BY <3>4, <3>5 DEF IdentityInv
    <2> QED  BY <2>3, <2>4
  <1>10. CASE EvAwaitSupportedAppProtocol(rx, tcp, tick)
    BY <1>2, <1>3, <1>4, <1>10 DEF EvAwaitSupportedAppProtocol, ExchangeStates, Awaits
  <1>11. CASE EvAwaitSessionSetup(rx, tcp, tick)
    BY <1>2, <1>3, <1>4, <1>11 DEF EvAwaitSessionSetup, ExchangeStates, Awaits
  <1>12. CASE EvAwaitServiceDiscovery(rx, tcp, tick)
    <2> DEFINE next == IF AdoptedMode(rx.modes) \in rx.modes
                       THEN "awaitPaymentServiceSelection" ELSE "failure"
    <2>1. Exchange(rx, tcp, tick, NoArg, next) /\ evState = "awaitServiceDiscovery"
      BY <1>12 DEF EvAwaitServiceDiscovery
    <2>2. evState \in ExchangeStates /\ Req(Awaits(evState), NoArg) \in Requests
      BY <1>3, <1>4, <2>1 DEF ExchangeStates, Awaits
    <2>3. EvAnswered(rx) => rx.modes = SeModes
      <3>1. Receives(rx, next) \/ rx = EmptyRes
        BY <1>1, <2>1, <2>2, ExchangeSteps, Zenon DEF rx
      <3>2. rx = EmptyRes => ~EvAnswered(rx)
        BY MessageOfState DEF EvAnswered, EmptyRes, Res
      <3>3. ASSUME Receives(rx, next) PROVE rx.modes = SeModes
        <4>1. toEv # <<>> /\ rx = toEv[1] /\ rx.type = "ServiceDiscovery"
          BY <2>1, <3>3, IdentityMessages DEF Receives, ResponseUnderWay, EvAnswered
        <4> QED  BY <2>2, <4>1 DEF IdentityInv, SessionKnown
      <3> QED  BY <3>1, <3>2, <3>3
    <2>4. \/ evMode' = evMode
          \/ /\ EvAnswered(rx)
             /\ evMode' = "DC_extended" /\ "DC_extended" \in SeModes
      BY <1>12, <2>3 DEF EvAwaitServiceDiscovery, AdoptedMode
    <2>5. next \in ExchangeStates \/ next = "failure"
      BY DEF ExchangeStates
    <2>6. next \notin {"awaitSupportedAppProtocol", "awaitSessionSetup"}
      OBVIOUS
    <2> HIDE DEF next
    <2> QED  BY <1>2, <2>1, <2>2, <2>4, <2>5, <2>6
  <1>13. CASE EvAwaitPaymentServiceSelection(rx, tcp, tick)
    BY <1>2, <1>3, <1>4, <1>13 DEF EvAwaitPaymentServiceSelection, ExchangeStates, Awaits
  <1>14. CASE EvAwaitAuthorization(rx, tcp, tick)
    BY <1>2, <1>3, <1>4, <1>14 DEF EvAwaitAuthorization, ExchangeStates, Awaits
  <1>15. CASE EvAwaitChargeParameterDiscovery(rx, tcp, tick)
    <2>1. Req(Awaits(evState), evMode) \in Requests
      BY MessageTypes, MessageOfState DEF TypeOK, EvTypeOK, ReqArgs
    <2> QED  BY <1>2, <1>15, <2>1 DEF EvAwaitChargeParameterDiscovery, ExchangeStates
  <1>16. CASE EvAwaitPowerDelivery(rx, tcp, tick)
    BY <1>2, <1>3, <1>4, <1>16 DEF EvAwaitPowerDelivery, ExchangeStates, Awaits
  <1>17. CASE EvAwaitChargingStatus(rx, tcp, tick)
    BY <1>2, <1>3, <1>4, <1>17 DEF EvAwaitChargingStatus, ExchangeStates, Awaits
  <1>18. CASE EvAwaitCableCheck(rx, tcp, tick)
    BY <1>2, <1>3, <1>4, <1>18 DEF EvAwaitCableCheck, ExchangeStates, Awaits
  <1>19. CASE EvAwaitPreCharge(rx, tcp, tick)
    BY <1>2, <1>3, <1>4, <1>19 DEF EvAwaitPreCharge, ExchangeStates, Awaits
  <1>20. CASE EvAwaitCurrentDemand(rx, tcp, tick)
    <2> PICK arg \in {"flow", "zero"}, next \in {"awaitCurrentDemand", "awaitPowerDelivery"} :
             Exchange(rx, tcp, tick, arg, next)
      BY <1>20 DEF EvAwaitCurrentDemand
    <2>1. evState = "awaitCurrentDemand" /\ evMode' = evMode
      BY <1>20 DEF EvAwaitCurrentDemand
    <2> QED  BY <1>2, <1>3, <1>4, <2>1 DEF ExchangeStates, Awaits
  <1>21. CASE EvAwaitWeldingDetection(rx, tcp, tick)
    BY <1>2, <1>3, <1>4, <1>21 DEF EvAwaitWeldingDetection, ExchangeStates, Awaits
  <1>22. CASE EvAwaitSessionStop(rx, tcp, tick)
    BY <1>2, <1>3, <1>4, <1>22 DEF EvAwaitSessionStop, ExchangeStates, Awaits
  <1>23. CASE EvAwaitDisconnection(rx, tcp)
    BY <1>6, <1>23 DEF EvAwaitDisconnection, EvCloses, EvGoto, ExchangeStates
  <1>24. CASE EvFailure(rx, tcp, EvSampleRun)
    <2>1. evSock' # "open"
      BY <1>7, <1>24 DEF EvFailure, EvCloses, ExchangeStates
    <2> QED  BY <1>6, <1>24, <2>1 DEF EvFailure, EvGoto, ExchangeStates
  <1>25. CASE EvFinished(tcp, EvSampleRun)
    BY <1>6, <1>7, <1>25 DEF EvFinished, EvGoto, ExchangeStates
  <1> QED
    BY <1>8, <1>9, <1>10, <1>11, <1>12, <1>13, <1>14, <1>15, <1>16, <1>17, <1>18,
       <1>19, <1>20, <1>21, <1>22, <1>23, <1>24, <1>25
    DEF EvCycleWith, rx

-----------------------------------------------------------------------------
(* Steps of the station *)

(* The station's session id and mode after an answer. *)
LEMMA SeAnswerIdentity ==
    ASSUME TypeOK, SessionInv, NothingAfterStop, IdentityInv, UNCHANGED <<evVars, evSock>>,
           NEW udp \in BOOLEAN, NEW tcp \in BOOLEAN, NEW fin \in BOOLEAN,
           SeTakesFrames(udp, tcp, fin),
           SeEvaluates(SeRx(udp, tcp)),
           NEW s \in AnsweredStates,
           SeAnswer(SeRx(udp, tcp), fin, s),
           toSe' = IF seSock' = "none" \/ fin THEN <<>> ELSE SeUnread(tcp)
    PROVE  IdentityInv'
  <1> DEFINE rx == SeRx(udp, tcp)
             sid == IF s = "answeredSessionSetup" THEN (seSid + 1) % SidMod ELSE seSid
  <1>1. /\ s \in Successors(seState) /\ Answers(s) = rx.type
        /\ seState' = s \/ seState' = "failure"
        /\ s # "answeredSupportedAppProtocol" => seState' = s
        /\ seSid' = sid
        /\ SeSends(s, HasClient(fin), seDialect', sid)
    BY DEF SeAnswer, EdgeTaken
  <1>2. UNCHANGED <<evState, evEntered, evMode, evSock, evSid>>
    BY DEF evVars
  <1>3. /\ seDialect' = IF rx.type = "SupportedAppProtocol" THEN rx.arg = "iso" ELSE seDialect
        /\ seMode' = IF rx.type = "ChargeParameterDiscovery" THEN rx.arg ELSE seMode
    BY DEF SeEvaluates
  <1>4. "failure" \notin AfterParameters /\ "awaitSdp" \notin AfterParameters
            /\ "answeredSdp" \notin AfterParameters
    BY DEF AfterParameters
  <1>5. CASE tcp
    <2>1. /\ rx = toSe[1] /\ SeUnread(tcp) = <<>> /\ toSe # <<>> /\ HasClient(fin)
      BY <1>5, SeReadsRequest DEF SeTakesFrames
    <2>2. toSe' = <<>>
      BY <2>1
    <2>3. evState \in ExchangeStates => RequestUnderWay /\ Linked
      BY <2>1 DEF SessionInv, InStep, AboutToSend, ResponseUnderWay
    <2>4. rx.type = "SupportedAppProtocol" => rx.arg = "iso"
      BY <2>1 DEF SessionInv, IsoOffered, HasClient
    <2> HIDE DEF rx
    <2>5. evState \in ExchangeStates => Awaits(evState) = rx.type
      BY <2>1, <2>3 DEF RequestUnderWay
    <2>6. ConnectionUsed'
      BY <1>2, <2>1 DEF IdentityInv, ConnectionUsed
    <2>7. SessionKnown'
      <3> SUFFICES ASSUME evState \in ExchangeStates
                   PROVE  SessionKnown'
        BY <1>2 DEF SessionKnown
      <3>1. s = "answeredSessionSetup" => evState = "awaitSessionSetup"
        BY <1>1, <2>5, IdentityMessages
      <3>2. evState \notin {"awaitSupportedAppProtocol", "awaitSessionSetup"} =>
                evSid' = seSid'
        BY <1>1, <1>2, <3>1 DEF IdentityInv, SessionKnown
      <3> DEFINE res == SeResponse(s, seDialect', sid)
      <3>3. toEv' = Append(<<>>, res)
        BY <1>1, <2>1, <2>3 DEF SeSends, RequestUnderWay, Linked
      <3>4. /\ res.sid = sid /\ res.type = Answers(s)
            /\ res.ok = (s # "answeredSupportedAppProtocol" \/ seDialect')
            /\ res.modes = IF s = "answeredServiceDiscovery" THEN SeModes ELSE {}
        BY DEF SeResponse, Res
      <3>5. s = "answeredSupportedAppProtocol" => seDialect'
        BY <1>1, <1>3, <2>4, IdentityMessages
      <3> HIDE DEF res, sid
      <3>6. toEv'[1] = res
        BY <3>3
      <3>7. toEv'[1].ok /\ toEv'[1].sid = seSid'
        BY <1>1, <3>4, <3>5, <3>6
      <3>8. toEv'[1].type = "ServiceDiscovery" => toEv'[1].modes = SeModes
        BY <3>4, <3>6, IdentityMessages
      <3> QED  BY <1>2, <3>2, <3>7, <3>8 DEF SessionKnown
    <2>8. ModesKnown'
      <3>1. evState # "awaitDisconnection"
        BY <2>1 DEF NothingAfterStop
      <3>2. ASSUME evState \in ExchangeStates, seState' \in AfterParameters
            PROVE  seMode' = evMode
        <4>1. seState' = s
          BY <1>1, <1>4, <3>2
        <4>2. CASE s = "answeredChargeParameterDiscovery"
          <5>1. rx.type = "ChargeParameterDiscovery"
            BY <1>1, <4>2, IdentityMessages
          <5>2. rx.arg = evMode
            BY <2>1, <3>2, <5>1 DEF IdentityInv, ModesKnown
          <5> QED  BY <1>3, <5>1, <5>2
        <4>3. CASE s # "answeredChargeParameterDiscovery"
          <5>1. seState \in AfterParameters
            BY <1>1, <3>2, <4>1, <4>3, EnterParameters
          <5>2. rx.type # "ChargeParameterDiscovery"
            BY <1>1, <4>3, IdentityMessages
          <5> QED  BY <1>3, <3>2, <5>1, <5>2 DEF IdentityInv, ModesKnown
        <4> QED  BY <4>2, <4>3
      <3> QED  BY <1>2, <2>2, <3>1, <3>2 DEF IdentityInv, ModesKnown
    <2> QED  BY <2>6, <2>7, <2>8 DEF IdentityInv
  <1>6. CASE ~tcp
    <2>1. rx \in {SdpReq, EmptyReq} /\ SeUnread(tcp) = toSe
      BY <1>6 DEF SeRx, SeUnread
    <2>2. s = "answeredSdp" /\ seState = "awaitSdp" /\ seState' = s
      BY <1>1, <2>1, MessageOfState, FirstRequest DEF SdpReq, EmptyReq, Req
    <2>3. evState \notin ExchangeStates
      BY <2>2 DEF SessionInv, InStep, Linked, OneConnection
    <2>4. toSe' \in {<<>>, toSe} /\ seState' \notin AfterParameters
      BY <1>4, <2>1, <2>2
    <2> QED
      BY <1>2, <2>3, <2>4 DEF IdentityInv, ConnectionUsed, SessionKnown, ModesKnown
  <1> QED  BY <1>5, <1>6

(* A cycle of the station, outcome by outcome. *)
LEMMA SeIdentity ==
    ASSUME TypeOK, SessionInv, NothingAfterStop, IdentityInv, NEW run, SeCycle(run),
           UNCHANGED evVars
    PROVE  IdentityInv'
  <1> PICK udp \in BOOLEAN, tcp \in BOOLEAN, fin \in BOOLEAN :
           SeCycleWith(run, udp, tcp, fin)
    BY DEF SeCycle
  <1> DEFINE rx == SeRx(udp, tcp)
  <1>1. /\ SeTakesFrames(udp, tcp, fin) /\ SeEvaluates(rx)
        /\ UNCHANGED <<evVars, evSock>>
        /\ toSe' = IF seSock' = "none" \/ fin THEN <<>> ELSE SeUnread(tcp)
    BY DEF SeCycleWith
  <1>2. tcp => /\ HasClient(fin) /\ ~SeNoEdge(rx, fin)
               /\ seState \notin {"idle", "finished", "failure"}
    <2> HAVE tcp
    <2>1. /\ HasClient(fin) /\ ~SeNoEdge(rx, fin)
          /\ seState \in Expecting(toSe[1].type)
      BY <1>1, SeReadsRequest
    <2>2. seState \notin {"idle", "finished", "failure"}
      BY <2>1, FirstRequest DEF Expecting
    <2> QED  BY <2>1, <2>2
  <1>3. ~tcp => seMode' = seMode
    <2> HAVE ~tcp
    <2>1. rx \in {SdpReq, EmptyReq}
      BY DEF SeRx
    <2>2. rx.type # "ChargeParameterDiscovery"
      BY <2>1 DEF SdpReq, EmptyReq, Req
    <2> QED  BY <1>1, <2>2 DEF SeEvaluates
  <1> HIDE DEF rx
  <1>4. ASSUME NEW keeps, SeStays(keeps), ~tcp,
               seState' = seState \/ seState' \notin AfterParameters
        PROVE  IdentityInv'
    <2>1. /\ UNCHANGED <<evState, evEntered, evMode, evSid, evSock, seSid, toEv, seMode>>
          /\ toSe' \in {<<>>, toSe}
      BY <1>1, <1>3, <1>4 DEF evVars, SeStays, SeUnread
    <2> QED
      BY <1>4, <2>1 DEF IdentityInv, ConnectionUsed, SessionKnown, ModesKnown
  <1>5. ASSUME NEW s \in AnsweredStates, SeAnswer(rx, fin, s)
        PROVE  IdentityInv'
    BY <1>1, <1>5, SeAnswerIdentity DEF rx
  <1>6. {"failure", "idle", "finished", "awaitSdp"} \cap AfterParameters = {}
    BY DEF AfterParameters
  <1>7. CASE SeDropsOrWaits(rx, fin)
    BY <1>2, <1>4, <1>7 DEF SeDropsOrWaits
  <1>8. CASE SeLostClient(fin, run)
    BY <1>2, <1>4, <1>6, <1>8 DEF SeLostClient
  <1>9. CASE SeSessionStopped(fin, run)
    BY <1>2, <1>4, <1>6, <1>9 DEF SeSessionStopped
  <1>10. CASE SeIdle(fin, run)
    BY <1>2, <1>4, <1>6, <1>10 DEF SeIdle
  <1>11. CASE SeFailure(fin, run)
    BY <1>2, <1>4, <1>6, <1>11 DEF SeFailure
  <1>12. CASE SeFinished(fin, run)
    BY <1>2, <1>4, <1>6, <1>12 DEF SeFinished
  <1> QED
    BY <1>5, <1>7, <1>8, <1>9, <1>10, <1>11, <1>12 DEF SeCycleWith, rx

-----------------------------------------------------------------------------
LEMMA InitIdentityInv == Init => IdentityInv
  BY DEF Init, LinkInit, EvInit, SeInit, IdentityInv, ConnectionUsed, SessionKnown,
         ModesKnown, ExchangeStates

LEMMA NextIdentityInv ==
    /\ ~SeQuits /\ TypeOK /\ SessionInv /\ PowerInv /\ IdentityInv
    /\ [Next]_vars
    => IdentityInv'
  <1> SUFFICES ASSUME ~SeQuits, TypeOK, SessionInv, PowerInv, IdentityInv, [Next]_vars
               PROVE  IdentityInv'
    OBVIOUS
  <1>a. ASSUME UNCHANGED <<evState, evEntered, evMode, evSid, seState, seSid, seMode>>,
               toSe' \in {<<>>, toSe}, toEv' \in {<<>>, toEv},
               evSock' = "open" => evSock = "open" \/ evState = "awaitSdp"
        PROVE  IdentityInv'
    BY <1>a DEF IdentityInv, ConnectionUsed, SessionKnown, ModesKnown
  <1>1. CASE Ev
    BY <1>1, EvIdentity DEF Ev
  <1>2. CASE User
    BY <1>a, <1>2 DEF User, EvSetEnable, linkVars, seVars
  <1>3. CASE EvReboot
    BY <1>3
    DEF EvReboot, EvRestart, EvCloses, seVars, IdentityInv, ConnectionUsed, SessionKnown,
        ModesKnown, ExchangeStates
  <1>4. CASE Se
    BY <1>4, SeIdentity DEF Se, PowerInv
  <1>5. CASE SeDies
    BY <1>a, <1>5 DEF SeDies, SeCrash, evVars
  <1>6. CASE SeReboot
    BY <1>6 DEF SeReboot
  <1>7. CASE Pilot
    BY <1>a, <1>7 DEF Pilot, linkVars, evVars
  <1>8. CASE Connect
    <2>1. evState = "awaitSdp"
      BY <1>8 DEF Connect, ConnectSucceeds, SessionInv, SdpFollowed
    <2> QED  BY <1>a, <1>8, <2>1 DEF Connect, ConnectSucceeds, evVars, seVars
  <1>9. CASE Refuse
    BY <1>a, <1>9 DEF Refuse, ConnectFails, evVars, seVars
  <1>10. CASE Accept
    BY <1>a, <1>10 DEF Accept, AcceptThread, evVars, seVars
  <1>11. CASE HangUp
    BY <1>a, <1>11 DEF HangUp, EvNoticesHangUp, evVars, seVars
  <1>12. CASE Lose
    BY <1>a, <1>12 DEF Lose, LoseSdpReq, LoseSdpRes, evVars, seVars
  <1>13. CASE UNCHANGED vars
    BY <1>a, <1>13 DEF vars, linkVars, evVars, seVars
  <1> QED
    BY <1>1, <1>2, <1>3, <1>4, <1>5, <1>6, <1>7, <1>8, <1>9, <1>10, <1>11, <1>12,
       <1>13
    DEF Next

(* Both sides know the same session id and the same transfer mode, in      *)
(* every reachable state as long as the station's program is not quit.     *)
THEOREM IdentityInvariant ==
    ASSUME ~SeQuits
    PROVE  Spec => [](TypeOK /\ SessionInv /\ PowerInv /\ IdentityInv)
  <1>1. Init => TypeOK /\ SessionInv /\ PowerInv /\ IdentityInv
    BY InitTypeOK, InitSessionInv, InitPowerInv, InitIdentityInv
  <1>2. TypeOK /\ SessionInv /\ PowerInv /\ IdentityInv /\ [Next]_vars
            => (TypeOK /\ SessionInv /\ PowerInv /\ IdentityInv)'
    BY NextTypeOK, NextSessionInv, NextPowerInv, NextIdentityInv
  <1> QED  BY <1>1, <1>2, PTL DEF Spec

(* From ChargeParameterDiscovery on the station charges in the mode the    *)
(* vehicle is in.                                                          *)
THEOREM AlwaysModesAgree ==
    ASSUME ~SeQuits
    PROVE  Spec => []ModesAgree
  <1>1. TypeOK /\ SessionInv /\ PowerInv /\ IdentityInv => ModesAgree
    <2> SUFFICES ASSUME SessionInv, IdentityInv, Linked, seState \in AfterParameters
                 PROVE  seMode = evMode
      BY DEF ModesAgree
    <2>1. evState \in ExchangeStates \cup {"awaitSdp", "awaitDisconnection"}
      BY DEF IdentityInv, ConnectionUsed, Linked
    <2>2. evState # "awaitSdp"
      BY DEF SessionInv, FreshConnection, Linked, AfterParameters
    <2> QED  BY <2>1, <2>2 DEF IdentityInv, ModesKnown
  <1> QED  BY <1>1, IdentityInvariant, PTL

(* No step of the vehicle gives up a session it is in. *)
LEMMA EvKeepsSession ==
    ASSUME CompatibleModes, TypeOK, SessionInv, IdentityInv, UNCHANGED seVars,
           EvCycle(EvSampleRun), evState' = "failure"
    PROVE  evState \in {"awaitSdp", "failure"}
  <1> PICK udp \in BOOLEAN, tcp \in BOOLEAN, tick \in BOOLEAN :
           EvCycleWith(EvSampleRun, udp, tcp, tick)
    BY DEF EvCycle
  <1> DEFINE rx == EvRx(udp, tcp)
  <1> HIDE DEF rx
  <1>1. EvTakesFrames(udp, tcp) /\ (tick => evTimer)
    BY DEF EvCycleWith
  <1>2. ASSUME evState \in ExchangeStates, NEW arg, NEW next,
               Req(Awaits(evState), arg) \in Requests,
               Exchange(rx, tcp, tick, arg, next)
        PROVE  Receives(rx, next) /\ next = "failure"
    <2>1. Receives(rx, next) \/ Asks(arg) \/ Waits
      BY <1>1, <1>2, ExchangeSteps DEF rx
    <2>2. evState # "failure"
      BY <1>2 DEF ExchangeStates
    <2>3. Receives(rx, next)
      BY <2>1, <2>2 DEF Asks, Waits
    <2> QED  BY <1>2, <2>3, ReceivesValid
  <1>3. \A a \in ReqArgs : Awaits(evState) # "ChargeParameterDiscovery"
                             => Req(Awaits(evState), a) \in Requests
    BY MessageTypes, MessageOfState
  <1>4. {NoArg, "iso", "Start", "Stop", "flow", "zero"} \subseteq ReqArgs
    BY DEF ReqArgs
  <1>5. CASE EvIdle(tcp, EvSampleRun)
    BY <1>5 DEF EvIdle, EvGoto, ExchangeStates
  <1>6. CASE EvAwaitSdp(rx, tcp, tick)
    BY <1>6 DEF EvAwaitSdp
  <1>7. CASE EvAwaitSupportedAppProtocol(rx, tcp, tick)
    BY <1>2, <1>3, <1>4, <1>7 DEF EvAwaitSupportedAppProtocol, ExchangeStates, Awaits
  <1>8. CASE EvAwaitSessionSetup(rx, tcp, tick)
    BY <1>2, <1>3, <1>4, <1>8 DEF EvAwaitSessionSetup, ExchangeStates, Awaits
  <1>9. CASE EvAwaitServiceDiscovery(rx, tcp, tick)
    <2> DEFINE next == IF AdoptedMode(rx.modes) \in rx.modes
                       THEN "awaitPaymentServiceSelection" ELSE "failure"
    <2>1. Exchange(rx, tcp, tick, NoArg, next) /\ evState = "awaitServiceDiscovery"
      BY <1>9 DEF EvAwaitServiceDiscovery
    <2>2. evState \in ExchangeStates /\ Req(Awaits(evState), NoArg) \in Requests
      BY <1>3, <1>4, <2>1 DEF ExchangeStates, Awaits
    <2>3. Receives(rx, next) /\ next = "failure"
      BY <1>2, <2>1, <2>2, Zenon
    <2>4. toEv # <<>> /\ rx = toEv[1] /\ rx.type = "ServiceDiscovery"
      BY <2>1, <2>3, IdentityMessages DEF Receives, ResponseUnderWay, EvAnswered
    <2>5. rx.modes = SeModes
      BY <2>2, <2>4 DEF IdentityInv, SessionKnown
    <2>6. AdoptedMode(SeModes) \in SeModes
      BY DEF CompatibleModes, AdoptedMode, IdentityInv, ModesKnown
    <2> QED  BY <2>3, <2>5, <2>6
  <1>10. CASE EvAwaitPaymentServiceSelection(rx, tcp, tick)
    BY <1>2, <1>3, <1>4, <1>10 DEF EvAwaitPaymentServiceSelection, ExchangeStates, Awaits
  <1>11. CASE EvAwaitAuthorization(rx, tcp, tick)
    BY <1>2, <1>3, <1>4, <1>11 DEF EvAwaitAuthorization, ExchangeStates, Awaits
  <1>12. CASE EvAwaitChargeParameterDiscovery(rx, tcp, tick)
    <2>1. Req(Awaits(evState), evMode) \in Requests
      BY MessageTypes, MessageOfState DEF TypeOK, EvTypeOK, ReqArgs
    <2> QED  BY <1>2, <1>12, <2>1 DEF EvAwaitChargeParameterDiscovery, ExchangeStates
  <1>13. CASE EvAwaitPowerDelivery(rx, tcp, tick)
    BY <1>2, <1>3, <1>4, <1>13 DEF EvAwaitPowerDelivery, ExchangeStates, Awaits
  <1>14. CASE EvAwaitChargingStatus(rx, tcp, tick)
    BY <1>2, <1>3, <1>4, <1>14 DEF EvAwaitChargingStatus, ExchangeStates, Awaits
  <1>15. CASE EvAwaitCableCheck(rx, tcp, tick)
    BY <1>2, <1>3, <1>4, <1>15 DEF EvAwaitCableCheck, ExchangeStates, Awaits
  <1>16. CASE EvAwaitPreCharge(rx, tcp, tick)
    BY <1>2, <1>3, <1>4, <1>16 DEF EvAwaitPreCharge, ExchangeStates, Awaits
  <1>17. CASE EvAwaitCurrentDemand(rx, tcp, tick)
    <2> PICK arg \in {"flow", "zero"}, next \in {"awaitCurrentDemand", "awaitPowerDelivery"} :
             Exchange(rx, tcp, tick, arg, next)
      BY <1>17 DEF EvAwaitCurrentDemand
    <2>1. evState = "awaitCurrentDemand"
      BY <1>17 DEF EvAwaitCurrentDemand
    <2> QED  BY <1>2, <1>3, <1>4, <2>1 DEF ExchangeStates, Awaits
  <1>18. CASE EvAwaitWeldingDetection(rx, tcp, tick)
    BY <1>2, <1>3, <1>4, <1>18 DEF EvAwaitWeldingDetection, ExchangeStates, Awaits
  <1>19. CASE EvAwaitSessionStop(rx, tcp, tick)
    BY <1>2, <1>3, <1>4, <1>19 DEF EvAwaitSessionStop, ExchangeStates, Awaits
  <1>20. CASE EvAwaitDisconnection(rx, tcp)
    BY <1>20 DEF EvAwaitDisconnection, EvGoto, ExchangeStates
  <1>21. CASE EvFailure(rx, tcp, EvSampleRun)
    BY <1>21 DEF EvFailure
  <1>22. CASE EvFinished(tcp, EvSampleRun)
    BY <1>22 DEF EvFinished, EvGoto, ExchangeStates
  <1> QED
    BY <1>5, <1>6, <1>7, <1>8, <1>9, <1>10, <1>11, <1>12, <1>13, <1>14, <1>15,
       <1>16, <1>17, <1>18, <1>19, <1>20, <1>21, <1>22
    DEF EvCycleWith, rx

(* With modes that fit, a vehicle that has connected never fails: all the  *)
(* responses it gets are positive, of its session and awaited, whatever    *)
(* its user does and whatever frames and connections get lost before.      *)
THEOREM SessionsNeverFail ==
    ASSUME ~SeQuits, CompatibleModes
    PROVE  Spec => SessionNeverFails
  <1>1. TypeOK /\ SessionInv /\ IdentityInv /\ [Next]_vars =>
            [evState' = "failure" /\ evState # "failure" => evState = "awaitSdp"]_vars
    <2> SUFFICES ASSUME TypeOK, SessionInv, IdentityInv, Next,
                        evState' = "failure", evState # "failure"
                 PROVE  evState = "awaitSdp"
      BY DEF vars, evVars
    <2>1. CASE Ev
      BY <2>1, EvKeepsSession DEF Ev
    <2>2. CASE EvReboot
      BY <2>2 DEF EvReboot, EvRestart
    <2>3. CASE ~Ev /\ ~EvReboot
      <3>1. evState' = evState
        BY <2>3
        DEF Next, User, EvSetEnable, Se, SeDies, SeReboot, Pilot, Connect, Refuse, Accept,
            HangUp, Lose, evVars
      <3> QED  BY <3>1
    <2> QED  BY <2>1, <2>2, <2>3
  <1> QED  BY <1>1, IdentityInvariant, PTL DEF Spec, SessionNeverFails

=============================================================================
