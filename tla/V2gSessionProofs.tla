--------------------------- MODULE V2gSessionProofs ---------------------------
(***************************************************************************)
(* Proofs about V2gSession, for every value of its constants.              *)
(***************************************************************************)
EXTENDS V2gSession, SequenceTheorems, TLAPS

-----------------------------------------------------------------------------
(* Lemmas about frames and buffers *)

(* Reading a non-empty buffer gives one of its elements and leaves a buffer; *)
(* a buffer of one element becomes empty.                                    *)
LEMMA ReadBuffer ==
    ASSUME NEW S, NEW b \in Seq(S), b # <<>>
    PROVE  /\ Head(b) \in S
           /\ Head(b) = b[1]
           /\ Tail(b) \in Seq(S)
           /\ Len(b) = 1 => Tail(b) = <<>>
  <1>1. Head(b) \in S /\ Tail(b) \in Seq(S) /\ Head(b) = b[1]
    OBVIOUS
  <1>2. Len(Tail(b)) = Len(b) - 1
    BY HeadTailProperties
  <1>3. \A c \in Seq(S) : c # <<>> => Len(c) # 0
    BY EmptySeq
  <1>4. Len(b) = 1 => Tail(b) = <<>>
    <2>1. Tail(b) # <<>> => Len(Tail(b)) # 0
      BY <1>1, <1>3, Zenon
    <2>2. Len(b) = 1 => Len(Tail(b)) = 0
      BY <1>2
    <2> QED  BY <2>1, <2>2, Zenon
  <1> QED  BY <1>1, <1>4

(* Writing to an empty buffer gives a buffer with that one element. *)
LEMMA WriteBuffer ==
    ASSUME NEW S, NEW b \in Seq(S), NEW x \in S
    PROVE  /\ Append(b, x) \in Seq(S)
           /\ Append(b, x) # <<>>
           /\ b = <<>> => Len(Append(b, x)) = 1 /\ Append(b, x)[1] = x
  BY AppendProperties

(* The requests and responses the two machines build are well formed. *)
LEMMA MessageTypes ==
    /\ \A t \in MsgTypes, a \in ReqArgs :
          (t = "ChargeParameterDiscovery" => a \in Modes) => Req(t, a) \in Requests
    /\ \A t \in MsgTypes, ok \in BOOLEAN, s \in Sids, a \in ResArgs, m \in SUBSET Modes :
          Res(t, ok, s, a, m) \in Responses
    /\ EmptyReq \in Requests /\ SdpReq \in Requests
    /\ EmptyRes \in Responses /\ SdpRes \in Responses
  <1>1. 0 \in Sids
    BY SidModAssumption DEF Sids
  <1>2. NoArg \in ReqArgs /\ NoArg \in ResArgs
    BY DEF ReqArgs, ResArgs, NoArg
  <1>3. {"Empty", "Sdp"} \subseteq MsgTypes
    BY DEF MsgTypes
  <1>4. \A t \in MsgTypes, a \in ReqArgs :
          (t = "ChargeParameterDiscovery" => a \in Modes) => Req(t, a) \in Requests
    BY DEF Req, Requests
  <1>5. \A t \in MsgTypes, ok \in BOOLEAN, s \in Sids, a \in ResArgs, m \in SUBSET Modes :
          Res(t, ok, s, a, m) \in Responses
    BY DEF Res, Responses
  <1>6. EmptyReq \in Requests /\ SdpReq \in Requests
    BY <1>2, <1>3, <1>4 DEF EmptyReq, SdpReq
  <1>7. EmptyRes \in Responses /\ SdpRes \in Responses
    BY <1>1, <1>2, <1>3, <1>5 DEF EmptyRes, SdpRes
  <1> QED  BY <1>4, <1>5, <1>6, <1>7

(* What a state awaits or answers is a message type, and no TCP exchange   *)
(* awaits an empty or an SDP message.                                      *)
LEMMA MessageOfState ==
    /\ \A s : Awaits(s) \in TcpTypes
    /\ \A s : Answers(s) \in TcpTypes \cup {"Sdp"}
    /\ TcpTypes \subseteq MsgTypes
    /\ "Empty" \notin TcpTypes /\ "Sdp" \notin TcpTypes
    /\ \A s : Answers(s) # "Empty" /\ Awaits(s) # "Empty" /\ Awaits(s) # "Sdp"
  <1>1. \A s : Awaits(s) \in TcpTypes
    BY DEF Awaits, TcpTypes
  <1>2. \A s : Answers(s) \in TcpTypes \cup {"Sdp"}
    BY DEF Answers, TcpTypes
  <1>3. "Empty" \notin TcpTypes /\ "Sdp" \notin TcpTypes
    BY DEF TcpTypes
  <1> QED  BY <1>1, <1>2, <1>3 DEF MsgTypes

-----------------------------------------------------------------------------
(* Types *)

(* What the vehicle reads is a response, and its buffers keep their types. *)
LEMMA EvReads ==
    ASSUME LinkTypeOK, NEW udp \in BOOLEAN, NEW tcp \in BOOLEAN,
           EvTakesFrames(udp, tcp)
    PROVE  /\ EvRx(udp, tcp) \in Responses
           /\ EvUnread(tcp) \in Seq(Responses)
           /\ sdpRess' \in 0 .. UdpCap
  <1>1. tcp => Head(toEv) \in Responses /\ Tail(toEv) \in Seq(Responses)
    BY ReadBuffer DEF LinkTypeOK, EvTakesFrames
  <1>2. EvRx(udp, tcp) \in Responses
    BY <1>1, MessageTypes, Zenon DEF EvRx
  <1>3. EvUnread(tcp) \in Seq(Responses)
    BY <1>1 DEF EvUnread, LinkTypeOK
  <1>4. sdpRess' \in 0 .. UdpCap
    BY UdpCapAssumption DEF EvTakesFrames, LinkTypeOK
  <1> QED  BY <1>2, <1>3, <1>4

(* A session id the vehicle learns is one. *)
LEMMA EvLearnsType ==
    ASSUME EvTypeOK, NEW rx \in Responses, EvLearnsSid(rx)
    PROVE  evSid' \in Sids
  BY DEF EvTypeOK, EvLearnsSid, Responses

(* What a request sent by the vehicle adds to the buffer has its type. *)
LEMMA EvSentType ==
    ASSUME LinkTypeOK, NEW r \in Requests
    PROVE  EvSent(r) \in Seq(Requests)
  BY WriteBuffer DEF LinkTypeOK, EvSent

(* Types of the state and of the pilot at the end of the vehicle's cycle. *)
LEMMA EvGotoType ==
    ASSUME EvTypeOK, NEW next \in EvStates, EvGoto(next)
    PROVE  evState' \in EvStates /\ evEntered' \in BOOLEAN
  <1>1. "failure" \in EvStates
    BY DEF EvStates
  <1> QED  BY <1>1 DEF EvGoto

LEMMA EvDepowersType ==
    ASSUME EvTypeOK, EvDepowers
    PROVE  evCp' \in {"B", "C"} /\ evContactor' \in BOOLEAN /\ evAmps' \in BOOLEAN
  BY DEF EvTypeOK, EvDepowers

(* The common part of the exchange handlers keeps the types it touches. *)
LEMMA ExchangeType ==
    ASSUME LinkTypeOK, EvTypeOK,
           NEW udp \in BOOLEAN, NEW tcp \in BOOLEAN, NEW tick \in BOOLEAN,
           NEW arg \in ReqArgs, NEW next \in EvStates,
           Awaits(evState) = "ChargeParameterDiscovery" => arg \in Modes,
           EvTakesFrames(udp, tcp),
           Exchange(EvRx(udp, tcp), tcp, tick, arg, next)
    PROVE  /\ LinkTypeOK'
           /\ evState' \in EvStates
           /\ evEntered' \in BOOLEAN
           /\ evTimer' \in BOOLEAN
           /\ evConnecting' \in BOOLEAN
           /\ evSid' \in Sids
  <1> DEFINE rx == EvRx(udp, tcp)
  <1>1. /\ rx \in Responses
        /\ EvUnread(tcp) \in Seq(Responses)
        /\ sdpRess' \in 0 .. UdpCap
    BY EvReads
  <1>2. evSid' \in Sids
    BY <1>1, EvLearnsType DEF Exchange
  <1>3. toSe' \in Seq(Requests)
    <2>1. Req(Awaits(evState), arg) \in Requests
      BY MessageOfState, MessageTypes
    <2>2. EvSent(Req(Awaits(evState), arg)) \in Seq(Requests)
      BY <2>1, EvSentType
    <2> QED  BY <2>2 DEF Exchange, LinkTypeOK
  <1>4. evState' \in EvStates /\ evEntered' \in BOOLEAN
    <2>1. evState \in EvStates /\ "failure" \in EvStates
      BY DEF EvTypeOK, EvStates
    <2>2. PICK to \in EvStates : EvGoto(to)
      BY <2>1 DEF Exchange
    <2> QED  BY <2>2, EvGotoType
  <1>5. evTimer' \in BOOLEAN /\ evConnecting' \in BOOLEAN
    BY DEF Exchange, EvTypeOK, EvAnswered, EvValid, EvSends
  <1>6. LinkTypeOK'
    BY <1>1, <1>3 DEF Exchange, LinkTypeOK
  <1> QED  BY <1>2, <1>4, <1>5, <1>6

(* A cycle of the vehicle keeps the types, handler by handler. *)
LEMMA EvCycleType ==
    ASSUME LinkTypeOK, EvTypeOK, NEW run, EvCycle(run)
    PROVE  LinkTypeOK' /\ EvTypeOK'
  <1> PICK udp \in BOOLEAN, tcp \in BOOLEAN, tick \in BOOLEAN :
           EvCycleWith(run, udp, tcp, tick)
    BY DEF EvCycle
  <1> DEFINE rx == EvRx(udp, tcp)
  <1> HIDE DEF rx
  <1>0. /\ EvTakesFrames(udp, tcp)
        /\ evEnable' \in BOOLEAN
    BY DEF EvCycleWith, EvTypeOK
  <1>1. /\ rx \in Responses
        /\ EvUnread(tcp) \in Seq(Responses)
        /\ sdpRess' \in 0 .. UdpCap
        /\ <<>> \in Seq(Responses)
    BY <1>0, EvReads DEF rx
  <1>2. ExchangeStates \cup {"idle", "awaitSdp", "awaitDisconnection", "failure", "finished"}
            \subseteq EvStates
    BY DEF EvStates
  <1>3. /\ NoArg \in ReqArgs /\ Modes \subseteq ReqArgs
        /\ {"iso", "Start", "Stop", "flow", "zero"} \subseteq ReqArgs
        /\ evMode \in Modes
    BY DEF ReqArgs, EvTypeOK
  <1>4. ASSUME NEW arg \in ReqArgs, NEW next \in EvStates,
               Awaits(evState) = "ChargeParameterDiscovery" => arg \in Modes,
               Exchange(rx, tcp, tick, arg, next),
               evMode' \in Modes,
               evCp' \in {"B", "C"} /\ evContactor' \in BOOLEAN /\ evAmps' \in BOOLEAN
        PROVE  LinkTypeOK' /\ EvTypeOK'
    <2>1. /\ LinkTypeOK'
          /\ evState' \in EvStates /\ evEntered' \in BOOLEAN
          /\ evTimer' \in BOOLEAN /\ evConnecting' \in BOOLEAN /\ evSid' \in Sids
      BY <1>0, <1>4, ExchangeType DEF rx
    <2> QED  BY <1>0, <1>4, <2>1 DEF EvTypeOK
  <1>5. EvDepowers =>
            evCp' \in {"B", "C"} /\ evContactor' \in BOOLEAN /\ evAmps' \in BOOLEAN
    BY EvDepowersType
  <1>6. CASE EvIdle(tcp, run)
    <2>1. evState' \in EvStates /\ evEntered' \in BOOLEAN
      BY <1>2, <1>6, EvGotoType DEF EvIdle
    <2>2. evSid' \in Sids
      BY <1>6, SidModAssumption DEF EvIdle, Sids, EvTypeOK
    <2> QED
      BY <1>0, <1>1, <1>5, <1>6, <2>1, <2>2
      DEF EvIdle, EvCloses, LinkTypeOK, EvTypeOK, EvSocks
  <1>7. CASE EvAwaitSdp(rx, tcp, tick)
    <2>1. evState' \in EvStates /\ evEntered' \in BOOLEAN
      <3>1. PICK to \in {"failure", "awaitSupportedAppProtocol", "awaitSdp"} : EvGoto(to)
        BY <1>7 DEF EvAwaitSdp
      <3> QED  BY <1>2, <3>1, EvGotoType DEF ExchangeStates
    <2>2. evSid' \in Sids
      BY <1>1, <1>7, EvLearnsType DEF EvAwaitSdp
    <2>3. sdpReqs' \in 0 .. UdpCap
      BY <1>7, UdpCapAssumption DEF EvAwaitSdp, AddUdp, LinkTypeOK
    <2>4. /\ evTimer' \in BOOLEAN /\ evConnecting' \in BOOLEAN
          /\ evSock' \in EvSocks
          /\ UNCHANGED <<evMode, seSock, toSe>> /\ toEv' = EvUnread(tcp)
      BY <1>7 DEF EvAwaitSdp, LinkTypeOK, EvTypeOK, EvSocks
    <2>5. evCp' \in {"B", "C"} /\ evContactor' \in BOOLEAN /\ evAmps' \in BOOLEAN
      BY <1>5, <1>7 DEF EvAwaitSdp
    <2> QED
      BY <1>0, <1>1, <2>1, <2>2, <2>3, <2>4, <2>5 DEF LinkTypeOK, EvTypeOK
  <1>8. CASE EvAwaitSupportedAppProtocol(rx, tcp, tick)
    BY <1>2, <1>3, <1>4, <1>5, <1>8
    DEF EvAwaitSupportedAppProtocol, ExchangeStates, Awaits
  <1>9. CASE EvAwaitSessionSetup(rx, tcp, tick)
    BY <1>2, <1>3, <1>4, <1>5, <1>9
    DEF EvAwaitSessionSetup, ExchangeStates, Awaits
  <1>10. CASE EvAwaitServiceDiscovery(rx, tcp, tick)
    <2>1. evMode' \in Modes
      BY <1>3, <1>10
      DEF EvAwaitServiceDiscovery, AdoptedMode, Modes, DCModes
    <2> DEFINE next == IF AdoptedMode(rx.modes) \in rx.modes
                       THEN "awaitPaymentServiceSelection" ELSE "failure"
    <2>2. next \in EvStates
      BY <1>2 DEF ExchangeStates
    <2> HIDE DEF next
    <2>3. Exchange(rx, tcp, tick, NoArg, next) /\ EvDepowers
      BY <1>10 DEF EvAwaitServiceDiscovery, next
    <2> QED
      BY <1>3, <1>4, <1>5, <1>10, <2>1, <2>2, <2>3
      DEF EvAwaitServiceDiscovery, Awaits
  <1>11. CASE EvAwaitPaymentServiceSelection(rx, tcp, tick)
    BY <1>2, <1>3, <1>4, <1>5, <1>11
    DEF EvAwaitPaymentServiceSelection, ExchangeStates, Awaits
  <1>12. CASE EvAwaitAuthorization(rx, tcp, tick)
    BY <1>2, <1>3, <1>4, <1>5, <1>12
    DEF EvAwaitAuthorization, ExchangeStates, Awaits
  <1>13. CASE EvAwaitChargeParameterDiscovery(rx, tcp, tick)
    BY <1>2, <1>3, <1>4, <1>5, <1>13
    DEF EvAwaitChargeParameterDiscovery, ExchangeStates
  <1>14. CASE EvAwaitPowerDelivery(rx, tcp, tick)
    <2> DEFINE next == IF evEnable
                THEN IF IsAC3 THEN "awaitChargingStatus" ELSE "awaitCurrentDemand"
                ELSE IF IsAC3 THEN "awaitSessionStop" ELSE "awaitWeldingDetection"
    <2> DEFINE arg == IF evEnable THEN "Start" ELSE "Stop"
    <2>1. next \in EvStates /\ arg \in ReqArgs
      BY <1>2, <1>3 DEF ExchangeStates
    <2>2. Exchange(rx, tcp, tick, arg, next)
      BY <1>14 DEF EvAwaitPowerDelivery
    <2> HIDE DEF next, arg
    <2> QED
      BY <1>3, <1>4, <1>14, <2>1, <2>2 DEF EvAwaitPowerDelivery, Awaits, EvTypeOK
  <1>15. CASE EvAwaitChargingStatus(rx, tcp, tick)
    BY <1>2, <1>3, <1>4, <1>5, <1>15
    DEF EvAwaitChargingStatus, ExchangeStates, Awaits
  <1>16. CASE EvAwaitCableCheck(rx, tcp, tick)
    <2>1. evCp' \in {"B", "C"}
      BY <1>16 DEF EvAwaitCableCheck, EvTypeOK
    <2> QED
      BY <1>2, <1>3, <1>4, <1>16, <2>1
      DEF EvAwaitCableCheck, ExchangeStates, Awaits, EvTypeOK
  <1>17. CASE EvAwaitPreCharge(rx, tcp, tick)
    <2>1. evCp' \in {"B", "C"}
      BY <1>17 DEF EvAwaitPreCharge, EvTypeOK
    <2> QED
      BY <1>2, <1>3, <1>4, <1>17, <2>1
      DEF EvAwaitPreCharge, ExchangeStates, Awaits, EvTypeOK
  <1>18. CASE EvAwaitCurrentDemand(rx, tcp, tick)
    <2> DEFINE arg == IF evEnable /\ evContactor' THEN "flow" ELSE "zero"
    <2> DEFINE next == IF evEnable \/ evAmps' THEN "awaitCurrentDemand"
                       ELSE "awaitPowerDelivery"
    <2>1. arg \in ReqArgs /\ next \in EvStates
      BY <1>2, <1>3 DEF ExchangeStates
    <2>2. Exchange(rx, tcp, tick, arg, next)
      BY <1>18 DEF EvAwaitCurrentDemand
    <2> HIDE DEF next, arg
    <2>3. evContactor' \in BOOLEAN /\ evAmps' \in BOOLEAN
      BY <1>18 DEF EvAwaitCurrentDemand, EvTypeOK
    <2> QED
      BY <1>3, <1>4, <1>18, <2>1, <2>2, <2>3 DEF EvAwaitCurrentDemand, Awaits, EvTypeOK
  <1>19. CASE EvAwaitWeldingDetection(rx, tcp, tick)
    BY <1>2, <1>3, <1>4, <1>5, <1>19
    DEF EvAwaitWeldingDetection, ExchangeStates, Awaits
  <1>20. CASE EvAwaitSessionStop(rx, tcp, tick)
    BY <1>2, <1>3, <1>4, <1>5, <1>20
    DEF EvAwaitSessionStop, ExchangeStates, Awaits
  <1>21. CASE EvAwaitDisconnection(rx, tcp)
    <2>1. evState' \in EvStates /\ evEntered' \in BOOLEAN
      BY <1>2, <1>21, EvGotoType DEF EvAwaitDisconnection
    <2>2. evSid' \in Sids
      BY <1>1, <1>21, EvLearnsType DEF EvAwaitDisconnection
    <2> QED
      BY <1>0, <1>1, <1>5, <1>21, <2>1, <2>2
      DEF EvAwaitDisconnection, EvCloses, LinkTypeOK, EvTypeOK, EvSocks
  <1>22. CASE EvFailure(rx, tcp, run)
    <2>1. evState' \in EvStates /\ evEntered' \in BOOLEAN
      BY <1>2, <1>22, EvGotoType DEF EvFailure
    <2>2. evSid' \in Sids
      BY <1>1, <1>22, EvLearnsType DEF EvFailure
    <2> QED
      BY <1>0, <1>1, <1>5, <1>22, <2>1, <2>2
      DEF EvFailure, EvCloses, LinkTypeOK, EvTypeOK, EvSocks
  <1>23. CASE EvFinished(tcp, run)
    <2>1. evState' \in EvStates /\ evEntered' \in BOOLEAN
      BY <1>2, <1>23, EvGotoType DEF EvFinished
    <2> QED
      BY <1>0, <1>1, <1>5, <1>23, <2>1 DEF EvFinished, LinkTypeOK, EvTypeOK
  <1> QED
    BY <1>6, <1>7, <1>8, <1>9, <1>10, <1>11, <1>12, <1>13, <1>14, <1>15, <1>16,
       <1>17, <1>18, <1>19, <1>20, <1>21, <1>22, <1>23
    DEF EvCycleWith, rx

(* What the station reads is a request, and its buffers keep their types. *)
LEMMA SeReads ==
    ASSUME LinkTypeOK,
           NEW udp \in BOOLEAN, NEW tcp \in BOOLEAN, NEW fin \in BOOLEAN,
           SeTakesFrames(udp, tcp, fin)
    PROVE  /\ SeRx(udp, tcp) \in Requests
           /\ SeUnread(tcp) \in Seq(Requests)
           /\ sdpReqs' \in 0 .. UdpCap
  <1>1. tcp => Head(toSe) \in Requests /\ Tail(toSe) \in Seq(Requests)
    BY ReadBuffer DEF LinkTypeOK, SeTakesFrames
  <1>2. SeRx(udp, tcp) \in Requests
    BY <1>1, MessageTypes, Zenon DEF SeRx
  <1>3. SeUnread(tcp) \in Seq(Requests)
    BY <1>1 DEF SeUnread, LinkTypeOK
  <1>4. sdpReqs' \in 0 .. UdpCap
    BY UdpCapAssumption DEF SeTakesFrames, LinkTypeOK
  <1> QED  BY <1>2, <1>3, <1>4

(* The station's responses are well formed. *)
LEMMA SeResponseType ==
    ASSUME NEW s \in AnsweredStates, NEW dialect \in BOOLEAN, NEW sid \in Sids
    PROVE  SeResponse(s, dialect, sid) \in Responses
  <1> DEFINE ok == s # "answeredSupportedAppProtocol" \/ dialect
             arg == CASE s \in {"answeredAuthorization", "answeredCableCheck"} -> "Finished"
                      [] s = "answeredCurrentDemand" ->
                             IF PsKept /\ psAmps THEN "flow" ELSE "zero"
                      [] OTHER -> NoArg
             modes == IF s = "answeredServiceDiscovery" THEN SeModes ELSE {}
  <1>1. ok \in BOOLEAN /\ arg \in ResArgs /\ modes \in SUBSET Modes
    BY SeModesAssumption DEF ResArgs, NoArg
  <1>2. Answers(s) \in MsgTypes
    BY MessageOfState DEF MsgTypes
  <1>3. SeResponse(s, dialect, sid) = Res(Answers(s), ok, sid, arg, modes)
    BY DEF SeResponse
  <1> HIDE DEF ok, arg, modes
  <1> QED  BY <1>1, <1>2, <1>3, MessageTypes

(* A cycle of the station keeps the types. *)
LEMMA SeCycleType ==
    ASSUME LinkTypeOK, EvTypeOK, SeTypeOK, NEW run, SeCycle(run)
    PROVE  LinkTypeOK' /\ SeTypeOK'
  <1> PICK udp \in BOOLEAN, tcp \in BOOLEAN, fin \in BOOLEAN :
           SeCycleWith(run, udp, tcp, fin)
    BY DEF SeCycle
  <1> DEFINE rx == SeRx(udp, tcp)
  <1> HIDE DEF rx
  <1>1. SeTakesFrames(udp, tcp, fin) /\ UNCHANGED <<seAlive, seCp, evSock>>
    BY DEF SeCycleWith
  <1>2. /\ rx \in Requests
        /\ SeUnread(tcp) \in Seq(Requests)
        /\ sdpReqs' \in 0 .. UdpCap
        /\ <<>> \in Seq(Requests)
    BY <1>1, SeReads DEF rx
  <1>3. seDialect' \in BOOLEAN /\ seMode' \in Modes
    BY <1>2 DEF SeCycleWith, SeEvaluates, Requests, SeTypeOK, rx
  <1>4. seContactor' \in BOOLEAN
    BY DEF SeCycleWith, SeContactorFollowsPilot, SeTypeOK
  <1>5. toSe' \in Seq(Requests)
    BY <1>2 DEF SeCycleWith
  <1>6. ASSUME NEW keeps, SeClientAfter(keeps)
        PROVE  seSock' \in SeSocks
    BY <1>6 DEF SeClientAfter, SeSocks, LinkTypeOK
  <1>7. ASSUME NEW keeps, SeStays(keeps)
        PROVE  /\ seSid' \in Sids /\ sdpRess' \in 0 .. UdpCap
               /\ toEv' \in Seq(Responses) /\ seSock' \in SeSocks
               /\ psOn' \in BOOLEAN /\ psAmps' \in BOOLEAN
    BY <1>6, <1>7 DEF SeStays, LinkTypeOK, SeTypeOK, PsKept
  <1>8. ASSUME seState' \in SeStates, seEntered' \in BOOLEAN,
               seSid' \in Sids, sdpRess' \in 0 .. UdpCap,
               toEv' \in Seq(Responses), seSock' \in SeSocks,
               psOn' \in BOOLEAN, psAmps' \in BOOLEAN
        PROVE  LinkTypeOK' /\ SeTypeOK'
    BY <1>1, <1>2, <1>3, <1>4, <1>5, <1>8 DEF LinkTypeOK, SeTypeOK
  <1>9. AnsweredStates \cup {"idle", "awaitSdp", "failure", "finished"} \subseteq SeStates
    BY DEF SeStates
  <1>10. ASSUME NEW s \in AnsweredStates, SeAnswer(rx, fin, s)
         PROVE  LinkTypeOK' /\ SeTypeOK'
    <2> DEFINE sid == IF s = "answeredSessionSetup" THEN (seSid + 1) % SidMod
                      ELSE seSid
               refused == s = "answeredSupportedAppProtocol" /\ ~seDialect'
    <2>1. sid \in Sids
      BY SidModAssumption DEF Sids, SeTypeOK
    <2>2. seState' \in SeStates /\ seEntered' \in BOOLEAN
      BY <1>9, <1>10 DEF SeAnswer
    <2>3. /\ seSid' = sid
          /\ SeSends(s, HasClient(fin), seDialect', sid)
          /\ SePowers(s, rx)
          /\ SeClientAfter(HasClient(fin))
      BY <1>10 DEF SeAnswer
    <2> HIDE DEF sid
    <2>4. sdpRess' \in 0 .. UdpCap
      BY <2>3, UdpCapAssumption DEF SeSends, AddUdp, LinkTypeOK
    <2>5. toEv' \in Seq(Responses)
      <3>1. SeResponse(s, seDialect', sid) \in Responses
        BY <1>3, <2>1, SeResponseType
      <3>2. Append(toEv, SeResponse(s, seDialect', sid)) \in Seq(Responses)
        BY <3>1, WriteBuffer DEF LinkTypeOK
      <3> QED  BY <2>3, <3>2 DEF SeSends, LinkTypeOK
    <2>6. psOn' \in BOOLEAN /\ psAmps' \in BOOLEAN
      BY <2>3 DEF SePowers, PsKept, SeTypeOK
    <2> QED  BY <1>6, <1>8, <2>1, <2>2, <2>3, <2>4, <2>5, <2>6
  <1>11. CASE SeDropsOrWaits(rx, fin)
    <2>1. seState' \in SeStates /\ seEntered' \in BOOLEAN
      BY <1>9, <1>11 DEF SeDropsOrWaits
    <2> QED  BY <1>7, <1>8, <1>11, <2>1 DEF SeDropsOrWaits
  <1>12. CASE SeLostClient(fin, run)
    <2>1. seState' \in SeStates /\ seEntered' \in BOOLEAN
      BY <1>9, <1>12 DEF SeLostClient
    <2> QED  BY <1>7, <1>8, <1>12, <2>1 DEF SeLostClient
  <1>13. CASE SeSessionStopped(fin, run)
    <2>1. seState' \in SeStates /\ seEntered' \in BOOLEAN
      BY <1>9, <1>13 DEF SeSessionStopped
    <2> QED  BY <1>7, <1>8, <1>13, <2>1 DEF SeSessionStopped
  <1>14. CASE SeIdle(fin, run)
    <2>1. seState' \in SeStates /\ seEntered' \in BOOLEAN
      BY <1>9, <1>14 DEF SeIdle
    <2> QED  BY <1>7, <1>8, <1>14, <2>1 DEF SeIdle
  <1>15. CASE SeFailure(fin, run)
    <2>1. seState' \in SeStates /\ seEntered' \in BOOLEAN
      BY <1>9, <1>15 DEF SeFailure
    <2> QED  BY <1>7, <1>8, <1>15, <2>1 DEF SeFailure
  <1>16. CASE SeFinished(fin, run)
    <2>1. seState' \in SeStates /\ seEntered' \in BOOLEAN
      BY <1>9, <1>16 DEF SeFinished
    <2> QED  BY <1>7, <1>8, <1>16, <2>1 DEF SeFinished
  <1> QED
    BY <1>10, <1>11, <1>12, <1>13, <1>14, <1>15, <1>16 DEF SeCycleWith, rx

(* Init and every action of the composition keep the types. *)
LEMMA InitTypeOK == Init => TypeOK
  <1> SUFFICES ASSUME Init PROVE TypeOK
    OBVIOUS
  <1>1. LinkTypeOK
    BY UdpCapAssumption
    DEF Init, LinkInit, LinkTypeOK, EvSocks, SeSocks
  <1>2. 0 \in Sids
    BY SidModAssumption DEF Sids
  <1>3. EvTypeOK
    BY <1>2, EvModesAssumption DEF Init, EvInit, EvTypeOK, EvStates
  <1>4. SeTypeOK
    BY <1>2, SeMode0Assumption DEF Init, SeInit, SeTypeOK, SeStates
  <1> QED  BY <1>1, <1>3, <1>4 DEF TypeOK

LEMMA NextTypeOK == TypeOK /\ [Next]_vars => TypeOK'
  <1> SUFFICES ASSUME TypeOK, [Next]_vars PROVE TypeOK'
    OBVIOUS
  <1> USE DEF TypeOK
  <1>1. CASE Ev
    <2>1. LinkTypeOK' /\ EvTypeOK'
      BY <1>1, EvCycleType DEF Ev
    <2> QED  BY <1>1, <2>1 DEF Ev, seVars, SeTypeOK
  <1>2. CASE User
    BY <1>2 DEF User, EvSetEnable, linkVars, seVars, LinkTypeOK, EvTypeOK, SeTypeOK
  <1>3. CASE EvReboot
    <2>1. 0 \in Sids /\ 0 \in 0 .. UdpCap /\ <<>> \in Seq(Responses)
      BY SidModAssumption, UdpCapAssumption DEF Sids
    <2> QED
      BY <1>3, <2>1, EvModesAssumption
      DEF EvReboot, EvRestart, EvCloses, seVars, LinkTypeOK, EvTypeOK, SeTypeOK,
          EvStates, EvSocks
  <1>4. CASE Se
    <2>1. LinkTypeOK' /\ SeTypeOK'
      BY <1>4, SeCycleType DEF Se
    <2> QED  BY <1>4, <2>1 DEF Se, evVars, EvTypeOK
  <1>5. CASE SeDies
    <2>1. 0 \in 0 .. UdpCap /\ <<>> \in Seq(Requests)
      BY UdpCapAssumption
    <2>2. LinkTypeOK'
      BY <1>5, <2>1 DEF SeDies, SeCrash, LinkTypeOK, SeSocks
    <2>3. EvTypeOK'
      BY <1>5 DEF SeDies, evVars, EvTypeOK
    <2>4. SeTypeOK'
      BY <1>5 DEF SeDies, SeCrash, SeTypeOK
    <2> QED  BY <2>2, <2>3, <2>4
  <1>6. CASE SeReboot
    <2>1. 0 \in Sids /\ 0 \in 0 .. UdpCap /\ <<>> \in Seq(Requests)
      BY SidModAssumption, UdpCapAssumption DEF Sids
    <2> QED
      BY <1>6, <2>1, SeMode0Assumption
      DEF SeReboot, SeRestart, evVars, LinkTypeOK, EvTypeOK, SeTypeOK,
          SeStates, SeSocks
  <1>7. CASE Pilot
    BY <1>7 DEF Pilot, linkVars, evVars, LinkTypeOK, EvTypeOK, SeTypeOK
  <1>8. CASE Connect
    BY <1>8 DEF Connect, ConnectSucceeds, evVars, seVars, LinkTypeOK, EvTypeOK,
                SeTypeOK, EvSocks, SeSocks
  <1>9. CASE Refuse
    BY <1>9 DEF Refuse, ConnectFails, evVars, seVars, LinkTypeOK, EvTypeOK,
                SeTypeOK, EvSocks
  <1>10. CASE Accept
    BY <1>10 DEF Accept, AcceptThread, evVars, seVars, LinkTypeOK, EvTypeOK,
                 SeTypeOK, SeSocks
  <1>11. CASE HangUp
    BY <1>11 DEF HangUp, EvNoticesHangUp, evVars, seVars, LinkTypeOK, EvTypeOK,
                 SeTypeOK, EvSocks
  <1>12. CASE Lose
    BY <1>12, UdpCapAssumption
    DEF Lose, LoseSdpReq, LoseSdpRes, evVars, seVars, LinkTypeOK, EvTypeOK, SeTypeOK
  <1>13. CASE UNCHANGED vars
    BY <1>13 DEF vars, linkVars, evVars, seVars, LinkTypeOK, EvTypeOK, SeTypeOK
  <1> QED
    BY <1>1, <1>2, <1>3, <1>4, <1>5, <1>6, <1>7, <1>8, <1>9, <1>10, <1>11, <1>12,
       <1>13
    DEF Next

(* Whatever the constants, every variable keeps its type: buffers hold only *)
(* requests (responses), SDP frames stay within their bound, both machines  *)
(* stay in their states.                                                    *)
THEOREM TypeCorrect == Spec => []TypeOK
  <1> QED  BY InitTypeOK, NextTypeOK, PTL DEF Spec

-----------------------------------------------------------------------------
(* The tables of the two machines fit together *)

(* The station's state that answers what `from` awaits accepts what `to`   *)
(* sends.                                                                  *)
Follows(from, to) ==
    \A u \in AnsweredStates : Answers(u) = Awaits(from) => u \in Expecting(Awaits(to))

(* Every transition of the vehicle from one exchange to the next, or back  *)
(* to the same, is one the station's table follows.                        *)
LEMMA Dialogue ==
    /\ Follows("awaitSupportedAppProtocol", "awaitSessionSetup")
    /\ Follows("awaitSessionSetup", "awaitServiceDiscovery")
    /\ Follows("awaitServiceDiscovery", "awaitPaymentServiceSelection")
    /\ Follows("awaitPaymentServiceSelection", "awaitAuthorization")
    /\ Follows("awaitAuthorization", "awaitAuthorization")
    /\ Follows("awaitAuthorization", "awaitChargeParameterDiscovery")
    /\ Follows("awaitChargeParameterDiscovery", "awaitPowerDelivery")
    /\ Follows("awaitChargeParameterDiscovery", "awaitCableCheck")
    /\ Follows("awaitPowerDelivery", "awaitChargingStatus")
    /\ Follows("awaitPowerDelivery", "awaitCurrentDemand")
    /\ Follows("awaitPowerDelivery", "awaitSessionStop")
    /\ Follows("awaitPowerDelivery", "awaitWeldingDetection")
    /\ Follows("awaitChargingStatus", "awaitChargingStatus")
    /\ Follows("awaitChargingStatus", "awaitPowerDelivery")
    /\ Follows("awaitCableCheck", "awaitCableCheck")
    /\ Follows("awaitCableCheck", "awaitPreCharge")
    /\ Follows("awaitPreCharge", "awaitPreCharge")
    /\ Follows("awaitPreCharge", "awaitPowerDelivery")
    /\ Follows("awaitCurrentDemand", "awaitCurrentDemand")
    /\ Follows("awaitCurrentDemand", "awaitPowerDelivery")
    /\ Follows("awaitWeldingDetection", "awaitSessionStop")
  BY DEF Follows, Expecting, Answers, Awaits, Successors, AnsweredStates, SeStates

(* The dialogue begins after the SDP exchange, and only awaitSdp accepts   *)
(* an SDP request.                                                         *)
LEMMA FirstRequest ==
    /\ "answeredSdp" \in Expecting("SupportedAppProtocol")
    /\ \A s : Successors(s) \subseteq AnsweredStates
    /\ \A s : \A u \in Successors(s) :
          Answers(u) = "Sdp" => s = "awaitSdp" /\ u = "answeredSdp"
    /\ \A s : \A u \in Successors(s) :
          u = "answeredSdp" => s = "awaitSdp"
    /\ Successors("idle") = {} /\ Successors("finished") = {}
    /\ Successors("failure") = {}
  BY DEF Expecting, Answers, Successors, AnsweredStates, SeStates

-----------------------------------------------------------------------------
(* The two machines stay in step *)

(* In an exchange no UDP frame is under way, and a TCP frame is only there *)
(* for the vehicle when its response is.                                   *)
LEMMA ExchangeReads ==
    ASSUME TypeOK, SessionInv, evState \in ExchangeStates,
           NEW udp \in BOOLEAN, NEW tcp \in BOOLEAN, EvTakesFrames(udp, tcp)
    PROVE  /\ Linked /\ ~udp /\ sdpRess' = sdpRess /\ sdpRess = 0
           /\ tcp => ResponseUnderWay /\ EvAnswered(EvRx(udp, tcp)) /\ EvUnread(tcp) = <<>>
           /\ ~tcp => ~EvAnswered(EvRx(udp, tcp)) /\ EvUnread(tcp) = toEv
  <1>1. Linked
    BY DEF SessionInv, InStep
  <1>2. ~udp /\ sdpRess = 0 /\ sdpRess' = sdpRess
    BY <1>1 DEF SessionInv, OneConnection, Linked, EvTakesFrames, TypeOK, LinkTypeOK
  <1>3. evState \notin {"idle", "finished"}
    BY DEF ExchangeStates
  <1>4. ASSUME tcp
        PROVE  ResponseUnderWay /\ EvAnswered(EvRx(udp, tcp)) /\ EvUnread(tcp) = <<>>
    <2>1. toEv # <<>> /\ toEv \in Seq(Responses)
      BY <1>4 DEF EvTakesFrames, TypeOK, LinkTypeOK
    <2>2. ~AboutToSend /\ ~RequestUnderWay
      BY <2>1 DEF AboutToSend, RequestUnderWay
    <2>3. ResponseUnderWay
      BY <2>2 DEF SessionInv, InStep
    <2>4. Head(toEv) = toEv[1] /\ Tail(toEv) = <<>>
      BY <2>1, <2>3, ReadBuffer DEF ResponseUnderWay
    <2>5. EvRx(udp, tcp) = toEv[1] /\ EvUnread(tcp) = <<>>
      BY <1>3, <1>4, <2>4 DEF EvRx, EvUnread
    <2> QED  BY <2>3, <2>5 DEF ResponseUnderWay, EvAnswered
  <1>5. ASSUME ~tcp
        PROVE  ~EvAnswered(EvRx(udp, tcp)) /\ EvUnread(tcp) = toEv
    <2>1. EvRx(udp, tcp) = EmptyRes /\ EvUnread(tcp) = toEv
      BY <1>2, <1>5 DEF EvRx, EvUnread
    <2>2. EmptyRes.type # Awaits(evState)
      BY MessageOfState DEF EmptyRes, Res
    <2> QED  BY <2>1, <2>2 DEF EvAnswered
  <1> QED  BY <1>1, <1>2, <1>4, <1>5

(* The common part of the exchange handlers keeps the machines in step if  *)
(* the handler goes where the station's table follows, and stays only      *)
(* where it repeats.                                                       *)
LEMMA ExchangeInStep ==
    ASSUME TypeOK, SessionInv, evState \in ExchangeStates,
           NEW udp \in BOOLEAN, NEW tcp \in BOOLEAN, NEW tick \in BOOLEAN,
           EvTakesFrames(udp, tcp), tick => evTimer, UNCHANGED seVars,
           NEW arg, NEW next,
           Req(Awaits(evState), arg) \in Requests,
           evState = "awaitSupportedAppProtocol" => arg = "iso",
           next \in ExchangeStates =>
               Follows(evState, next) /\ (next = evState => evState \in Repeating),
           next # "awaitSdp",
           Exchange(EvRx(udp, tcp), tcp, tick, arg, next)
    PROVE  SessionInv'
  <1> DEFINE rx == EvRx(udp, tcp)
             req == Req(Awaits(evState), arg)
  <1>1. /\ Linked /\ ~udp /\ sdpRess' = sdpRess /\ sdpRess = 0
        /\ tcp => ResponseUnderWay /\ EvAnswered(rx) /\ EvUnread(tcp) = <<>>
        /\ ~tcp => ~EvAnswered(rx) /\ EvUnread(tcp) = toEv
    BY ExchangeReads
  <1>2. /\ UNCHANGED <<evSock, seSock, sdpReqs, seState>>
        /\ toEv' = EvUnread(tcp)
    BY DEF Exchange, seVars
  <1>3. "failure" \notin ExchangeStates /\ "awaitSdp" \notin ExchangeStates
    BY DEF ExchangeStates
  <1>4. /\ evState' = IF ~EvAnswered(rx) THEN evState
                      ELSE IF EvValid(rx) THEN next ELSE "failure"
        /\ evEntered' = (evState' # evState)
    BY <1>1 DEF Exchange, EvGoto, Linked
  <1>5. /\ toSe' = IF EvSends(tick) THEN EvSent(req) ELSE toSe
        /\ evTimer' = IF EvAnswered(rx) THEN EvValid(rx) /\ next = evState
                      ELSE evTimer /\ ~EvSends(tick)
    BY DEF Exchange
  <1> HIDE DEF rx
  <1>6. evState' # "awaitSdp"
    BY <1>3, <1>4
  <1>7. OneConnection' /\ SdpFollowed' /\ FreshConnection'
    BY <1>1, <1>2, <1>6
    DEF SessionInv, OneConnection, SdpFollowed, FreshConnection, Linked
  <1>8. Linked'
    BY <1>1, <1>2 DEF Linked
  <1>9. CASE tcp
    <2>1. ResponseUnderWay /\ EvAnswered(rx) /\ toEv' = <<>>
      BY <1>1, <1>2, <1>9
    <2>2. ~EvSends(tick) /\ toSe' = <<>>
      BY <1>5, <2>1 DEF ResponseUnderWay, EvSends
    <2>3. ASSUME evState' \in ExchangeStates
          PROVE  AboutToSend'
      <3>1. EvValid(rx) /\ evState' = next
        BY <1>3, <1>4, <2>1, <2>3
      <3>2. seState' \in Expecting(Awaits(evState'))
        BY <1>2, <2>1, <2>3, <3>1 DEF ResponseUnderWay, Follows
      <3>3. evEntered' \/ (evTimer' /\ evState' \in Repeating)
        BY <1>4, <1>5, <2>1, <2>3, <3>1
      <3> QED  BY <2>1, <2>2, <3>2, <3>3 DEF AboutToSend, Expecting
    <2> QED
      BY <1>7, <1>8, <2>2, <2>3
      DEF SessionInv, InStep, RequestExpected, IsoOffered
  <1>10. CASE ~tcp
    <2>1. ~EvAnswered(rx) /\ toEv' = toEv /\ evState' = evState /\ ~evEntered'
      BY <1>1, <1>2, <1>4, <1>10
    <2>2. CASE EvSends(tick)
      <3>1. AboutToSend
        BY <2>2 DEF SessionInv, InStep, RequestUnderWay, ResponseUnderWay, EvSends
      <3>2. toSe' = Append(<<>>, req)
        BY <1>1, <1>5, <2>2, <3>1 DEF EvSent, Linked, AboutToSend
      <3> HIDE DEF req
      <3>3. Len(toSe') = 1 /\ toSe'[1] = req /\ req \in Requests
        BY <3>2 DEF req
      <3>4. req.type = Awaits(evState) /\ req.arg = arg
        BY DEF req, Req
      <3>5. RequestUnderWay'
        BY <1>5, <2>1, <2>2, <3>1, <3>3, <3>4 DEF AboutToSend, RequestUnderWay
      <3>6. RequestExpected'
        BY <1>2, <3>1, <3>3, <3>4 DEF AboutToSend, RequestExpected, Expecting
      <3>7. IsoOffered'
        <4>1. Awaits(evState) = "SupportedAppProtocol" =>
                  evState = "awaitSupportedAppProtocol"
          BY DEF Awaits, ExchangeStates
        <4> QED  BY <3>3, <3>4, <4>1 DEF IsoOffered
      <3> QED
        BY <1>7, <1>8, <3>5, <3>6, <3>7 DEF SessionInv, InStep
    <2>3. CASE ~EvSends(tick)
      <3>1. toSe' = toSe /\ evTimer' = evTimer /\ ~evEntered
        BY <1>5, <2>1, <2>3 DEF EvSends, TypeOK, EvTypeOK
      <3>2. UNCHANGED <<toSe, toEv, seState, evState, seSock, evSock>>
        BY <1>2, <2>1, <3>1
      <3>3. RequestExpected' /\ IsoOffered'
        BY <3>2 DEF SessionInv, InStep, RequestExpected, IsoOffered, Expecting
      <3>4. (AboutToSend \/ RequestUnderWay \/ ResponseUnderWay)'
        BY <2>1, <3>1, <3>2
        DEF SessionInv, InStep, AboutToSend, RequestUnderWay, ResponseUnderWay, Expecting
      <3> QED  BY <1>7, <1>8, <3>3, <3>4 DEF SessionInv, InStep
    <2> QED  BY <2>2, <2>3
  <1> QED  BY <1>9, <1>10

(* A cycle of the vehicle, handler by handler. *)
LEMMA EvInStep ==
    ASSUME TypeOK, SessionInv, NEW run, EvCycle(run), UNCHANGED seVars
    PROVE  SessionInv'
  <1> PICK udp \in BOOLEAN, tcp \in BOOLEAN, tick \in BOOLEAN :
           EvCycleWith(run, udp, tcp, tick)
    BY DEF EvCycle
  <1> DEFINE rx == EvRx(udp, tcp)
  <1> HIDE DEF rx
  <1>1. /\ EvTakesFrames(udp, tcp) /\ (tick => evTimer)
        /\ UNCHANGED seState
    BY DEF EvCycleWith, seVars
  <1>2. ASSUME NEW arg, NEW next,
               evState \in ExchangeStates,
               Req(Awaits(evState), arg) \in Requests,
               evState = "awaitSupportedAppProtocol" => arg = "iso",
               next \in ExchangeStates =>
                   Follows(evState, next) /\ (next = evState => evState \in Repeating),
               next # "awaitSdp",
               Exchange(rx, tcp, tick, arg, next)
        PROVE  SessionInv'
    BY <1>1, <1>2, ExchangeInStep DEF rx
  <1>3. \A a \in ReqArgs : Awaits(evState) # "ChargeParameterDiscovery"
                             => Req(Awaits(evState), a) \in Requests
    BY MessageTypes, MessageOfState
  <1>4. {NoArg, "iso", "Start", "Stop", "flow", "zero"} \subseteq ReqArgs
    BY DEF ReqArgs
  <1>5. /\ "failure" \notin ExchangeStates /\ "awaitDisconnection" \notin ExchangeStates
        /\ "awaitSdp" \notin ExchangeStates /\ "idle" \notin ExchangeStates
        /\ "finished" \notin ExchangeStates
    BY DEF ExchangeStates
  <1>6. CASE EvIdle(tcp, run)
    BY <1>1, <1>5, <1>6
    DEF EvIdle, EvCloses, EvGoto, EvTakesFrames, SessionInv, OneConnection, InStep,
        RequestExpected, Expecting, SdpFollowed, FreshConnection, IsoOffered,
        TypeOK, LinkTypeOK
  <1>7. CASE EvAwaitSdp(rx, tcp, tick)
    <2>1. evState = "awaitSdp" /\ ~tcp /\ UNCHANGED <<toEv, toSe, seSock>>
      BY <1>1, <1>7
      DEF EvAwaitSdp, EvTakesFrames, EvUnread, SessionInv, FreshConnection
    <2>2. rx.type = "Sdp" <=> udp
      BY <2>1, MessageTypes DEF rx, EvRx, SdpRes, EmptyRes, Res
    <2>3. udp => /\ seState = "answeredSdp" /\ sdpRess = 1
                 /\ seSock = "none" /\ evSock \notin {"open", "connecting"}
      BY <1>1, <2>1 DEF EvTakesFrames, SessionInv, OneConnection, SdpFollowed, FreshConnection
    <2>4. /\ evState' \in {"failure", "awaitSupportedAppProtocol", "awaitSdp"}
          /\ evState' = "awaitSupportedAppProtocol" => evSock' = "open" /\ evEntered'
          /\ evSock' # evSock => udp /\ evSock' = "connecting" /\ evState' = "awaitSdp"
          /\ evSock = "connecting" => evState' = "awaitSdp"
      BY <1>5, <1>7, <2>2, <2>3 DEF EvAwaitSdp, EvGoto
    <2>5. sdpRess' = IF udp THEN 0 ELSE sdpRess
      BY <1>1, <2>3 DEF EvTakesFrames
    <2>6. OneConnection' /\ SdpFollowed'
      BY <1>1, <2>1, <2>3, <2>4, <2>5 DEF SessionInv, OneConnection, SdpFollowed
    <2>7. FreshConnection' /\ IsoOffered' /\ RequestExpected'
      BY <1>1, <2>1, <2>4
      DEF SessionInv, InStep, FreshConnection, IsoOffered, RequestExpected, Expecting
    <2>8. ASSUME evState' \in ExchangeStates
          PROVE  Linked' /\ AboutToSend'
      <3>1. evState' = "awaitSupportedAppProtocol" /\ evSock' = "open" /\ evEntered'
        BY <1>5, <2>4, <2>8
      <3>2. evSock = "open"
        BY <2>4, <3>1
      <3>3. seSock # "none" /\ toSe = <<>> /\ toEv = <<>> /\ seState = "answeredSdp"
        BY <2>1, <3>2 DEF SessionInv, FreshConnection
      <3>4. Awaits(evState') = "SupportedAppProtocol"
        BY <3>1 DEF Awaits
      <3> QED
        BY <1>1, <2>1, <3>1, <3>3, <3>4, FirstRequest DEF Linked, AboutToSend, Expecting
    <2> QED  BY <2>6, <2>7, <2>8 DEF SessionInv, InStep
  <1>8. CASE EvAwaitSupportedAppProtocol(rx, tcp, tick)
    BY <1>2, <1>3, <1>4, <1>8, Dialogue
    DEF EvAwaitSupportedAppProtocol, ExchangeStates, Awaits
  <1>9. CASE EvAwaitSessionSetup(rx, tcp, tick)
    BY <1>2, <1>3, <1>4, <1>9, Dialogue
    DEF EvAwaitSessionSetup, ExchangeStates, Awaits
  <1>10. CASE EvAwaitServiceDiscovery(rx, tcp, tick)
    BY <1>2, <1>3, <1>4, <1>10, Dialogue
    DEF EvAwaitServiceDiscovery, ExchangeStates, Awaits
  <1>11. CASE EvAwaitPaymentServiceSelection(rx, tcp, tick)
    BY <1>2, <1>3, <1>4, <1>11, Dialogue
    DEF EvAwaitPaymentServiceSelection, ExchangeStates, Awaits
  <1>12. CASE EvAwaitAuthorization(rx, tcp, tick)
    BY <1>2, <1>3, <1>4, <1>12, Dialogue
    DEF EvAwaitAuthorization, ExchangeStates, Awaits, Repeating
  <1>13. CASE EvAwaitChargeParameterDiscovery(rx, tcp, tick)
    <2>1. Req(Awaits(evState), evMode) \in Requests
      BY MessageTypes, MessageOfState DEF TypeOK, EvTypeOK, ReqArgs
    <2> QED
      BY <1>2, <1>13, <2>1, Dialogue
      DEF EvAwaitChargeParameterDiscovery, ExchangeStates
  <1>14. CASE EvAwaitPowerDelivery(rx, tcp, tick)
    BY <1>2, <1>3, <1>4, <1>14, Dialogue
    DEF EvAwaitPowerDelivery, ExchangeStates, Awaits
  <1>15. CASE EvAwaitChargingStatus(rx, tcp, tick)
    BY <1>2, <1>3, <1>4, <1>15, Dialogue
    DEF EvAwaitChargingStatus, ExchangeStates, Awaits, Repeating
  <1>16. CASE EvAwaitCableCheck(rx, tcp, tick)
    BY <1>2, <1>3, <1>4, <1>16, Dialogue
    DEF EvAwaitCableCheck, ExchangeStates, Awaits, Repeating
  <1>17. CASE EvAwaitPreCharge(rx, tcp, tick)
    BY <1>2, <1>3, <1>4, <1>17, Dialogue
    DEF EvAwaitPreCharge, ExchangeStates, Awaits, Repeating
  <1>18. CASE EvAwaitCurrentDemand(rx, tcp, tick)
    <2> PICK arg \in {"flow", "zero"}, next \in {"awaitCurrentDemand", "awaitPowerDelivery"} :
             Exchange(rx, tcp, tick, arg, next)
      BY <1>18 DEF EvAwaitCurrentDemand
    <2>1. evState = "awaitCurrentDemand"
      BY <1>18 DEF EvAwaitCurrentDemand
    <2> QED
      BY <1>2, <1>3, <1>4, <2>1, Dialogue DEF ExchangeStates, Awaits, Repeating
  <1>19. CASE EvAwaitWeldingDetection(rx, tcp, tick)
    BY <1>2, <1>3, <1>4, <1>19, Dialogue
    DEF EvAwaitWeldingDetection, ExchangeStates, Awaits
  <1>20. CASE EvAwaitSessionStop(rx, tcp, tick)
    BY <1>2, <1>3, <1>4, <1>5, <1>20 DEF EvAwaitSessionStop, ExchangeStates, Awaits
  <1>21. CASE EvAwaitDisconnection(rx, tcp)
    BY <1>1, <1>5, <1>21
    DEF EvAwaitDisconnection, EvCloses, EvGoto, EvTakesFrames, SessionInv,
        OneConnection, InStep, RequestExpected, Expecting, SdpFollowed, FreshConnection,
        IsoOffered, TypeOK, LinkTypeOK
  <1>22. CASE EvFailure(rx, tcp, run)
    BY <1>1, <1>5, <1>22
    DEF EvFailure, EvCloses, EvGoto, EvTakesFrames, SessionInv,
        OneConnection, InStep, RequestExpected, Expecting, SdpFollowed, FreshConnection,
        IsoOffered, TypeOK, LinkTypeOK
  <1>23. CASE EvFinished(tcp, run)
    BY <1>1, <1>5, <1>23
    DEF EvFinished, EvGoto, EvTakesFrames, SessionInv,
        OneConnection, InStep, RequestExpected, Expecting, SdpFollowed, FreshConnection,
        IsoOffered, TypeOK, LinkTypeOK
  <1> QED
    BY <1>6, <1>7, <1>8, <1>9, <1>10, <1>11, <1>12, <1>13, <1>14, <1>15, <1>16,
       <1>17, <1>18, <1>19, <1>20, <1>21, <1>22, <1>23
    DEF EvCycleWith, rx

(* A request that the station reads is the only one, and it finds an edge. *)
LEMMA SeReadsRequest ==
    ASSUME TypeOK, SessionInv,
           NEW udp \in BOOLEAN, NEW tcp \in BOOLEAN, NEW fin \in BOOLEAN,
           SeTakesFrames(udp, tcp, fin), tcp
    PROVE  /\ HasClient(fin) /\ seSock = "open"
           /\ SeRx(udp, tcp) = toSe[1] /\ SeUnread(tcp) = <<>> /\ Len(toSe) = 1
           /\ seState \in Expecting(toSe[1].type)
           /\ ~SeNoEdge(SeRx(udp, tcp), fin)
  <1>1. seSock = "open" /\ ~fin /\ toSe # <<>> /\ toSe \in Seq(Requests)
    BY DEF SeTakesFrames, TypeOK, LinkTypeOK
  <1>2. Len(toSe) = 1 /\ seState \in Expecting(toSe[1].type)
    BY <1>1 DEF SessionInv, InStep, RequestExpected
  <1>3. Head(toSe) = toSe[1] /\ Tail(toSe) = <<>>
    BY <1>1, <1>2, ReadBuffer
  <1>4. seState \notin {"idle", "finished"}
    BY <1>2, FirstRequest DEF Expecting
  <1>5. SeRx(udp, tcp) = toSe[1] /\ SeUnread(tcp) = <<>>
    BY <1>3, <1>4 DEF SeRx, SeUnread
  <1>6. HasClient(fin)
    BY <1>1 DEF HasClient
  <1>7. ~SeNoEdge(SeRx(udp, tcp), fin)
    <2>1. PICK u \in Successors(seState) : Answers(u) = toSe[1].type
      BY <1>2 DEF Expecting
    <2>2. u \in AnsweredStates
      BY <2>1, FirstRequest
    <2> QED  BY <1>5, <1>6, <2>1, <2>2 DEF SeNoEdge, EdgeTaken
  <1> QED  BY <1>1, <1>2, <1>5, <1>6, <1>7

(* A cycle of the station that answers a request. *)
LEMMA SeAnswerInStep ==
    ASSUME TypeOK, SessionInv, UNCHANGED <<evVars, evSock>>,
           NEW udp \in BOOLEAN, NEW tcp \in BOOLEAN, NEW fin \in BOOLEAN,
           SeTakesFrames(udp, tcp, fin),
           SeEvaluates(SeRx(udp, tcp)),
           NEW s \in AnsweredStates,
           SeAnswer(SeRx(udp, tcp), fin, s),
           toSe' = IF seSock' = "none" \/ fin THEN <<>> ELSE SeUnread(tcp)
    PROVE  SessionInv'
  <1> DEFINE rx == SeRx(udp, tcp)
             sid == IF s = "answeredSessionSetup" THEN (seSid + 1) % SidMod ELSE seSid
  <1>1. /\ s \in Successors(seState) /\ Answers(s) = rx.type
        /\ SeSends(s, HasClient(fin), seDialect', sid)
        /\ SeClientAfter(HasClient(fin))
        /\ s # "answeredSupportedAppProtocol" => seState' = s
        /\ seDialect' => seState' = s
    BY DEF SeAnswer, EdgeTaken
  <1>2. /\ UNCHANGED <<evState, evEntered, evTimer, evSock>>
        /\ s \notin {"idle", "awaitSdp", "finished", "failure"}
    BY DEF evVars, AnsweredStates
  <1>3. seState # "awaitSdp" <=> s # "answeredSdp"
    BY <1>1, FirstRequest DEF Successors
  <1>4. CASE tcp
    <2>1. /\ HasClient(fin) /\ seSock = "open" /\ ~fin
          /\ rx = toSe[1] /\ SeUnread(tcp) = <<>> /\ Len(toSe) = 1
          /\ toSe # <<>>
      BY <1>4, SeReadsRequest DEF SeTakesFrames
    <2>2. seSock' = "open" /\ toSe' = <<>>
      BY <1>1, <2>1 DEF SeClientAfter
    <2>3. s # "answeredSdp" /\ seState # "awaitSdp"
      BY <1>3, <2>1 DEF SessionInv, OneConnection
    <2>4. seState' = s
      <3>1. CASE s = "answeredSupportedAppProtocol"
        <4>1. rx.type = "SupportedAppProtocol"
          BY <1>1, <3>1 DEF Answers
        <4>2. rx.arg = "iso"
          BY <2>1, <4>1 DEF SessionInv, IsoOffered
        <4>3. seDialect'
          BY <4>1, <4>2 DEF SeEvaluates
        <4> QED  BY <1>1, <4>3
      <3> QED  BY <1>1, <3>1
    <2>5. sdpRess' = sdpRess /\ sdpRess = 0 /\ evSock # "connecting"
      BY <1>1, <2>1, <2>3
      DEF SeSends, SessionInv, OneConnection, TypeOK, LinkTypeOK
    <2>6. OneConnection'
      BY <1>2, <2>2, <2>3, <2>4, <2>5 DEF OneConnection
    <2>7. SdpFollowed' /\ IsoOffered' /\ RequestExpected'
      BY <1>2, <2>2, <2>5 DEF SessionInv, SdpFollowed, IsoOffered, RequestExpected
    <2>8. FreshConnection'
      BY <1>2, <2>1 DEF SessionInv, FreshConnection
    <2>9. ASSUME evState' \in ExchangeStates
          PROVE  Linked' /\ ResponseUnderWay'
      <3>1. evState \in ExchangeStates /\ Linked
        BY <1>2, <2>9 DEF SessionInv, InStep
      <3>2. RequestUnderWay
        BY <2>1, <3>1 DEF SessionInv, InStep, AboutToSend, ResponseUnderWay
      <3> DEFINE res == SeResponse(s, seDialect', sid)
      <3>3. toEv' = Append(<<>>, res) /\ res.type = Answers(s)
        BY <1>1, <2>1, <3>1, <3>2
        DEF SeSends, Linked, RequestUnderWay, SeResponse, Res
      <3> HIDE DEF res
      <3>4. Len(toEv') = 1 /\ toEv'[1].type = Answers(s)
        BY <3>3
      <3>5. Answers(s) = Awaits(evState)
        BY <1>1, <2>1, <3>2 DEF RequestUnderWay
      <3> QED
        BY <1>2, <2>2, <2>4, <3>1, <3>2, <3>4, <3>5
        DEF RequestUnderWay, ResponseUnderWay, Linked
    <2> QED  BY <2>6, <2>7, <2>8, <2>9 DEF SessionInv, InStep
  <1>5. CASE ~tcp
    <2>1. rx \in {SdpReq, EmptyReq} /\ SeUnread(tcp) = toSe
      BY <1>5 DEF SeRx, SeUnread
    <2>2. s = "answeredSdp" /\ seState = "awaitSdp"
      BY <1>1, <2>1, MessageOfState, FirstRequest DEF SdpReq, EmptyReq, Req
    <2>3. seSock = "none" /\ sdpRess = 0 /\ evSock # "connecting"
      BY <2>2 DEF SessionInv, OneConnection, TypeOK, LinkTypeOK
    <2>4. seSock' = "none" /\ seState' = "answeredSdp" /\ toSe' = <<>>
      BY <1>1, <2>2, <2>3 DEF SeClientAfter, HasClient
    <2>5. sdpRess' = 1
      BY <1>1, <2>2, <2>3, UdpCapAssumption DEF SeSends, AddUdp
    <2>6. evState \notin ExchangeStates /\ ~(evState = "awaitSdp" /\ evSock = "open")
      BY <2>3 DEF SessionInv, InStep, Linked, FreshConnection
    <2> QED
      BY <1>2, <2>3, <2>4, <2>5, <2>6
      DEF SessionInv, InStep, RequestExpected, OneConnection, SdpFollowed,
          FreshConnection, IsoOffered
  <1> QED  BY <1>4, <1>5

(* A cycle of the station that answers nothing and keeps no more than the  *)
(* client it had. *)
LEMMA SeStaysInStep ==
    ASSUME TypeOK, SessionInv, UNCHANGED <<evVars, evSock>>,
           NEW udp \in BOOLEAN, NEW tcp \in BOOLEAN, NEW fin \in BOOLEAN,
           SeTakesFrames(udp, tcp, fin),
           NEW keeps, SeStays(keeps),
           toSe' = IF seSock' = "none" \/ fin THEN <<>> ELSE SeUnread(tcp),
           ~tcp,
           \/ keeps = HasClient(fin) /\ seState' = seState
           \/ seSock' = "none" /\ seState # "answeredSdp" /\ ~Linked
    PROVE  SessionInv'
  <1>1. /\ UNCHANGED <<evState, evEntered, evTimer, evSock, toEv, sdpRess>>
        /\ SeClientAfter(keeps) /\ SeUnread(tcp) = toSe
        /\ fin => evSock # "open"
        /\ seSock \in SeSocks
    BY DEF evVars, SeStays, SeUnread, SeTakesFrames, EvHungUp, TypeOK, LinkTypeOK
  <1>2. CASE keeps = HasClient(fin) /\ seState' = seState
    <2>1. seSock = "none" => seSock' = "none"
      BY <1>1, <1>2 DEF SeClientAfter, HasClient
    <2>2. evSock = "open" /\ seSock # "none" => seSock' # "none"
      BY <1>1, <1>2 DEF SeClientAfter, HasClient, SeSocks
    <2>3. seSock' \in {"backlog", "queued"} => seSock' = seSock
      BY <1>1, <1>2 DEF SeClientAfter, HasClient, SeSocks
    <2>4. OneConnection'
      BY <1>1, <1>2, <2>1, <2>3 DEF SessionInv, OneConnection
    <2>5. SdpFollowed' /\ IsoOffered' /\ FreshConnection'
      BY <1>1, <1>2, <2>1, <2>2 DEF SessionInv, SdpFollowed, IsoOffered, FreshConnection
    <2>6. RequestExpected'
      BY <1>1, <1>2, <2>1 DEF SessionInv, InStep, RequestExpected, Expecting
    <2>7. ASSUME evState' \in ExchangeStates
          PROVE  Linked' /\ (AboutToSend \/ RequestUnderWay \/ ResponseUnderWay)'
      <3>1. evState \in ExchangeStates /\ Linked
        BY <1>1, <2>7 DEF SessionInv, InStep
      <3>2. Linked' /\ toSe' = toSe
        BY <1>1, <2>2, <3>1 DEF Linked
      <3>3. AboutToSend \/ RequestUnderWay \/ ResponseUnderWay
        BY <3>1 DEF SessionInv, InStep
      <3> QED
        BY <1>1, <1>2, <3>2, <3>3
        DEF AboutToSend, RequestUnderWay, ResponseUnderWay, Expecting
    <2> QED  BY <2>4, <2>5, <2>6, <2>7 DEF SessionInv, InStep
  <1>3. CASE seSock' = "none" /\ seState # "answeredSdp" /\ ~Linked
    <2>1. evState \notin ExchangeStates /\ ~(evState = "awaitSdp" /\ evSock = "open")
      BY <1>3 DEF SessionInv, InStep, FreshConnection
    <2>2. sdpRess = 0 /\ evSock # "connecting"
      BY <1>3 DEF SessionInv, OneConnection
    <2> QED
      BY <1>1, <1>3, <2>1, <2>2
      DEF SessionInv, InStep, RequestExpected, OneConnection, SdpFollowed,
          FreshConnection, IsoOffered
  <1> QED  BY <1>2, <1>3

(* A cycle of the station, outcome by outcome. *)
LEMMA SeInStep ==
    ASSUME TypeOK, SessionInv, NEW run, SeCycle(run), UNCHANGED evVars
    PROVE  SessionInv'
  <1> PICK udp \in BOOLEAN, tcp \in BOOLEAN, fin \in BOOLEAN :
           SeCycleWith(run, udp, tcp, fin)
    BY DEF SeCycle
  <1> DEFINE rx == SeRx(udp, tcp)
  <1>1. /\ SeTakesFrames(udp, tcp, fin) /\ SeEvaluates(rx)
        /\ UNCHANGED <<evVars, evSock>>
        /\ toSe' = IF seSock' = "none" \/ fin THEN <<>> ELSE SeUnread(tcp)
    BY DEF SeCycleWith
  <1> HIDE DEF rx
  <1>2. tcp => /\ HasClient(fin) /\ seSock = "open"
               /\ ~SeNoEdge(rx, fin)
               /\ seState \notin {"idle", "finished", "failure"}
    <2> HAVE tcp
    <2>1. /\ HasClient(fin) /\ seSock = "open" /\ ~SeNoEdge(rx, fin)
          /\ seState \in Expecting(toSe[1].type)
      BY <1>1, SeReadsRequest DEF rx
    <2>2. seState \notin {"idle", "finished", "failure"}
      BY <2>1, FirstRequest DEF Expecting
    <2> QED  BY <2>1, <2>2
  <1>3. seState \notin {"answeredSdp"} /\ ~HasClient(fin) => ~Linked
    BY <1>1
    DEF SessionInv, OneConnection, TypeOK, LinkTypeOK, SeSocks, HasClient, Linked,
        SeTakesFrames, EvHungUp
  <1>4. seState \in {"idle", "awaitSdp", "finished", "failure"} =>
            seSock = "none" /\ ~Linked /\ ~HasClient(fin)
    BY DEF SessionInv, OneConnection, Linked, HasClient
  <1>5. ASSUME NEW keeps, SeStays(keeps), ~tcp,
               \/ keeps = HasClient(fin) /\ seState' = seState
               \/ seSock' = "none" /\ seState # "answeredSdp" /\ ~Linked
        PROVE  SessionInv'
    BY <1>1, <1>5, SeStaysInStep DEF rx
  <1>6. ASSUME SeStays(FALSE), ~HasClient(fin), seState # "answeredSdp"
        PROVE  seSock' = "none"
    BY <1>6
    DEF SeStays, SeClientAfter, SessionInv, OneConnection, TypeOK, LinkTypeOK, SeSocks
  <1>7. ASSUME NEW s \in AnsweredStates, SeAnswer(rx, fin, s)
        PROVE  SessionInv'
    BY <1>1, <1>7, SeAnswerInStep DEF rx
  <1>8. CASE SeDropsOrWaits(rx, fin)
    BY <1>2, <1>5, <1>8 DEF SeDropsOrWaits
  <1>9. CASE SeLostClient(fin, run)
    BY <1>2, <1>3, <1>5, <1>6, <1>9 DEF SeLostClient, Clientless
  <1>10. CASE SeSessionStopped(fin, run)
    BY <1>2, <1>3, <1>5, <1>6, <1>10 DEF SeSessionStopped
  <1>11. CASE SeIdle(fin, run)
    <2>1. SeStays(FALSE) /\ seState = "idle"
      BY <1>4, <1>11 DEF SeIdle
    <2> QED  BY <1>2, <1>4, <1>5, <1>6, <2>1
  <1>12. CASE SeFailure(fin, run)
    <2>1. SeStays(FALSE) /\ seState = "failure"
      BY <1>4, <1>12 DEF SeFailure
    <2> QED  BY <1>2, <1>4, <1>5, <1>6, <2>1
  <1>13. CASE SeFinished(fin, run)
    <2>1. SeStays(FALSE) /\ seState = "finished"
      BY <1>4, <1>13 DEF SeFinished, SeStays, SeClientAfter
    <2> QED  BY <1>2, <1>4, <1>5, <1>6, <2>1
  <1> QED
    BY <1>7, <1>8, <1>9, <1>10, <1>11, <1>12, <1>13 DEF SeCycleWith, rx

(* The invariant holds initially and every step keeps it, unless the       *)
(* station's program is quit.                                              *)
LEMMA InitSessionInv == Init => SessionInv
  BY DEF Init, LinkInit, EvInit, SeInit, SessionInv, OneConnection, InStep,
         RequestExpected, SdpFollowed, FreshConnection, IsoOffered, ExchangeStates

LEMMA NextSessionInv == ~SeQuits /\ TypeOK /\ SessionInv /\ [Next]_vars => SessionInv'
  <1> SUFFICES ASSUME ~SeQuits, TypeOK, SessionInv, [Next]_vars PROVE SessionInv'
    OBVIOUS
  <1>a. ASSUME UNCHANGED <<evState, evEntered, evTimer, seState, evSock, seSock,
                           toSe, toEv, sdpRess>>
        PROVE  SessionInv'
    BY <1>a
    DEF SessionInv, OneConnection, InStep, Linked, RequestExpected, AboutToSend,
        RequestUnderWay, ResponseUnderWay, Expecting, SdpFollowed, FreshConnection,
        IsoOffered
  <1>b. "idle" \notin ExchangeStates /\ "awaitSdp" \notin ExchangeStates
    BY DEF ExchangeStates
  <1>1. CASE Ev
    BY <1>1, EvInStep DEF Ev
  <1>2. CASE User
    BY <1>a, <1>2 DEF User, EvSetEnable, linkVars, seVars
  <1>3. CASE EvReboot
    BY <1>3, <1>b
    DEF EvReboot, EvRestart, EvCloses, seVars, SessionInv, OneConnection, InStep,
        RequestExpected, Expecting, SdpFollowed, FreshConnection, IsoOffered
  <1>4. CASE Se
    BY <1>4, SeInStep DEF Se
  <1>5. CASE SeDies
    <2>1. /\ seSock' = "none" /\ toSe' = <<>>
          /\ UNCHANGED <<evState, evSock, seState, sdpRess, toEv>>
          /\ seState \in {"idle", "finished"}
      BY <1>5 DEF SeDies, SeCrash, SeNullClient, evVars
    <2>2. evState \notin ExchangeStates /\ ~(evState = "awaitSdp" /\ evSock = "open")
      BY <2>1 DEF SessionInv, OneConnection, InStep, Linked, FreshConnection
    <2> QED
      BY <2>1, <2>2
      DEF SessionInv, OneConnection, InStep, RequestExpected, SdpFollowed,
          FreshConnection, IsoOffered
  <1>6. CASE SeReboot
    BY <1>6 DEF SeReboot
  <1>7. CASE Pilot
    BY <1>a, <1>7 DEF Pilot, linkVars, evVars
  <1>8. CASE Connect
    BY <1>8, <1>b
    DEF Connect, ConnectSucceeds, evVars, seVars, SessionInv, OneConnection, InStep,
        RequestExpected, SdpFollowed, FreshConnection, IsoOffered
  <1>9. CASE Refuse
    BY <1>9, <1>b
    DEF Refuse, ConnectFails, evVars, seVars, SessionInv, OneConnection, InStep,
        RequestExpected, Expecting, SdpFollowed, FreshConnection, IsoOffered
  <1>10. CASE Accept
    BY <1>10
    DEF Accept, AcceptThread, evVars, seVars, SessionInv, OneConnection, InStep, Linked,
        RequestExpected, AboutToSend, RequestUnderWay, ResponseUnderWay, Expecting,
        SdpFollowed, FreshConnection, IsoOffered
  <1>11. CASE HangUp
    <2>1. evState \notin ExchangeStates /\ evState' = evState
      BY <1>11 DEF HangUp, EvNoticesHangUp, SeHungUp, evVars, SessionInv, InStep, Linked
    <2> QED
      BY <1>11, <2>1
      DEF HangUp, EvNoticesHangUp, SeHungUp, evVars, seVars, SessionInv, OneConnection,
          InStep, RequestExpected, SdpFollowed, FreshConnection, IsoOffered
  <1>12. CASE Lose
    <2>1. CASE LoseSdpReq
      BY <1>a, <1>12, <2>1 DEF Lose, LoseSdpReq, evVars, seVars
    <2>2. CASE LoseSdpRes
      BY <1>12, <2>2
      DEF Lose, LoseSdpRes, evVars, seVars, SessionInv, OneConnection, InStep, Linked,
          RequestExpected, AboutToSend, RequestUnderWay, ResponseUnderWay, Expecting,
          SdpFollowed, FreshConnection, IsoOffered
    <2> QED  BY <1>12, <2>1, <2>2 DEF Lose
  <1>13. CASE UNCHANGED vars
    BY <1>a, <1>13 DEF vars, linkVars, evVars, seVars
  <1> QED
    BY <1>1, <1>2, <1>3, <1>4, <1>5, <1>6, <1>7, <1>8, <1>9, <1>10, <1>11, <1>12,
       <1>13
    DEF Next

(* As long as the station's program is not quit, and whatever else goes    *)
(* wrong, the invariant holds in every reachable state.                    *)
THEOREM SessionInvariant ==
    ASSUME ~SeQuits
    PROVE  Spec => [](TypeOK /\ SessionInv)
  <1>1. Init => TypeOK /\ SessionInv
    BY InitTypeOK, InitSessionInv
  <1>2. TypeOK /\ SessionInv /\ [Next]_vars => (TypeOK /\ SessionInv)'
    BY NextTypeOK, NextSessionInv
  <1> QED  BY <1>1, <1>2, PTL DEF Spec

(* The two machines never get out of step: every request the vehicle sends *)
(* is one the station's state accepts, and every response is the awaited   *)
(* one.                                                                    *)
THEOREM AlwaysInStep ==
    ASSUME ~SeQuits
    PROVE  Spec => []InStep
  <1>1. TypeOK /\ SessionInv => InStep
    BY DEF SessionInv
  <1> QED  BY <1>1, SessionInvariant, PTL

(* The station's single client pointer never meets a second client, and an *)
(* SDP response is followed by at most one connection.                     *)
THEOREM AlwaysOneConnection ==
    ASSUME ~SeQuits
    PROVE  Spec => []OneConnection
  <1>1. TypeOK /\ SessionInv => OneConnection
    BY DEF SessionInv
  <1> QED  BY <1>1, SessionInvariant, PTL

=============================================================================
