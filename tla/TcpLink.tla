------------------------------- MODULE TcpLink -------------------------------
(***************************************************************************)
(* What the two state machines take the TCP connection of V2gLink for:     *)
(* every call of a port is one step, frames arrive once and in order, and  *)
(* either side learns that the other one has left.  One cycle of           *)
(* cIsoProcessEVCC or cIsoProcessSECC makes several of these steps at      *)
(* once; TcpPorts shows that the ports and their threads provide them.     *)
(***************************************************************************)
EXTENDS V2gLink

CONSTANTS
    Frames,     \* the frames sent
    NoFrame     \* none of them

VARIABLES
    evTaken,    \* the frame the vehicle's program is evaluating, if any
    seTaken     \* the one the station's program is evaluating

tcpVars == <<linkVars, evTaken, seTaken>>

Init == LinkInit /\ evTaken = NoFrame /\ seTaken = NoFrame


-----------------------------------------------------------------------------
(* The vehicle *)

(* A vehicle opens a connection when the station has none: it has had the  *)
(* one answer to its SDP request (OneConnection of V2gSession).            *)
EvOpens ==
    /\ evSock = "none" /\ seSock = "none"
    /\ evSock' = "connecting"
    /\ UNCHANGED <<sdpReqs, sdpRess, seSock, toSe, toEv>>

(* What is sent after the station has left is lost. *)
EvSends ==
    /\ evSock = "open"
    /\ \E f \in Frames : toSe' = IF seSock = "none" THEN toSe ELSE Append(toSe, f)
    /\ UNCHANGED <<sdpReqs, sdpRess, evSock, seSock, toEv>>

(* Every frame is evaluated, and the next one only then. *)
EvTakes ==
    /\ evSock = "open" /\ toEv # <<>> /\ evTaken = NoFrame
    /\ evTaken' = Head(toEv)
    /\ toEv' = Tail(toEv)
    /\ UNCHANGED <<sdpReqs, sdpRess, evSock, seSock, toSe, seTaken>>

EvAcknowledges ==
    /\ evTaken # NoFrame
    /\ evTaken' = NoFrame
    /\ UNCHANGED <<linkVars, seTaken>>

EvCloses ==
    /\ evSock # "none"
    /\ evSock' = "none"
    /\ toEv' = <<>>
    /\ UNCHANGED <<sdpReqs, sdpRess, seSock, toSe>>

-----------------------------------------------------------------------------
(* The station *)

SeOpens ==
    /\ seSock = "queued"
    /\ seSock' = "open"
    /\ UNCHANGED <<sdpReqs, sdpRess, evSock, toSe, toEv>>

SeTakes ==
    /\ seSock = "open" /\ toSe # <<>> /\ seTaken = NoFrame
    /\ seTaken' = Head(toSe)
    /\ toSe' = Tail(toSe)
    /\ UNCHANGED <<sdpReqs, sdpRess, evSock, seSock, toEv, evTaken>>

SeAcknowledges ==
    /\ seTaken # NoFrame
    /\ seTaken' = NoFrame
    /\ UNCHANGED <<linkVars, evTaken>>

SeSends ==
    /\ seSock = "open"
    /\ \E f \in Frames : toEv' = IF EvHungUp THEN toEv ELSE Append(toEv, f)
    /\ UNCHANGED <<sdpReqs, sdpRess, evSock, seSock, toSe>>

(* clear(), or the end of the connection. *)
SeDrops ==
    /\ seSock = "open"
    /\ seSock' = "none"
    /\ toSe' = <<>>
    /\ UNCHANGED <<sdpReqs, sdpRess, evSock, toEv>>

-----------------------------------------------------------------------------
Next ==
    \/ EvTakes \/ EvAcknowledges \/ SeTakes \/ SeAcknowledges
    \/ /\ \/ EvOpens \/ EvSends \/ EvCloses
          \/ SeOpens \/ SeSends \/ SeDrops
          \/ ConnectSucceeds \/ ConnectFails \/ AcceptThread \/ EvNoticesHangUp
       /\ UNCHANGED <<evTaken, seTaken>>

Spec == Init /\ [][Next]_tcpVars

=============================================================================
