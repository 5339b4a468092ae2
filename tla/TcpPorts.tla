------------------------------- MODULE TcpPorts -------------------------------
(***************************************************************************)
(* The TCP ports below the two state machines, with their threads: the     *)
(* vehicle's cLxTcpClient, the station's cLxTcpServer and                  *)
(* cLxConnectedClient.  A main loop and a receiving thread share one       *)
(* buffer and a few atomic variables:                                      *)
(*   messageLen   who owns the buffer: > 0 the main loop, 0 the thread;    *)
(*                -1 the thread has seen the end, -2 the port was closed   *)
(*   threadEnabled    cleared by either side to end the thread             *)
(*   isConnectedToServer, threadIsRunning    what isConnected() and        *)
(*                isClosed() read                                          *)
(* Every access to one of these is a step of its own, so is every call     *)
(* into the kernel.  The program above the ports is any that answers a     *)
(* request with one response, as the state machines do.                    *)
(***************************************************************************)
EXTENDS Integers, Sequences

CONSTANTS
    Frames,     \* the frames that are sent
    MaxFrames,  \* most requests under way or unanswered (bound; 1 in V2gSession)
    SlowStart   \* a new thread may get its first time slice only after the
                \* main loop wants to end it again

ASSUME MaxFramesAssumption == MaxFrames \in Nat \ {0}
ASSUME SlowStartAssumption == SlowStart \in BOOLEAN

VARIABLES
    \* the kernel
    evFd,       \* the vehicle's socket
    seFd,       \* the station's end of the connection
    toSe, toEv, \* what the two receive buffers hold
    \* cLxTcpClient
    evMain,     \* where the vehicle's main loop is in the port
    evThread,   \* where threadReceiving() is
    evEnabled,  \* threadEnabled
    evRunning,  \* threadIsRunning
    evConn,     \* isConnectedToServer
    evLen,      \* messageLen (1: a frame)
    evMsg,      \* message
    evEof,      \* read_size <= 0
    \* cLxTcpServer and cLxConnectedClient
    accHolds,   \* threadAccepting() waits for newClient()
    seMain, seThread, seEnabled, seLen, seMsg,
    seOwed      \* requests the station's program has taken and not answered

evPort   == <<evMain, evThread, evEnabled, evRunning, evConn, evLen, evMsg, evEof>>
sePort   == <<seMain, seThread, seEnabled, seLen, seMsg, seOwed>>
kernel   == <<evFd, seFd, toSe, toEv>>
vars     == <<kernel, evPort, accHolds, sePort>>

(* "new": connect() has not succeeded yet. *)
EvFds == {"none", "new", "established", "refused"}
(* "queued" is newConnectedClient, "client" is pClient. *)
SeFds == {"none", "backlog", "queued", "client"}

NoFrame == 0

ASSUME FramesAssumption == NoFrame \notin Frames

Init ==
    /\ evFd = "none" /\ seFd = "none" /\ toSe = <<>> /\ toEv = <<>>
    /\ evMain = "idle" /\ evThread = "none" /\ evLen = -2 /\ evMsg = NoFrame
    /\ evEnabled = FALSE /\ evRunning = FALSE /\ evConn = FALSE /\ evEof = FALSE
    /\ accHolds = FALSE
    /\ seMain = "idle" /\ seThread = "none" /\ seEnabled = FALSE
    /\ seLen = 0 /\ seMsg = NoFrame /\ seOwed = 0

-----------------------------------------------------------------------------
(* The frame in a buffer that the program has not yet evaluated. *)

Held(thread, len, main, msg) ==
    IF thread = "got" \/ (len = 1 /\ main # "evaluated") THEN <<msg>> ELSE <<>>

AtEv == Held(evThread, evLen, evMain, evMsg) \o toEv
AtSe == Held(seThread, seLen, seMain, seMsg) \o toSe

-----------------------------------------------------------------------------
(* The kernel *)

(* Bound: the end of the last connection has been seen by the station.     *)
KernelConnects ==
    /\ evThread = "connecting" /\ evFd = "new" /\ seFd = "none"
    /\ evFd' = "established" /\ seFd' = "backlog"
    /\ toSe' = <<>> /\ toEv' = <<>>
    /\ UNCHANGED <<evPort, accHolds, sePort>>

KernelRefuses ==
    /\ evThread = "connecting" /\ evFd = "new"
    /\ evFd' = "refused"
    /\ UNCHANGED <<seFd, toSe, toEv, evPort, accHolds, sePort>>

-----------------------------------------------------------------------------
(* cLxTcpClient::threadReceiving() *)

EvGoes(pc) == evThread' = pc /\ UNCHANGED <<seFd, evMain, accHolds, sePort>>

(* Of its first three assignments only threadEnabled = true changes        *)
(* anything: open() has set threadIsRunning, and the close() it began with *)
(* has cleared isConnectedToServer.                                        *)
EvStarts ==
    /\ evThread = "start"
    /\ evEnabled' = TRUE /\ evRunning' = TRUE /\ evConn' = FALSE
    /\ evEof' = FALSE
    /\ EvGoes("connecting")
    /\ UNCHANGED <<evFd, toSe, toEv, evLen, evMsg>>

(* EISCONN *)
EvConnected ==
    /\ evThread = "connecting" /\ evFd = "established" /\ evEnabled
    /\ evConn' = TRUE
    /\ EvGoes("connected")
    /\ UNCHANGED <<evFd, toSe, toEv, evEnabled, evRunning, evLen, evMsg, evEof>>

(* isConnectedToServer is FALSE already, and nobody who is not connected   *)
(* looks at threadEnabled before threadIsRunning is cleared behind it.     *)
EvGivesUp ==
    /\ evThread = "connecting" /\ (evFd = "refused" \/ ~evEnabled)
    /\ evEnabled' = FALSE /\ evRunning' = FALSE /\ evConn' = FALSE
    /\ EvGoes("done")
    /\ UNCHANGED <<evFd, toSe, toEv, evLen, evMsg, evEof>>

EvClearsLen ==
    /\ evThread = "connected"
    /\ evLen' = 0
    /\ EvGoes("select")
    /\ UNCHANGED <<evFd, toSe, toEv, evEnabled, evRunning, evConn, evMsg, evEof>>

EvReceives ==
    /\ evThread = "select" /\ toEv # <<>>
    /\ evMsg' = Head(toEv) /\ toEv' = Tail(toEv)
    /\ EvGoes("got")
    /\ UNCHANGED <<evFd, toSe, evEnabled, evRunning, evConn, evLen, evEof>>

(* recv() returns 0 after the last frame, or an error at once when the     *)
(* station has left with something unread.                                 *)
EvReceivesEnd ==
    /\ evThread = "select" /\ seFd = "none"
    /\ evEof' = TRUE
    /\ EvGoes("end")
    /\ UNCHANGED <<evFd, toSe, toEv, evEnabled, evRunning, evConn, evLen, evMsg>>

(* Mutant: messageLen is not set. *)
EvHandsNothingOver ==
    /\ evThread = "got"
    /\ EvGoes("waiting")
    /\ UNCHANGED <<evFd, toSe, toEv, evEnabled, evRunning, evConn, evLen, evMsg, evEof>>

EvHandsOver ==
    /\ evThread = "got"
    /\ evLen' = 1
    /\ EvGoes("waiting")
    /\ UNCHANGED <<evFd, toSe, toEv, evEnabled, evRunning, evConn, evMsg, evEof>>

(* Mutant: the thread does not wait for the buffer to be read. *)
EvWaitedAtOnce ==
    /\ evThread = "waiting"
    /\ EvGoes(IF evEnabled THEN "select" ELSE "leaving")
    /\ UNCHANGED <<evFd, toSe, toEv, evEnabled, evRunning, evConn, evLen, evMsg, evEof>>

EvWaited ==
    /\ evThread = "waiting" /\ (evLen # 1 \/ ~evEnabled)
    /\ EvGoes(IF evEnabled THEN "select" ELSE "leaving")
    /\ UNCHANGED <<evFd, toSe, toEv, evEnabled, evRunning, evConn, evLen, evMsg, evEof>>

(* Mutant: a thread that was told to end goes round its loop again. *)
EvDisabledGoesOn ==
    /\ evThread = "select" /\ ~evEnabled
    /\ EvGoes("connected")
    /\ UNCHANGED <<evFd, toSe, toEv, evEnabled, evRunning, evConn, evLen, evMsg, evEof>>

EvDisabled ==
    /\ evThread = "select" /\ ~evEnabled
    /\ EvGoes("leaving")
    /\ UNCHANGED <<evFd, toSe, toEv, evEnabled, evRunning, evConn, evLen, evMsg, evEof>>

EvEnds ==
    /\ evThread = "end"
    /\ evEnabled' = FALSE
    /\ EvGoes("ended")
    /\ UNCHANGED <<evFd, toSe, toEv, evRunning, evConn, evLen, evMsg, evEof>>

EvTellsEnd ==
    /\ evThread = "ended"
    /\ evLen' = -1
    /\ EvGoes("leaving")
    /\ UNCHANGED <<evFd, toSe, toEv, evEnabled, evRunning, evConn, evMsg, evEof>>

EvLeaves ==
    /\ evThread = "leaving"
    /\ evConn' = FALSE
    /\ toEv' = IF evEof THEN <<>> ELSE toEv
    /\ EvGoes("left")
    /\ UNCHANGED <<evFd, toSe, evEnabled, evRunning, evLen, evMsg, evEof>>

EvDone ==
    /\ evThread = "left"
    /\ evRunning' = FALSE
    /\ EvGoes("done")
    /\ UNCHANGED <<evFd, toSe, toEv, evEnabled, evConn, evLen, evMsg, evEof>>

EvThreadStep ==
    \/ EvStarts \/ EvConnected \/ EvGivesUp \/ EvClearsLen
    \/ EvReceives \/ EvReceivesEnd \/ EvHandsOver \/ EvWaited \/ EvDisabled
    \/ EvEnds \/ EvTellsEnd \/ EvLeaves \/ EvDone

-----------------------------------------------------------------------------
(* The vehicle's main loop *)

EvStays == UNCHANGED <<seFd, accHolds, sePort>>

(* open(): the stack's vehicle opens a port it has closed before.  Sockets *)
(* that cannot be had end like a refused connection.                       *)
EvOpen ==
    /\ evMain = "idle" /\ evFd = "none" /\ seFd = "none"
    /\ evFd' = "new"
    /\ evEnabled' = TRUE /\ evRunning' = TRUE
    /\ evThread' = "start"
    /\ EvStays /\ UNCHANGED <<toSe, toEv, evMain, evConn, evLen, evMsg, evEof>>

(* send(), by a program that has seen isConnected() and called operate()   *)
(* since open(): the loop does so before anything is sent.  (A callback    *)
(* for -2 after the first request could free the buffer of the response.)  *)
EvSend ==
    /\ evMain = "idle" /\ evConn /\ evLen # -2
    /\ Len(AtSe) + seOwed + Len(AtEv) < MaxFrames
    /\ IF evEnabled /\ seFd # "none"
       THEN \E f \in Frames : toSe' = Append(toSe, f)
       ELSE UNCHANGED toSe
    /\ EvStays /\ UNCHANGED <<evFd, toEv, evPort>>

(* Mutant: the buffer is freed before the callback. *)
EvOperatesFreed ==
    /\ evMain = "idle" /\ evLen # 0
    /\ evMain' = IF evLen = 1 THEN "reading" ELSE "told"
    /\ evLen' = 0
    /\ EvStays
    /\ UNCHANGED <<evFd, toSe, toEv, evThread, evEnabled, evRunning, evConn, evMsg,
                   evEof>>

(* operate(): the callback is entered with a frame or with -1 or -2 ... *)
EvOperates ==
    /\ evMain = "idle" /\ evLen # 0
    /\ evMain' = IF evLen = 1 THEN "reading" ELSE "told"
    /\ EvStays
    /\ UNCHANGED <<evFd, toSe, toEv, evThread, evEnabled, evRunning, evConn, evLen,
                   evMsg, evEof>>

(* ... onFrameReceive() decodes and evaluates the frame ... *)
EvEvaluates ==
    /\ evMain = "reading"
    /\ evMain' = "evaluated"
    /\ EvStays
    /\ UNCHANGED <<evFd, toSe, toEv, evThread, evEnabled, evRunning, evConn, evLen,
                   evMsg, evEof>>

(* ... and the buffer is freed, whatever messageLen is by now.             *)
EvFrees ==
    /\ evMain \in {"evaluated", "told"}
    /\ evMain' = "idle"
    /\ evLen' = 0
    /\ EvStays
    /\ UNCHANGED <<evFd, toSe, toEv, evThread, evEnabled, evRunning, evConn, evMsg,
                   evEof>>

(* close() *)
EvClose ==
    /\ evMain = "idle" /\ evFd # "none"
    /\ SlowStart \/ evThread # "start"
    /\ evMain' = "joining"
    /\ evEnabled' = FALSE
    /\ EvStays
    /\ UNCHANGED <<evFd, toSe, toEv, evThread, evRunning, evConn, evLen, evMsg, evEof>>

EvJoins ==
    /\ evMain = "joining" /\ evThread = "done"
    /\ evMain' = "idle" /\ evThread' = "none"
    /\ evFd' = "none" /\ toEv' = <<>>
    /\ evConn' = FALSE /\ evRunning' = FALSE /\ evLen' = -2
    /\ EvStays /\ UNCHANGED <<toSe, evEnabled, evMsg, evEof>>

-----------------------------------------------------------------------------
(* cLxTcpServer::threadAccepting(): accepts one connection and waits until *)
(* the main loop has taken it.                                             *)
Accepts ==
    /\ ~accHolds /\ seFd = "backlog"
    /\ accHolds' = TRUE
    /\ seFd' = "queued"
    /\ UNCHANGED <<evFd, toSe, toEv, evPort, sePort>>

AcceptsNext ==
    /\ accHolds /\ seFd # "queued"
    /\ accHolds' = FALSE
    /\ UNCHANGED <<kernel, evPort, sePort>>

-----------------------------------------------------------------------------
(* cLxConnectedClient::threadReceiving() *)

SeGoes(pc) == seThread' = pc /\ UNCHANGED <<evFd, seFd, toEv, evPort, accHolds,
                                            seMain, seOwed>>

SeStarts ==
    /\ seThread = "start"
    /\ seEnabled' = TRUE
    /\ SeGoes("select")
    /\ UNCHANGED <<toSe, seLen, seMsg>>

SeReceives ==
    /\ seThread = "select" /\ toSe # <<>>
    /\ seMsg' = Head(toSe) /\ toSe' = Tail(toSe)
    /\ SeGoes("got")
    /\ UNCHANGED <<seEnabled, seLen>>

(* The vehicle has left, with or without a reset. *)
SeReceivesEnd ==
    /\ seThread = "select" /\ evFd # "established"
    /\ SeGoes("end")
    /\ UNCHANGED <<toSe, seEnabled, seLen, seMsg>>

SeHandsOver ==
    /\ seThread = "got"
    /\ seLen' = 1
    /\ SeGoes("waiting")
    /\ UNCHANGED <<toSe, seEnabled, seMsg>>

SeWaited ==
    /\ seThread = "waiting" /\ (seLen # 1 \/ ~seEnabled)
    /\ SeGoes(IF seEnabled THEN "select" ELSE "leaving")
    /\ UNCHANGED <<toSe, seEnabled, seLen, seMsg>>

SeDisabled ==
    /\ seThread = "select" /\ ~seEnabled
    /\ SeGoes("leaving")
    /\ UNCHANGED <<toSe, seEnabled, seLen, seMsg>>

SeEnds ==
    /\ seThread = "end"
    /\ seEnabled' = FALSE
    /\ SeGoes("leaving")
    /\ UNCHANGED <<toSe, seLen, seMsg>>

(* Mutant: the end is not told. *)
SeTellsNothing ==
    /\ seThread = "leaving"
    /\ SeGoes("done")
    /\ UNCHANGED <<toSe, seEnabled, seLen, seMsg>>

(* Any end of the thread is told to the main loop. *)
SeTellsEnd ==
    /\ seThread = "leaving"
    /\ seLen' = -1
    /\ SeGoes("done")
    /\ UNCHANGED <<toSe, seEnabled, seMsg>>

SeThreadStep ==
    \/ SeStarts \/ SeReceives \/ SeReceivesEnd \/ SeHandsOver \/ SeWaited
    \/ SeDisabled \/ SeEnds \/ SeTellsEnd

-----------------------------------------------------------------------------
(* The station's main loop *)

SeStays == UNCHANGED <<evFd, evPort, toSe>>

(* newClient() and open() in operate() of cIsoProcessSECC. *)
SeOpen ==
    /\ seMain = "idle" /\ seFd = "queued"
    /\ seFd' = "client"
    /\ seEnabled' = TRUE /\ seLen' = 0 /\ seThread' = "start" /\ seOwed' = 0
    /\ SeStays /\ UNCHANGED <<toEv, accHolds, seMain, seMsg>>

(* One response to every request. *)
SeSend ==
    /\ seMain = "idle" /\ seFd = "client" /\ seOwed > 0
    /\ seOwed' = seOwed - 1
    /\ IF seEnabled /\ evFd = "established"
       THEN \E f \in Frames : toEv' = Append(toEv, f)
       ELSE UNCHANGED toEv
    /\ SeStays /\ UNCHANGED <<seFd, accHolds, seMain, seThread, seEnabled, seLen, seMsg>>

SeOperates ==
    /\ seMain = "idle" /\ seFd = "client" /\ seLen = 1
    /\ seMain' = "reading"
    /\ SeStays
    /\ UNCHANGED <<seFd, toEv, accHolds, seThread, seEnabled, seLen, seMsg, seOwed>>

SeEvaluates ==
    /\ seMain = "reading"
    /\ seMain' = "evaluated"
    /\ seOwed' = seOwed + 1
    /\ SeStays /\ UNCHANGED <<seFd, toEv, accHolds, seThread, seEnabled, seLen, seMsg>>

(* Mutant: the callback is called again for the same frame. *)
SeFreesNothing ==
    /\ seMain = "evaluated"
    /\ seMain' = "idle"
    /\ SeStays
    /\ UNCHANGED <<seFd, toEv, accHolds, seThread, seEnabled, seLen, seMsg, seOwed>>

SeFrees ==
    /\ seMain = "evaluated"
    /\ seMain' = "idle"
    /\ seLen' = 0
    /\ SeStays
    /\ UNCHANGED <<seFd, toEv, accHolds, seThread, seEnabled, seMsg, seOwed>>

(* onFrameReceive() is told the end: it deletes pClient ... *)
SeOperatesEnd ==
    /\ seMain = "idle" /\ seFd = "client" /\ seLen = -1
    /\ seMain' = "deleting"
    /\ seEnabled' = FALSE
    /\ SeStays /\ UNCHANGED <<seFd, toEv, accHolds, seThread, seLen, seMsg, seOwed>>

(* ... and clear() does the same at any time. *)
SeClear ==
    /\ seMain = "idle" /\ seFd = "client"
    /\ SlowStart \/ seThread # "start"
    /\ seMain' = "clearing"
    /\ seEnabled' = FALSE
    /\ SeStays /\ UNCHANGED <<seFd, toEv, accHolds, seThread, seLen, seMsg, seOwed>>

SeJoins ==
    /\ seMain \in {"deleting", "clearing"} /\ seThread = "done"
    /\ seMain' = IF seMain = "deleting" THEN "deleted" ELSE "idle"
    /\ seThread' = "none"
    /\ seFd' = "none" /\ toSe' = <<>>
    /\ seOwed' = 0
    /\ UNCHANGED <<evFd, evPort, toEv, accHolds, seEnabled, seLen, seMsg>>

(* The callback returns into the deleted client's internalOperate(), which *)
(* writes messageLen: into freed memory, or into the client that has just  *)
(* been accepted and built there; that one is not open yet and its         *)
(* messageLen is 0 anyway.                                                 *)
SeReturnsIntoDeleted ==
    /\ seMain = "deleted"
    /\ seMain' = "idle"
    /\ seLen' \in {seLen, 0}
    /\ SeStays /\ UNCHANGED <<seFd, toEv, accHolds, seThread, seEnabled, seMsg, seOwed>>

-----------------------------------------------------------------------------
EvMainStep == EvOperates \/ EvEvaluates \/ EvFrees \/ EvJoins
SeMainStep ==
    \/ SeOpen \/ SeOperates \/ SeEvaluates \/ SeFrees
    \/ SeOperatesEnd \/ SeJoins \/ SeReturnsIntoDeleted

Next ==
    \/ KernelConnects \/ KernelRefuses
    \/ EvThreadStep \/ EvMainStep \/ EvOpen \/ EvSend \/ EvClose
    \/ Accepts \/ AcceptsNext
    \/ SeThreadStep \/ SeMainStep \/ SeSend \/ SeClear

Spec == Init /\ [][Next]_vars

(* Threads are scheduled and the main loops call operate() in every cycle; *)
(* connect() comes to a result.  Nobody has to open, send or close.        *)
Fairness ==
    /\ WF_vars(KernelConnects \/ KernelRefuses)
    /\ WF_vars(EvThreadStep) /\ WF_vars(SeThreadStep)
    /\ WF_vars(Accepts) /\ WF_vars(AcceptsNext)
    /\ WF_vars(EvMainStep) /\ WF_vars(SeMainStep)

FairSpec == Spec /\ Fairness

-----------------------------------------------------------------------------
FlagsOK ==
    /\ evEnabled \in BOOLEAN /\ evRunning \in BOOLEAN /\ evConn \in BOOLEAN
    /\ evEof \in BOOLEAN /\ accHolds \in BOOLEAN /\ seEnabled \in BOOLEAN

PlacesOK ==
    /\ evFd \in EvFds /\ seFd \in SeFds
    /\ toSe \in Seq(Frames) /\ toEv \in Seq(Frames)
    /\ evMain \in {"idle", "reading", "evaluated", "told", "joining"}
    /\ evThread \in {"none", "start", "connecting", "connected", "select", "got",
                     "waiting", "end", "ended", "leaving", "left", "done"}
    /\ evLen \in -2 .. 1 /\ evMsg \in Frames \cup {NoFrame}
    /\ seMain \in {"idle", "reading", "evaluated", "deleting", "clearing", "deleted"}
    /\ seThread \in {"none", "start", "select", "got", "waiting", "end", "leaving",
                     "done"}
    /\ seLen \in -1 .. 1 /\ seMsg \in Frames \cup {NoFrame}
    /\ seOwed \in 0 .. MaxFrames

TypeOK == FlagsOK /\ PlacesOK

(* While a main loop evaluates a frame in place, no thread is about to     *)
(* receive into that buffer.                                               *)
BufferOwned ==
    /\ evMain = "reading" => evThread \notin {"select", "got"}
    /\ seMain = "reading" => seThread \notin {"select", "got"}

(* A connection that the station is about to delete is none to its program, *)
(* one the vehicle is about to close stands until the socket is closed: the *)
(* kernel may still connect it.                                            *)
SeDeletes == seMain \in {"deleting", "clearing"}

SeSock == IF SeDeletes THEN "none" ELSE IF seFd = "client" THEN "open" ELSE seFd

EvSock ==
    IF evFd = "none" THEN "none"
    ELSE IF evFd = "new" THEN "connecting"
    ELSE IF evFd = "refused" \/ (evEof /\ evThread \in {"left", "done"}) THEN "lost"
    ELSE "open"

ToSe == IF SeDeletes THEN <<>> ELSE AtSe

EvTaken == IF evMain = "evaluated" THEN evMsg ELSE NoFrame
SeTaken == IF seMain = "evaluated" THEN seMsg ELSE NoFrame

(* The ports implement the connection that V2gSession is built on.         *)
Link == INSTANCE TcpLink WITH
    UdpCap  <- 1,
    SidMod  <- 2,
    sdpReqs <- 0,
    sdpRess <- 0,
    evSock  <- EvSock,
    seSock  <- SeSock,
    toSe    <- ToSe,
    toEv    <- AtEv,
    evTaken <- EvTaken,
    seTaken <- SeTaken

(* What the state machines send arrives once, in order and whole, as long  *)
(* as the other side is there, and nothing else arrives: no frame is lost  *)
(* between the thread that receives it and the main loop that evaluates    *)
(* it, nor taken for one of an earlier connection.                         *)
ImplementsLink == Link!Spec

(* close() and delete come back: the thread they join ends.                *)
CloseReturns ==
    /\ evMain = "joining" ~> evMain = "idle"
    /\ seMain \in {"deleting", "clearing"} ~> seMain = "idle"

(* Either side gets to know that the other one has left: the vehicle by    *)
(* isClosed(), the station by losing its pClient.                          *)
EndNoticed ==
    /\ (evFd = "established" /\ seFd = "none") ~> ~evRunning
    /\ (evFd # "established" /\ seFd # "none") ~> seFd = "none"

(* A frame that was sent gets to the other program or the connection ends. *)
FrameEvaluated ==
    /\ (seFd = "client" /\ AtSe # <<>>) ~> (seMain = "evaluated" \/ seFd = "none")
    /\ (evConn /\ AtEv # <<>>) ~> (evMain = "evaluated" \/ ~evConn)

=============================================================================
