---------------------------- MODULE TcpPortsProofs ----------------------------
(***************************************************************************)
(* Proofs about the TCP ports: who owns the receive buffers, and the step  *)
(* simulation that makes the ports with their threads an implementation of *)
(* the connection in TcpLink.  Everything holds with SlowStart as well and *)
(* for any number of frames under way.                                     *)
(***************************************************************************)
EXTENDS TcpPorts, SequenceTheorems, TLAPS

-----------------------------------------------------------------------------
(* A frame the thread has received and the program has not evaluated. *)
EvHolds == evThread = "got" \/ (evLen = 1 /\ evMain # "evaluated")
SeHolds == seThread = "got" \/ (seLen = 1 /\ seMain # "evaluated")

(* Requests and responses under way, and requests unanswered. *)
EvHeld == IF EvHolds THEN 1 ELSE 0
SeHeld == IF SeHolds THEN 1 ELSE 0
Pending == Len(toSe) + SeHeld + seOwed + Len(toEv) + EvHeld

(* The vehicle's thread, its socket and its buffer. *)
EvInv ==
    /\ evThread = "none" <=> evFd = "none"
    /\ evThread = "start" => evFd = "new"
    /\ evThread \in {"connected", "select", "got", "waiting", "end", "ended",
                     "leaving", "left"} => evFd = "established"
    /\ evMain = "joining" => evThread # "none"
    /\ evThread \in {"connected", "select", "got", "waiting"} =>
           evEnabled \/ evMain = "joining"
    /\ evLen = 1 =>
           \/ evThread = "waiting"
           \/ evMain = "joining" /\ ~evEof /\ evThread \in {"leaving", "left", "done"}
    /\ evLen = -1 => evThread \in {"leaving", "left", "done"}
    /\ evMain \in {"reading", "evaluated"} => evLen = 1
    /\ EvHolds \/ evLen = 1 => evMsg \in Frames
    /\ evConn => evThread \in {"connected", "select", "got", "waiting", "end", "ended",
                               "leaving"}
    /\ evEof => evThread \in {"none", "start", "end", "ended", "leaving", "left", "done"}
    /\ evEof /\ evFd = "established" => seFd = "none"

(* The same of the station, for every connection its program holds. *)
SeInv ==
    /\ seFd # "client" => seThread = "none" /\ seOwed = 0
    /\ SeDeletes => seFd = "client"
    /\ seMain = "deleted" => seFd # "client"
    /\ seThread \in {"select", "got", "waiting"} => seEnabled \/ SeDeletes
    /\ seLen = 1 => \/ seThread = "waiting"
                    \/ SeDeletes /\ seThread = "leaving"
    /\ seThread = "done" => seLen = -1
    /\ seMain \in {"reading", "evaluated"} => seLen = 1
    /\ SeHolds \/ seLen = 1 => seMsg \in Frames

(* Before the vehicle's program has had its callback for the -2 of an      *)
(* earlier close(), nothing of the new connection is under way: the        *)
(* callback frees a buffer that holds no frame.                            *)
Untold ==
    /\ evFd = "established"
    /\ \/ evThread = "connecting"
       \/ /\ evThread \in {"connected", "select", "got", "waiting"}
          /\ evLen = -2 \/ evMain = "told"

QuietInv ==
    Untold => ~EvHolds /\ ~SeHolds /\ toSe = <<>> /\ toEv = <<>> /\ seOwed = 0

PortsInv == TypeOK /\ EvInv /\ SeInv /\ QuietInv /\ Pending <= MaxFrames

-----------------------------------------------------------------------------
(* What recv() takes off a queue stays its head in the buffer. *)
LEMMA HeadTail ==
    ASSUME NEW S, NEW q \in Seq(S), q # <<>>
    PROVE  /\ <<Head(q)>> \o Tail(q) = q
           /\ Head(q) \in S /\ Tail(q) \in Seq(S)
           /\ Len(Tail(q)) + 1 = Len(q)
  OBVIOUS

(* An empty buffer adds nothing. *)
LEMMA EmptyHead ==
    ASSUME NEW S, NEW q \in Seq(S)
    PROVE  <<>> \o q = q
  OBVIOUS

(* The frame in the buffer is the first one. *)
LEMMA HeadOfHeld ==
    ASSUME NEW S, NEW q \in Seq(S), NEW m \in S
    PROVE  <<m>> \o q # <<>> /\ Head(<<m>> \o q) = m /\ Tail(<<m>> \o q) = q
  OBVIOUS

(* What is sent goes behind the buffer and the queue. *)
LEMMA AppendConcat ==
    ASSUME NEW S, NEW q \in Seq(S), NEW p \in Seq(S), NEW m \in S
    PROVE  p \o Append(q, m) = Append(p \o q, m)
  OBVIOUS

CountsOK ==
    /\ Len(toSe) \in Nat /\ Len(toEv) \in Nat /\ seOwed \in Nat
    /\ EvHeld \in Nat /\ SeHeld \in Nat

(* The parts of Pending are numbers. *)
LEMMA CountsNat ==
    /\ PlacesOK => CountsOK
    /\ PlacesOK' => CountsOK'
  BY DEF PlacesOK, CountsOK, EvHeld, SeHeld

(* So is its bound. *)
LEMMA MaxFramesNat == MaxFrames \in Nat
  BY MaxFramesAssumption

(* A step that moves a frame or takes one away, ...                       *)
LEMMA NoMorePending ==
    ASSUME CountsOK, CountsOK', Pending <= MaxFrames,
           EvHeld' + Len(toEv') <= EvHeld + Len(toEv),
           SeHeld' + Len(toSe') + seOwed' <= SeHeld + Len(toSe) + seOwed
    PROVE  Pending' <= MaxFrames
  BY MaxFramesNat, SMTT(30) DEF Pending, CountsOK

(* ... one that answers a request ...                                      *)
LEMMA AnswerPending ==
    ASSUME CountsOK, CountsOK', Pending <= MaxFrames,
           EvHeld' + Len(toEv') <= EvHeld + Len(toEv) + 1,
           SeHeld' + Len(toSe') + seOwed' + 1 <= SeHeld + Len(toSe) + seOwed
    PROVE  Pending' <= MaxFrames
  BY MaxFramesNat, SMTT(30) DEF Pending, CountsOK

(* ... and one that sends one, below the bound.                            *)
LEMMA RequestPending ==
    ASSUME CountsOK, CountsOK', Pending + 1 <= MaxFrames,
           EvHeld' <= EvHeld, SeHeld' <= SeHeld, Len(toEv') <= Len(toEv),
           seOwed' <= seOwed,
           Len(toSe') <= Len(toSe) + 1
    PROVE  Pending' <= MaxFrames
  BY MaxFramesNat, SMTT(30) DEF Pending, CountsOK

(* What is queued with what is held is what the programs have to evaluate. *)
LEMMA PendingIs == PortsInv => Len(AtSe) + seOwed + Len(AtEv) = Pending
  <1> HAVE PortsInv
  <1> USE DEF PortsInv, TypeOK, PlacesOK
  <1>1. Len(AtSe) = Len(toSe) + SeHeld
    BY DEF AtSe, Held, SeHeld, SeHolds, SeInv
  <1>2. Len(AtEv) = Len(toEv) + EvHeld
    BY DEF AtEv, Held, EvHeld, EvHolds, EvInv
  <1>3. Len(toSe) \in Nat /\ Len(toEv) \in Nat /\ seOwed \in Nat
    OBVIOUS
  <1>4. EvHeld \in Nat /\ SeHeld \in Nat
    BY DEF EvHeld, SeHeld
  <1> QED  BY <1>1, <1>2, <1>3, <1>4 DEF Pending

(* The ports begin closed and empty. *)
LEMMA InitPortsInv == Init => PortsInv
  <1> HAVE Init
  <1> USE DEF Init
  <1>1. TypeOK
    <2>1. FlagsOK
      BY DEF FlagsOK
    <2>2. PlacesOK
      BY MaxFramesAssumption, EmptySeq DEF PlacesOK, EvFds, SeFds
    <2> QED  BY <2>1, <2>2 DEF TypeOK
  <1>2. EvInv
    BY DEF EvInv, EvHolds
  <1>3. SeInv
    BY DEF SeInv, SeHolds, SeDeletes
  <1>4. QuietInv
    BY DEF QuietInv, Untold
  <1>5. Pending = 0
    BY EmptySeq DEF Pending, EvHeld, SeHeld, EvHolds, SeHolds
  <1> QED  BY <1>1, <1>2, <1>3, <1>4, <1>5, MaxFramesAssumption DEF PortsInv

(* The flags stay flags ... *)
LEMMA NextFlagsOK == PortsInv /\ [Next]_vars => FlagsOK'
  <1> SUFFICES ASSUME PortsInv, [Next]_vars  PROVE FlagsOK'
    OBVIOUS
  <1> USE DEF PortsInv, TypeOK, FlagsOK
  <1>1. CASE KernelConnects
    BY <1>1, Zenon DEF KernelConnects, evPort, sePort
  <1>2. CASE KernelRefuses
    BY <1>2, Zenon DEF KernelRefuses, evPort, sePort
  <1>3. CASE EvThreadStep
    BY <1>3, Zenon DEF EvThreadStep, EvStarts, EvConnected, EvGivesUp,
       EvClearsLen, EvReceives, EvReceivesEnd, EvHandsOver, EvWaited,
       EvDisabled, EvEnds, EvTellsEnd, EvLeaves, EvDone, EvGoes, sePort
  <1>4. CASE EvOperates
    BY <1>4, Zenon DEF EvOperates, EvStays, sePort
  <1>5. CASE EvEvaluates
    BY <1>5, Zenon DEF EvEvaluates, EvStays, sePort
  <1>6. CASE EvFrees
    BY <1>6, Zenon DEF EvFrees, EvStays, sePort
  <1>7. CASE EvJoins
    BY <1>7, Zenon DEF EvJoins, EvStays, sePort
  <1>8. CASE EvOpen
    BY <1>8, Zenon DEF EvOpen, EvStays, sePort
  <1>9. CASE EvSend
    BY <1>9, Zenon DEF EvSend, EvStays, evPort, sePort
  <1>10. CASE EvClose
    BY <1>10, Zenon DEF EvClose, EvStays, sePort
  <1>11. CASE Accepts
    BY <1>11, Zenon DEF Accepts, evPort, sePort
  <1>12. CASE AcceptsNext
    BY <1>12, Zenon DEF AcceptsNext, kernel, evPort, sePort
  <1>13. CASE SeThreadStep
    BY <1>13, Zenon DEF SeThreadStep, SeStarts, SeReceives, SeReceivesEnd,
       SeHandsOver, SeWaited, SeDisabled, SeEnds, SeTellsEnd, SeGoes, evPort
  <1>14. CASE SeOpen
    BY <1>14, Zenon DEF SeOpen, SeStays, evPort
  <1>15. CASE SeOperates
    BY <1>15, Zenon DEF SeOperates, SeStays, evPort
  <1>16. CASE SeEvaluates
    BY <1>16, Zenon DEF SeEvaluates, SeStays, evPort
  <1>17. CASE SeFrees
    BY <1>17, Zenon DEF SeFrees, SeStays, evPort
  <1>18. CASE SeOperatesEnd
    BY <1>18, Zenon DEF SeOperatesEnd, SeStays, evPort
  <1>19. CASE SeJoins
    BY <1>19, Zenon DEF SeJoins, SeStays, evPort
  <1>20. CASE SeReturnsIntoDeleted
    BY <1>20, Zenon DEF SeReturnsIntoDeleted, SeStays, evPort
  <1>21. CASE SeSend
    BY <1>21, Zenon DEF SeSend, SeStays, evPort
  <1>22. CASE SeClear
    BY <1>22, Zenon DEF SeClear, SeStays, evPort
  <1>23. CASE UNCHANGED vars
    BY <1>23, Zenon DEF vars, kernel, evPort, sePort
  <1> QED
    BY <1>1, <1>2, <1>3, <1>4, <1>5, <1>6, <1>7, <1>8, <1>9, <1>10, <1>11,
       <1>12, <1>13, <1>14, <1>15, <1>16, <1>17, <1>18, <1>19, <1>20, <1>21,
       <1>22, <1>23
    DEF Next, EvMainStep, SeMainStep

(* ... and every place stays one of its own. *)
LEMMA NextPlacesOK == PortsInv /\ [Next]_vars => PlacesOK'
  <1> SUFFICES ASSUME PortsInv, [Next]_vars  PROVE PlacesOK'
    OBVIOUS
  <1> USE MaxFramesAssumption, EmptySeq DEF PortsInv, TypeOK, PlacesOK, EvFds,
       SeFds
  <1>1. CASE KernelConnects
    BY <1>1 DEF KernelConnects, evPort, sePort
  <1>2. CASE KernelRefuses
    BY <1>2 DEF KernelRefuses, evPort, sePort
  <1>3. CASE EvStarts
    BY <1>3 DEF EvStarts, EvGoes, sePort
  <1>4. CASE EvConnected
    BY <1>4 DEF EvConnected, EvGoes, sePort
  <1>5. CASE EvGivesUp
    BY <1>5 DEF EvGivesUp, EvGoes, sePort
  <1>6. CASE EvClearsLen
    BY <1>6 DEF EvClearsLen, EvGoes, sePort
  <1>7. CASE EvReceives
    BY <1>7 DEF EvReceives, EvGoes, sePort
  <1>8. CASE EvReceivesEnd
    BY <1>8 DEF EvReceivesEnd, EvGoes, sePort
  <1>9. CASE EvHandsOver
    BY <1>9 DEF EvHandsOver, EvGoes, sePort
  <1>10. CASE EvWaited
    BY <1>10 DEF EvWaited, EvGoes, sePort
  <1>11. CASE EvDisabled
    BY <1>11 DEF EvDisabled, EvGoes, sePort
  <1>12. CASE EvEnds
    BY <1>12 DEF EvEnds, EvGoes, sePort
  <1>13. CASE EvTellsEnd
    BY <1>13 DEF EvTellsEnd, EvGoes, sePort
  <1>14. CASE EvLeaves
    BY <1>14 DEF EvLeaves, EvGoes, sePort
  <1>15. CASE EvDone
    BY <1>15 DEF EvDone, EvGoes, sePort
  <1>16. CASE EvOperates
    BY <1>16 DEF EvOperates, EvStays, sePort
  <1>17. CASE EvEvaluates
    BY <1>17 DEF EvEvaluates, EvStays, sePort
  <1>18. CASE EvFrees
    BY <1>18 DEF EvFrees, EvStays, sePort
  <1>19. CASE EvJoins
    BY <1>19 DEF EvJoins, EvStays, sePort
  <1>20. CASE EvOpen
    BY <1>20 DEF EvOpen, EvStays, sePort
  <1>21. CASE EvSend
    <2>1. toSe' = toSe \/ \E f \in Frames : toSe' = Append(toSe, f)
      BY <1>21, Zenon DEF EvSend
    <2>2. UNCHANGED <<evFd, toEv, evPort, seFd, accHolds, sePort>>
      BY <1>21, Zenon DEF EvSend, EvStays
    <2>3. toSe' \in Seq(Frames)
      BY <2>1
    <2> QED  BY <2>2, <2>3 DEF evPort, sePort
  <1>22. CASE EvClose
    BY <1>22 DEF EvClose, EvStays, sePort
  <1>23. CASE Accepts
    BY <1>23 DEF Accepts, evPort, sePort
  <1>24. CASE AcceptsNext
    BY <1>24 DEF AcceptsNext, kernel, evPort, sePort
  <1>25. CASE SeStarts
    BY <1>25 DEF SeStarts, SeGoes, evPort
  <1>26. CASE SeReceives
    BY <1>26 DEF SeReceives, SeGoes, evPort
  <1>27. CASE SeReceivesEnd
    BY <1>27 DEF SeReceivesEnd, SeGoes, evPort
  <1>28. CASE SeHandsOver
    BY <1>28 DEF SeHandsOver, SeGoes, evPort
  <1>29. CASE SeWaited
    BY <1>29 DEF SeWaited, SeGoes, evPort
  <1>30. CASE SeDisabled
    BY <1>30 DEF SeDisabled, SeGoes, evPort
  <1>31. CASE SeEnds
    BY <1>31 DEF SeEnds, SeGoes, evPort
  <1>32. CASE SeTellsEnd
    BY <1>32 DEF SeTellsEnd, SeGoes, evPort
  <1>33. CASE SeOpen
    BY <1>33 DEF SeOpen, SeStays, evPort
  <1>34. CASE SeOperates
    BY <1>34 DEF SeOperates, SeStays, evPort
  <1>35. CASE SeEvaluates
    <2>1. SeHeld = 1 /\ EvHeld \in Nat
      BY <1>35 DEF SeEvaluates, SeInv, SeHeld, SeHolds, EvHeld
    <2>2. seOwed + 1 <= MaxFrames
      BY <2>1 DEF Pending
    <2> QED  BY <1>35, <2>2 DEF SeEvaluates, SeStays, evPort
  <1>36. CASE SeFrees
    BY <1>36 DEF SeFrees, SeStays, evPort
  <1>37. CASE SeOperatesEnd
    BY <1>37 DEF SeOperatesEnd, SeStays, evPort
  <1>38. CASE SeJoins
    BY <1>38 DEF SeJoins, SeStays, evPort
  <1>39. CASE SeReturnsIntoDeleted
    BY <1>39 DEF SeReturnsIntoDeleted, SeStays, evPort
  <1>40. CASE SeSend
    BY <1>40 DEF SeSend, SeStays, evPort
  <1>41. CASE SeClear
    BY <1>41 DEF SeClear, SeStays, evPort
  <1>42. CASE UNCHANGED vars
    BY <1>42 DEF vars, kernel, evPort, sePort
  <1> QED
    BY <1>1, <1>2, <1>3, <1>4, <1>5, <1>6, <1>7, <1>8, <1>9, <1>10, <1>11,
       <1>12, <1>13, <1>14, <1>15, <1>16, <1>17, <1>18, <1>19, <1>20, <1>21,
       <1>22, <1>23, <1>24, <1>25, <1>26, <1>27, <1>28, <1>29, <1>30, <1>31,
       <1>32, <1>33, <1>34, <1>35, <1>36, <1>37, <1>38, <1>39, <1>40, <1>41,
       <1>42
    DEF Next, EvThreadStep, EvMainStep, SeThreadStep, SeMainStep

(* The vehicle's main loop and its thread take turns with the buffer. *)
LEMMA NextEvInv == PortsInv /\ [Next]_vars => EvInv'
  <1> SUFFICES ASSUME PortsInv, [Next]_vars  PROVE EvInv'
    OBVIOUS
  <1> USE DEF PortsInv, TypeOK, FlagsOK, PlacesOK, EvInv, SeInv, QuietInv,
       Untold, EvHolds, SeHolds, SeDeletes, EvFds
  <1>1. CASE KernelConnects
    BY <1>1 DEF KernelConnects, evPort, sePort
  <1>2. CASE KernelRefuses
    BY <1>2 DEF KernelRefuses, evPort, sePort
  <1>3. CASE EvStarts
    BY <1>3 DEF EvStarts, EvGoes, sePort
  <1>4. CASE EvConnected
    BY <1>4 DEF EvConnected, EvGoes, sePort
  <1>5. CASE EvGivesUp
    BY <1>5 DEF EvGivesUp, EvGoes, sePort
  <1>6. CASE EvClearsLen
    BY <1>6 DEF EvClearsLen, EvGoes, sePort
  <1>7. CASE EvReceives
    BY <1>7 DEF EvReceives, EvGoes, sePort
  <1>8. CASE EvReceivesEnd
    BY <1>8 DEF EvReceivesEnd, EvGoes, sePort
  <1>9. CASE EvHandsOver
    BY <1>9 DEF EvHandsOver, EvGoes, sePort
  <1>10. CASE EvWaited
    BY <1>10 DEF EvWaited, EvGoes, sePort
  <1>11. CASE EvDisabled
    BY <1>11 DEF EvDisabled, EvGoes, sePort
  <1>12. CASE EvEnds
    BY <1>12 DEF EvEnds, EvGoes, sePort
  <1>13. CASE EvTellsEnd
    BY <1>13 DEF EvTellsEnd, EvGoes, sePort
  <1>14. CASE EvLeaves
    BY <1>14 DEF EvLeaves, EvGoes, sePort
  <1>15. CASE EvDone
    BY <1>15 DEF EvDone, EvGoes, sePort
  <1>16. CASE EvOperates
    BY <1>16 DEF EvOperates, EvStays, sePort
  <1>17. CASE EvEvaluates
    BY <1>17 DEF EvEvaluates, EvStays, sePort
  <1>18. CASE EvFrees
    BY <1>18 DEF EvFrees, EvStays, sePort
  <1>19. CASE EvJoins
    BY <1>19 DEF EvJoins, EvStays, sePort
  <1>20. CASE EvOpen
    BY <1>20 DEF EvOpen, EvStays, sePort
  <1>21. CASE EvSend
    BY <1>21 DEF EvSend, EvStays, evPort, sePort
  <1>22. CASE EvClose
    BY <1>22 DEF EvClose, EvStays, sePort
  <1>23. CASE Accepts
    BY <1>23 DEF Accepts, evPort, sePort
  <1>24. CASE AcceptsNext
    BY <1>24 DEF AcceptsNext, kernel, evPort, sePort
  <1>25. CASE SeThreadStep
    BY <1>25 DEF SeThreadStep, SeStarts, SeReceives, SeReceivesEnd,
       SeHandsOver, SeWaited, SeDisabled, SeEnds, SeTellsEnd, SeGoes, evPort
  <1>26. CASE SeOpen
    BY <1>26 DEF SeOpen, SeStays, evPort
  <1>27. CASE SeOperates
    BY <1>27 DEF SeOperates, SeStays, evPort
  <1>28. CASE SeEvaluates
    BY <1>28 DEF SeEvaluates, SeStays, evPort
  <1>29. CASE SeFrees
    BY <1>29 DEF SeFrees, SeStays, evPort
  <1>30. CASE SeOperatesEnd
    BY <1>30 DEF SeOperatesEnd, SeStays, evPort
  <1>31. CASE SeJoins
    BY <1>31 DEF SeJoins, SeStays, evPort
  <1>32. CASE SeReturnsIntoDeleted
    BY <1>32 DEF SeReturnsIntoDeleted, SeStays, evPort
  <1>33. CASE SeSend
    BY <1>33 DEF SeSend, SeStays, evPort
  <1>34. CASE SeClear
    BY <1>34 DEF SeClear, SeStays, evPort
  <1>35. CASE UNCHANGED vars
    BY <1>35 DEF vars, kernel, evPort, sePort
  <1> QED
    BY <1>1, <1>2, <1>3, <1>4, <1>5, <1>6, <1>7, <1>8, <1>9, <1>10, <1>11,
       <1>12, <1>13, <1>14, <1>15, <1>16, <1>17, <1>18, <1>19, <1>20, <1>21,
       <1>22, <1>23, <1>24, <1>25, <1>26, <1>27, <1>28, <1>29, <1>30, <1>31,
       <1>32, <1>33, <1>34, <1>35
    DEF Next, EvThreadStep, EvMainStep, SeMainStep

(* So do the station's. *)
LEMMA NextSeInv == PortsInv /\ [Next]_vars => SeInv'
  <1> SUFFICES ASSUME PortsInv, [Next]_vars  PROVE SeInv'
    OBVIOUS
  <1> USE DEF PortsInv, TypeOK, FlagsOK, PlacesOK, SeInv, SeHolds, SeDeletes,
       SeFds
  <1>1. CASE KernelConnects
    BY <1>1 DEF KernelConnects, evPort, sePort
  <1>2. CASE KernelRefuses
    BY <1>2 DEF KernelRefuses, evPort, sePort
  <1>3. CASE EvThreadStep
    BY <1>3 DEF EvThreadStep, EvStarts, EvConnected, EvGivesUp, EvClearsLen,
       EvReceives, EvReceivesEnd, EvHandsOver, EvWaited, EvDisabled, EvEnds,
       EvTellsEnd, EvLeaves, EvDone, EvGoes, sePort
  <1>4. CASE EvOperates
    BY <1>4 DEF EvOperates, EvStays, sePort
  <1>5. CASE EvEvaluates
    BY <1>5 DEF EvEvaluates, EvStays, sePort
  <1>6. CASE EvFrees
    BY <1>6 DEF EvFrees, EvStays, sePort
  <1>7. CASE EvJoins
    BY <1>7 DEF EvJoins, EvStays, sePort
  <1>8. CASE EvOpen
    BY <1>8 DEF EvOpen, EvStays, sePort
  <1>9. CASE EvSend
    BY <1>9 DEF EvSend, EvStays, evPort, sePort
  <1>10. CASE EvClose
    BY <1>10 DEF EvClose, EvStays, sePort
  <1>11. CASE Accepts
    BY <1>11 DEF Accepts, evPort, sePort
  <1>12. CASE AcceptsNext
    BY <1>12 DEF AcceptsNext, kernel, evPort, sePort
  <1>13. CASE SeStarts
    BY <1>13 DEF SeStarts, SeGoes, evPort
  <1>14. CASE SeReceives
    BY <1>14 DEF SeReceives, SeGoes, evPort
  <1>15. CASE SeReceivesEnd
    BY <1>15 DEF SeReceivesEnd, SeGoes, evPort
  <1>16. CASE SeHandsOver
    BY <1>16 DEF SeHandsOver, SeGoes, evPort
  <1>17. CASE SeWaited
    BY <1>17 DEF SeWaited, SeGoes, evPort
  <1>18. CASE SeDisabled
    BY <1>18 DEF SeDisabled, SeGoes, evPort
  <1>19. CASE SeEnds
    BY <1>19 DEF SeEnds, SeGoes, evPort
  <1>20. CASE SeTellsEnd
    BY <1>20 DEF SeTellsEnd, SeGoes, evPort
  <1>21. CASE SeOpen
    BY <1>21 DEF SeOpen, SeStays, evPort
  <1>22. CASE SeOperates
    BY <1>22 DEF SeOperates, SeStays, evPort
  <1>23. CASE SeEvaluates
    BY <1>23 DEF SeEvaluates, SeStays, evPort
  <1>24. CASE SeFrees
    BY <1>24 DEF SeFrees, SeStays, evPort
  <1>25. CASE SeOperatesEnd
    BY <1>25 DEF SeOperatesEnd, SeStays, evPort
  <1>26. CASE SeJoins
    BY <1>26 DEF SeJoins, SeStays, evPort
  <1>27. CASE SeReturnsIntoDeleted
    BY <1>27 DEF SeReturnsIntoDeleted, SeStays, evPort
  <1>28. CASE SeSend
    BY <1>28 DEF SeSend, SeStays, evPort
  <1>29. CASE SeClear
    BY <1>29 DEF SeClear, SeStays, evPort
  <1>30. CASE UNCHANGED vars
    BY <1>30 DEF vars, kernel, evPort, sePort
  <1> QED
    BY <1>1, <1>2, <1>3, <1>4, <1>5, <1>6, <1>7, <1>8, <1>9, <1>10, <1>11,
       <1>12, <1>13, <1>14, <1>15, <1>16, <1>17, <1>18, <1>19, <1>20, <1>21,
       <1>22, <1>23, <1>24, <1>25, <1>26, <1>27, <1>28, <1>29, <1>30
    DEF Next, EvMainStep, SeThreadStep, SeMainStep

(* Nothing is sent on a new connection before the -2 of the last is told. *)
LEMMA NextQuietInv == PortsInv /\ [Next]_vars => QuietInv'
  <1> SUFFICES ASSUME PortsInv, [Next]_vars  PROVE QuietInv'
    OBVIOUS
  <1> USE DEF PortsInv, TypeOK, FlagsOK, PlacesOK, EvInv, SeInv, QuietInv,
       Untold, EvHolds, SeHolds, SeDeletes, EvFds, SeFds
  <1>1. CASE KernelConnects
    BY <1>1 DEF KernelConnects, evPort, sePort
  <1>2. CASE KernelRefuses
    BY <1>2 DEF KernelRefuses, evPort, sePort
  <1>3. CASE EvStarts
    BY <1>3 DEF EvStarts, EvGoes, sePort
  <1>4. CASE EvConnected
    BY <1>4 DEF EvConnected, EvGoes, sePort
  <1>5. CASE EvGivesUp
    BY <1>5 DEF EvGivesUp, EvGoes, sePort
  <1>6. CASE EvClearsLen
    BY <1>6 DEF EvClearsLen, EvGoes, sePort
  <1>7. CASE EvReceives
    BY <1>7 DEF EvReceives, EvGoes, sePort
  <1>8. CASE EvReceivesEnd
    BY <1>8 DEF EvReceivesEnd, EvGoes, sePort
  <1>9. CASE EvHandsOver
    BY <1>9 DEF EvHandsOver, EvGoes, sePort
  <1>10. CASE EvWaited
    BY <1>10 DEF EvWaited, EvGoes, sePort
  <1>11. CASE EvDisabled
    BY <1>11 DEF EvDisabled, EvGoes, sePort
  <1>12. CASE EvEnds
    BY <1>12 DEF EvEnds, EvGoes, sePort
  <1>13. CASE EvTellsEnd
    BY <1>13 DEF EvTellsEnd, EvGoes, sePort
  <1>14. CASE EvLeaves
    BY <1>14 DEF EvLeaves, EvGoes, sePort
  <1>15. CASE EvDone
    BY <1>15 DEF EvDone, EvGoes, sePort
  <1>16. CASE EvOperates
    BY <1>16 DEF EvOperates, EvStays, sePort
  <1>17. CASE EvEvaluates
    BY <1>17 DEF EvEvaluates, EvStays, sePort
  <1>18. CASE EvFrees
    BY <1>18 DEF EvFrees, EvStays, sePort
  <1>19. CASE EvJoins
    BY <1>19 DEF EvJoins, EvStays, sePort
  <1>20. CASE EvOpen
    BY <1>20 DEF EvOpen, EvStays, sePort
  <1>21. CASE EvSend
    BY <1>21 DEF EvSend, EvStays, evPort, sePort
  <1>22. CASE EvClose
    BY <1>22 DEF EvClose, EvStays, sePort
  <1>23. CASE Accepts
    BY <1>23 DEF Accepts, evPort, sePort
  <1>24. CASE AcceptsNext
    BY <1>24 DEF AcceptsNext, kernel, evPort, sePort
  <1>25. CASE SeStarts
    BY <1>25 DEF SeStarts, SeGoes, evPort
  <1>26. CASE SeReceives
    BY <1>26 DEF SeReceives, SeGoes, evPort
  <1>27. CASE SeReceivesEnd
    BY <1>27 DEF SeReceivesEnd, SeGoes, evPort
  <1>28. CASE SeHandsOver
    BY <1>28 DEF SeHandsOver, SeGoes, evPort
  <1>29. CASE SeWaited
    BY <1>29 DEF SeWaited, SeGoes, evPort
  <1>30. CASE SeDisabled
    BY <1>30 DEF SeDisabled, SeGoes, evPort
  <1>31. CASE SeEnds
    BY <1>31 DEF SeEnds, SeGoes, evPort
  <1>32. CASE SeTellsEnd
    BY <1>32 DEF SeTellsEnd, SeGoes, evPort
  <1>33. CASE SeOpen
    BY <1>33 DEF SeOpen, SeStays, evPort
  <1>34. CASE SeOperates
    BY <1>34 DEF SeOperates, SeStays, evPort
  <1>35. CASE SeEvaluates
    BY <1>35 DEF SeEvaluates, SeStays, evPort
  <1>36. CASE SeFrees
    BY <1>36 DEF SeFrees, SeStays, evPort
  <1>37. CASE SeOperatesEnd
    BY <1>37 DEF SeOperatesEnd, SeStays, evPort
  <1>38. CASE SeJoins
    BY <1>38 DEF SeJoins, SeStays, evPort
  <1>39. CASE SeReturnsIntoDeleted
    BY <1>39 DEF SeReturnsIntoDeleted, SeStays, evPort
  <1>40. CASE SeSend
    BY <1>40 DEF SeSend, SeStays, evPort
  <1>41. CASE SeClear
    BY <1>41 DEF SeClear, SeStays, evPort
  <1>42. CASE UNCHANGED vars
    BY <1>42 DEF vars, kernel, evPort, sePort
  <1> QED
    BY <1>1, <1>2, <1>3, <1>4, <1>5, <1>6, <1>7, <1>8, <1>9, <1>10, <1>11,
       <1>12, <1>13, <1>14, <1>15, <1>16, <1>17, <1>18, <1>19, <1>20, <1>21,
       <1>22, <1>23, <1>24, <1>25, <1>26, <1>27, <1>28, <1>29, <1>30, <1>31,
       <1>32, <1>33, <1>34, <1>35, <1>36, <1>37, <1>38, <1>39, <1>40, <1>41,
       <1>42
    DEF Next, EvThreadStep, EvMainStep, SeThreadStep, SeMainStep

(* A request is answered at most once, and no frame comes from nowhere. *)
LEMMA NextPending == PortsInv /\ [Next]_vars => (Pending <= MaxFrames)'
  <1> SUFFICES ASSUME PortsInv, [Next]_vars  PROVE (Pending <= MaxFrames)'
    OBVIOUS
  <1>a. CountsOK /\ CountsOK'
    BY NextPlacesOK, CountsNat DEF PortsInv, TypeOK
  <1> USE MaxFramesAssumption, EmptySeq DEF PortsInv, TypeOK, FlagsOK, PlacesOK
  <1>1. CASE KernelConnects
    BY <1>1 DEF Pending, EvInv, SeInv, EvHeld, SeHeld, EvHolds, SeHolds,
       SeDeletes, EvFds, SeFds, KernelConnects, evPort, sePort
  <1>2. CASE KernelRefuses
    BY <1>2 DEF Pending, EvInv, SeInv, EvHeld, SeHeld, EvHolds, SeHolds,
       SeDeletes, EvFds, SeFds, KernelRefuses, evPort, sePort
  <1>3. CASE EvStarts
    BY <1>3 DEF Pending, EvInv, SeInv, EvHeld, SeHeld, EvHolds, SeHolds,
       SeDeletes, EvFds, SeFds, EvStarts, EvGoes, sePort
  <1>4. CASE EvConnected
    BY <1>4 DEF Pending, EvInv, SeInv, EvHeld, SeHeld, EvHolds, SeHolds,
       SeDeletes, EvFds, SeFds, EvConnected, EvGoes, sePort
  <1>5. CASE EvGivesUp
    BY <1>5 DEF Pending, EvInv, SeInv, EvHeld, SeHeld, EvHolds, SeHolds,
       SeDeletes, EvFds, SeFds, EvGivesUp, EvGoes, sePort
  <1>6. CASE EvClearsLen
    BY <1>6 DEF Pending, EvInv, SeInv, EvHeld, SeHeld, EvHolds, SeHolds,
       SeDeletes, EvFds, SeFds, EvClearsLen, EvGoes, sePort
  <1>7. CASE EvReceives
    <2>1. EvHeld' + Len(toEv') <= EvHeld + Len(toEv)
      BY <1>7, HeadTail DEF EvInv, EvHeld, EvHolds, EvReceives, EvGoes, sePort
    <2>2. SeHeld' + Len(toSe') + seOwed' <= SeHeld + Len(toSe) + seOwed
      BY <1>7, HeadTail DEF SeInv, SeDeletes, SeHeld, SeHolds, EvReceives,
         EvGoes, sePort
    <2> QED  BY <1>a, <2>1, <2>2, NoMorePending
  <1>8. CASE EvReceivesEnd
    BY <1>8 DEF Pending, EvInv, SeInv, EvHeld, SeHeld, EvHolds, SeHolds,
       SeDeletes, EvFds, SeFds, EvReceivesEnd, EvGoes, sePort
  <1>9. CASE EvHandsOver
    BY <1>9 DEF Pending, EvInv, SeInv, EvHeld, SeHeld, EvHolds, SeHolds,
       SeDeletes, EvFds, SeFds, EvHandsOver, EvGoes, sePort
  <1>10. CASE EvWaited
    BY <1>10 DEF Pending, EvInv, SeInv, EvHeld, SeHeld, EvHolds, SeHolds,
       SeDeletes, EvFds, SeFds, EvWaited, EvGoes, sePort
  <1>11. CASE EvDisabled
    BY <1>11 DEF Pending, EvInv, SeInv, EvHeld, SeHeld, EvHolds, SeHolds,
       SeDeletes, EvFds, SeFds, EvDisabled, EvGoes, sePort
  <1>12. CASE EvEnds
    BY <1>12 DEF Pending, EvInv, SeInv, EvHeld, SeHeld, EvHolds, SeHolds,
       SeDeletes, EvFds, SeFds, EvEnds, EvGoes, sePort
  <1>13. CASE EvTellsEnd
    <2>1. EvHeld' + Len(toEv') <= EvHeld + Len(toEv)
      BY <1>13, HeadTail DEF EvInv, EvHeld, EvHolds, EvTellsEnd, EvGoes, sePort
    <2>2. SeHeld' + Len(toSe') + seOwed' <= SeHeld + Len(toSe) + seOwed
      BY <1>13, HeadTail DEF SeInv, SeDeletes, SeHeld, SeHolds, EvTellsEnd,
         EvGoes, sePort
    <2> QED  BY <1>a, <2>1, <2>2, NoMorePending
  <1>14. CASE EvLeaves
    <2>1. EvHeld' + Len(toEv') <= EvHeld + Len(toEv)
      BY <1>14, HeadTail DEF EvInv, EvHeld, EvHolds, EvLeaves, EvGoes, sePort
    <2>2. SeHeld' + Len(toSe') + seOwed' <= SeHeld + Len(toSe) + seOwed
      BY <1>14, HeadTail DEF SeInv, SeDeletes, SeHeld, SeHolds, EvLeaves,
         EvGoes, sePort
    <2> QED  BY <1>a, <2>1, <2>2, NoMorePending
  <1>15. CASE EvDone
    BY <1>15 DEF Pending, EvInv, SeInv, EvHeld, SeHeld, EvHolds, SeHolds,
       SeDeletes, EvFds, SeFds, EvDone, EvGoes, sePort
  <1>16. CASE EvOperates
    BY <1>16 DEF Pending, EvInv, SeInv, EvHeld, SeHeld, EvHolds, SeHolds,
       SeDeletes, EvFds, SeFds, EvOperates, EvStays, sePort
  <1>17. CASE EvEvaluates
    BY <1>17 DEF Pending, EvInv, SeInv, EvHeld, SeHeld, EvHolds, SeHolds,
       SeDeletes, EvFds, SeFds, EvEvaluates, EvStays, sePort
  <1>18. CASE EvFrees
    <2>1. EvHeld' + Len(toEv') <= EvHeld + Len(toEv)
      BY <1>18, HeadTail DEF EvInv, EvHeld, EvHolds, EvFrees, EvStays, sePort
    <2>2. SeHeld' + Len(toSe') + seOwed' <= SeHeld + Len(toSe) + seOwed
      BY <1>18, HeadTail DEF SeInv, SeDeletes, SeHeld, SeHolds, EvFrees,
         EvStays, sePort
    <2> QED  BY <1>a, <2>1, <2>2, NoMorePending
  <1>19. CASE EvJoins
    <2>1. EvHeld' + Len(toEv') <= EvHeld + Len(toEv)
      BY <1>19, HeadTail DEF EvInv, EvHeld, EvHolds, EvJoins, EvStays, sePort
    <2>2. SeHeld' + Len(toSe') + seOwed' <= SeHeld + Len(toSe) + seOwed
      BY <1>19, HeadTail DEF SeInv, SeDeletes, SeHeld, SeHolds, EvJoins,
         EvStays, sePort
    <2> QED  BY <1>a, <2>1, <2>2, NoMorePending
  <1>20. CASE EvOpen
    BY <1>20 DEF Pending, EvInv, SeInv, EvHeld, SeHeld, EvHolds, SeHolds,
       SeDeletes, EvFds, SeFds, EvOpen, EvStays, sePort
  <1>21. CASE EvSend
    <2>1. Pending < MaxFrames
      BY <1>21, PendingIs, Zenon DEF EvSend
    <2>2. EvHeld' = EvHeld /\ SeHeld' = SeHeld /\ toEv' = toEv /\ seOwed' = seOwed
      BY <1>21, Zenon
      DEF EvSend, EvStays, EvHeld, EvHolds, SeHeld, SeHolds, evPort, sePort
    <2>3. toSe' = toSe \/ \E f \in Frames : toSe' = Append(toSe, f)
      BY <1>21, Zenon DEF EvSend
    <2>4. Len(toSe') <= Len(toSe) + 1
      BY <2>3
    <2>5. /\ EvHeld' <= EvHeld /\ SeHeld' <= SeHeld /\ Len(toEv') <= Len(toEv)
          /\ seOwed' <= seOwed /\ Pending + 1 <= MaxFrames
      BY <1>a, <2>1, <2>2 DEF CountsOK, Pending
    <2> QED  BY <1>a, <2>4, <2>5, RequestPending
  <1>22. CASE EvClose
    BY <1>22 DEF Pending, EvInv, SeInv, EvHeld, SeHeld, EvHolds, SeHolds,
       SeDeletes, EvFds, SeFds, EvClose, EvStays, sePort
  <1>23. CASE Accepts
    BY <1>23 DEF Pending, EvInv, SeInv, EvHeld, SeHeld, EvHolds, SeHolds,
       SeDeletes, EvFds, SeFds, Accepts, evPort, sePort
  <1>24. CASE AcceptsNext
    BY <1>24 DEF Pending, EvInv, SeInv, EvHeld, SeHeld, EvHolds, SeHolds,
       SeDeletes, EvFds, SeFds, AcceptsNext, kernel, evPort, sePort
  <1>25. CASE SeStarts
    BY <1>25 DEF Pending, EvInv, SeInv, EvHeld, SeHeld, EvHolds, SeHolds,
       SeDeletes, EvFds, SeFds, SeStarts, SeGoes, evPort
  <1>26. CASE SeReceives
    <2>1. EvHeld' + Len(toEv') <= EvHeld + Len(toEv)
      BY <1>26, HeadTail DEF EvInv, EvHeld, EvHolds, SeReceives, SeGoes, evPort
    <2>2. SeHeld' + Len(toSe') + seOwed' <= SeHeld + Len(toSe) + seOwed
      BY <1>26, HeadTail DEF SeInv, SeDeletes, SeHeld, SeHolds, SeReceives,
         SeGoes, evPort
    <2> QED  BY <1>a, <2>1, <2>2, NoMorePending
  <1>27. CASE SeReceivesEnd
    BY <1>27 DEF Pending, EvInv, SeInv, EvHeld, SeHeld, EvHolds, SeHolds,
       SeDeletes, EvFds, SeFds, SeReceivesEnd, SeGoes, evPort
  <1>28. CASE SeHandsOver
    BY <1>28 DEF Pending, EvInv, SeInv, EvHeld, SeHeld, EvHolds, SeHolds,
       SeDeletes, EvFds, SeFds, SeHandsOver, SeGoes, evPort
  <1>29. CASE SeWaited
    BY <1>29 DEF Pending, EvInv, SeInv, EvHeld, SeHeld, EvHolds, SeHolds,
       SeDeletes, EvFds, SeFds, SeWaited, SeGoes, evPort
  <1>30. CASE SeDisabled
    BY <1>30 DEF Pending, EvInv, SeInv, EvHeld, SeHeld, EvHolds, SeHolds,
       SeDeletes, EvFds, SeFds, SeDisabled, SeGoes, evPort
  <1>31. CASE SeEnds
    BY <1>31 DEF Pending, EvInv, SeInv, EvHeld, SeHeld, EvHolds, SeHolds,
       SeDeletes, EvFds, SeFds, SeEnds, SeGoes, evPort
  <1>32. CASE SeTellsEnd
    <2>1. EvHeld' + Len(toEv') <= EvHeld + Len(toEv)
      BY <1>32, HeadTail DEF EvInv, EvHeld, EvHolds, SeTellsEnd, SeGoes, evPort
    <2>2. SeHeld' + Len(toSe') + seOwed' <= SeHeld + Len(toSe) + seOwed
      BY <1>32, HeadTail DEF SeInv, SeDeletes, SeHeld, SeHolds, SeTellsEnd,
         SeGoes, evPort
    <2> QED  BY <1>a, <2>1, <2>2, NoMorePending
  <1>33. CASE SeOpen
    BY <1>33 DEF Pending, EvInv, SeInv, EvHeld, SeHeld, EvHolds, SeHolds,
       SeDeletes, EvFds, SeFds, SeOpen, SeStays, evPort
  <1>34. CASE SeOperates
    BY <1>34 DEF Pending, EvInv, SeInv, EvHeld, SeHeld, EvHolds, SeHolds,
       SeDeletes, EvFds, SeFds, SeOperates, SeStays, evPort
  <1>35. CASE SeEvaluates
    BY <1>35 DEF Pending, EvInv, SeInv, EvHeld, SeHeld, EvHolds, SeHolds,
       SeDeletes, EvFds, SeFds, SeEvaluates, SeStays, evPort
  <1>36. CASE SeFrees
    BY <1>36 DEF Pending, EvInv, SeInv, EvHeld, SeHeld, EvHolds, SeHolds,
       SeDeletes, EvFds, SeFds, SeFrees, SeStays, evPort
  <1>37. CASE SeOperatesEnd
    BY <1>37 DEF Pending, EvInv, SeInv, EvHeld, SeHeld, EvHolds, SeHolds,
       SeDeletes, EvFds, SeFds, SeOperatesEnd, SeStays, evPort
  <1>38. CASE SeJoins
    BY <1>38 DEF Pending, EvInv, SeInv, EvHeld, SeHeld, EvHolds, SeHolds,
       SeDeletes, EvFds, SeFds, SeJoins, SeStays, evPort
  <1>39. CASE SeReturnsIntoDeleted
    BY <1>39 DEF Pending, EvInv, SeInv, EvHeld, SeHeld, EvHolds, SeHolds,
       SeDeletes, EvFds, SeFds, SeReturnsIntoDeleted, SeStays, evPort
  <1>40. CASE SeSend
    <2>1. toEv' = toEv \/ \E f \in Frames : toEv' = Append(toEv, f)
      BY <1>40, Zenon DEF SeSend
    <2>2. Len(toEv') <= Len(toEv) + 1
      BY <2>1
    <2>3. EvHeld' + Len(toEv') <= EvHeld + Len(toEv) + 1
      BY <1>40, <2>2 DEF SeSend, SeStays, EvHeld, EvHolds, evPort
    <2>4. SeHeld' + Len(toSe') + seOwed' + 1 <= SeHeld + Len(toSe) + seOwed
      BY <1>40 DEF SeSend, SeStays, SeHeld, SeHolds
    <2> QED  BY <1>a, <2>3, <2>4, AnswerPending
  <1>41. CASE SeClear
    BY <1>41 DEF Pending, EvInv, SeInv, EvHeld, SeHeld, EvHolds, SeHolds,
       SeDeletes, EvFds, SeFds, SeClear, SeStays, evPort
  <1>42. CASE UNCHANGED vars
    BY <1>42 DEF vars, kernel, evPort, sePort, Pending, EvHeld, SeHeld, EvHolds, SeHolds
  <1> QED
    BY <1>1, <1>2, <1>3, <1>4, <1>5, <1>6, <1>7, <1>8, <1>9, <1>10, <1>11,
       <1>12, <1>13, <1>14, <1>15, <1>16, <1>17, <1>18, <1>19, <1>20, <1>21,
       <1>22, <1>23, <1>24, <1>25, <1>26, <1>27, <1>28, <1>29, <1>30, <1>31,
       <1>32, <1>33, <1>34, <1>35, <1>36, <1>37, <1>38, <1>39, <1>40, <1>41,
       <1>42
    DEF Next, EvThreadStep, EvMainStep, SeThreadStep, SeMainStep

(* Every step of either side keeps the invariant. *)
LEMMA NextPortsInv == PortsInv /\ [Next]_vars => PortsInv'
  BY NextFlagsOK, NextPlacesOK, NextEvInv, NextSeInv, NextQuietInv, NextPending
  DEF PortsInv, TypeOK

(* In every reachable state of the ports, whatever the interleaving of the *)
(* threads with the main loops and whenever either side closes.            *)
THEOREM PortsInvariant == Spec => []PortsInv
  BY InitPortsInv, NextPortsInv, PTL DEF Spec

(* The places and the buffers are what they are declared to be, and no     *)
(* more requests are unanswered than were sent.                            *)
THEOREM TypeCorrect == Spec => []TypeOK
  <1>1. PortsInv => TypeOK
    BY DEF PortsInv
  <1> QED  BY <1>1, PortsInvariant, PTL

(* No thread of either port receives into the buffer its main loop is      *)
(* evaluating.                                                             *)
THEOREM BufferAlwaysOwned == Spec => []BufferOwned
  <1>1. PortsInv => BufferOwned
    BY DEF PortsInv, EvInv, SeInv, SeDeletes, BufferOwned
  <1> QED  BY <1>1, PortsInvariant, PTL

-----------------------------------------------------------------------------
(* The refinement: what TcpLink sees of the ports. *)
LinkState == <<EvSock, SeSock, ToSe, AtEv, EvTaken, SeTaken>>

(* The steps TcpLink does not see: above all, that a thread receives a     *)
(* frame and hands it over.                                                *)
LEMMA UnseenSteps ==
    ASSUME PortsInv,
           \/ EvThreadStep /\ ~EvLeaves
           \/ SeThreadStep \/ EvOperates \/ EvClose \/ AcceptsNext
           \/ SeOperates \/ SeReturnsIntoDeleted \/ SeJoins \/ UNCHANGED vars
    PROVE  UNCHANGED LinkState
  <1> USE HeadTail, EmptyHead DEF PortsInv, TypeOK, FlagsOK, PlacesOK, EvInv,
       SeInv, EvHolds, SeHolds, SeDeletes, EvFds, SeFds, LinkState, EvSock,
       SeSock, ToSe, AtEv, AtSe, EvTaken, SeTaken, Held
  <1>1. CASE EvStarts
    BY <1>1 DEF EvStarts, EvGoes, sePort
  <1>2. CASE EvGivesUp
    BY <1>2 DEF EvGivesUp, EvGoes, sePort
  <1>3. CASE EvConnected
    BY <1>3 DEF EvConnected, EvGoes, sePort
  <1>4. CASE EvClearsLen
    BY <1>4 DEF EvClearsLen, EvGoes, sePort
  <1>5. CASE EvReceives
    BY <1>5 DEF EvReceives, EvGoes, sePort
  <1>6. CASE EvReceivesEnd
    BY <1>6 DEF EvReceivesEnd, EvGoes, sePort
  <1>7. CASE EvHandsOver
    BY <1>7 DEF EvHandsOver, EvGoes, sePort
  <1>8. CASE EvWaited
    BY <1>8 DEF EvWaited, EvGoes, sePort
  <1>9. CASE EvDisabled
    BY <1>9 DEF EvDisabled, EvGoes, sePort
  <1>10. CASE EvEnds
    BY <1>10 DEF EvEnds, EvGoes, sePort
  <1>11. CASE EvTellsEnd
    BY <1>11 DEF EvTellsEnd, EvGoes, sePort
  <1>12. CASE EvDone
    BY <1>12 DEF EvDone, EvGoes, sePort
  <1>13. CASE EvOperates
    BY <1>13 DEF EvOperates, EvStays, sePort
  <1>14. CASE EvClose
    BY <1>14 DEF EvClose, EvStays, sePort
  <1>15. CASE AcceptsNext
    BY <1>15 DEF AcceptsNext, kernel, evPort, sePort
  <1>16. CASE SeStarts
    BY <1>16 DEF SeStarts, SeGoes, evPort
  <1>17. CASE SeReceives
    <2>1. ~SeDeletes => AtSe' = AtSe
      BY <1>17 DEF SeReceives, SeGoes, evPort
    <2>2. UNCHANGED <<EvSock, SeSock, AtEv, EvTaken, SeTaken, SeDeletes>>
      BY <1>17 DEF SeReceives, SeGoes, evPort
    <2> QED  BY <2>1, <2>2, Zenon DEF LinkState, ToSe
  <1>18. CASE SeReceivesEnd
    BY <1>18 DEF SeReceivesEnd, SeGoes, evPort
  <1>19. CASE SeHandsOver
    BY <1>19 DEF SeHandsOver, SeGoes, evPort
  <1>20. CASE SeWaited
    BY <1>20 DEF SeWaited, SeGoes, evPort
  <1>21. CASE SeDisabled
    BY <1>21 DEF SeDisabled, SeGoes, evPort
  <1>22. CASE SeEnds
    BY <1>22 DEF SeEnds, SeGoes, evPort
  <1>23. CASE SeTellsEnd
    <2>1. ~SeDeletes => AtSe' = AtSe
      BY <1>23 DEF SeTellsEnd, SeGoes, evPort
    <2>2. UNCHANGED <<EvSock, SeSock, AtEv, EvTaken, SeTaken, SeDeletes>>
      BY <1>23 DEF SeTellsEnd, SeGoes, evPort
    <2> QED  BY <2>1, <2>2, Zenon DEF LinkState, ToSe
  <1>24. CASE SeOperates
    BY <1>24 DEF SeOperates, SeStays, evPort
  <1>25. CASE SeReturnsIntoDeleted
    BY <1>25 DEF SeReturnsIntoDeleted, SeStays, evPort
  <1>26. CASE SeJoins
    BY <1>26 DEF SeJoins, SeStays, evPort
  <1>27. CASE UNCHANGED vars
    BY <1>27 DEF vars, kernel, evPort, sePort
  <1> QED
    BY <1>1, <1>2, <1>3, <1>4, <1>5, <1>6, <1>7, <1>8, <1>9, <1>10, <1>11,
       <1>12, <1>13, <1>14, <1>15, <1>16, <1>17, <1>18, <1>19, <1>20, <1>21,
       <1>22, <1>23, <1>24, <1>25, <1>26, <1>27 DEF EvThreadStep, SeThreadStep

(* A request is appended for the station, or lost with the connection. *)
LEMMA SimEvSend ==
    PortsInv /\ EvSend =>
        (Link!EvSends /\ UNCHANGED <<EvTaken, SeTaken>>) \/ UNCHANGED LinkState
  <1> HAVE PortsInv /\ EvSend
  <1> USE DEF PortsInv, TypeOK, PlacesOK
  <1>1. UNCHANGED <<evFd, seFd, toEv, evPort, accHolds, sePort>> /\ evConn
    BY Zenon DEF EvSend, EvStays
  <1>2. UNCHANGED <<EvSock, SeSock, AtEv, EvTaken, SeTaken, SeDeletes>>
    BY <1>1 DEF evPort, sePort, EvSock, SeSock, AtEv, EvTaken, SeTaken, SeDeletes, Held
  <1>3. EvSock = "open"
    BY <1>1, Zenon DEF EvInv, EvSock
  <1>4. AtSe = Held(seThread, seLen, seMain, seMsg) \o toSe
        /\ AtSe' = Held(seThread, seLen, seMain, seMsg) \o toSe'
        /\ Held(seThread, seLen, seMain, seMsg) \in Seq(Frames)
    BY <1>1 DEF AtSe, Held, SeInv, SeHolds, sePort
  <1>5. CASE toSe' = toSe
    BY <1>2, <1>4, <1>5 DEF LinkState, ToSe
  <1>6. CASE \E f \in Frames : toSe' = Append(toSe, f) /\ seFd # "none"
    <2>1. PICK f \in Frames : toSe' = Append(toSe, f) /\ seFd # "none"
      BY <1>6
    <2>2. ToSe' = IF SeSock = "none" THEN ToSe ELSE Append(ToSe, f)
      <3>1. CASE SeDeletes
        BY <1>2, <3>1, Zenon DEF ToSe, SeSock
      <3>2. CASE ~SeDeletes
        <4>1. ToSe' = Append(ToSe, f)
          BY <1>2, <1>4, <2>1, <3>2, AppendConcat DEF ToSe
        <4>2. SeSock # "none"
          BY <2>1, <3>2 DEF SeSock, SeFds
        <4> QED  BY <4>1, <4>2
      <3> QED  BY <3>1, <3>2
    <2> QED  BY <1>2, <1>3, <2>2, Zenon DEF Link!EvSends
  <1> QED  BY <1>5, <1>6, Zenon DEF EvSend

(* So is a response for the vehicle. *)
LEMMA SimSeSend ==
    PortsInv /\ SeSend =>
        (Link!SeSends /\ UNCHANGED <<EvTaken, SeTaken>>) \/ UNCHANGED LinkState
  <1> HAVE PortsInv /\ SeSend
  <1> USE DEF PortsInv, TypeOK, PlacesOK
  <1>1. UNCHANGED <<evFd, seFd, toSe, evPort, seMain, seThread, seLen, seMsg>>
        /\ seMain = "idle" /\ seFd = "client"
    BY Zenon DEF SeSend, SeStays
  <1>2. UNCHANGED <<EvSock, SeSock, ToSe, EvTaken, SeTaken>> /\ SeSock = "open"
    BY <1>1 DEF evPort, EvSock, SeSock, ToSe, AtSe, EvTaken, SeTaken, SeDeletes, Held
  <1>3. AtEv = Held(evThread, evLen, evMain, evMsg) \o toEv
        /\ AtEv' = Held(evThread, evLen, evMain, evMsg) \o toEv'
        /\ Held(evThread, evLen, evMain, evMsg) \in Seq(Frames)
    BY <1>1 DEF AtEv, Held, EvInv, EvHolds, evPort
  <1>4. CASE toEv' = toEv
    BY <1>2, <1>3, <1>4 DEF LinkState
  <1>5. CASE \E f \in Frames : toEv' = Append(toEv, f) /\ evFd = "established"
    <2>1. PICK f \in Frames : toEv' = Append(toEv, f) /\ evFd = "established"
      BY <1>5
    <2>2. AtEv' = Append(AtEv, f)
      BY <1>3, <2>1, AppendConcat
    <2>3. EvSock = "open"
      BY <1>1, <2>1, Zenon DEF EvInv, EvSock
    <2> QED  BY <1>2, <2>2, <2>3, Zenon DEF Link!SeSends, Link!EvHungUp
  <1> QED  BY <1>4, <1>5, Zenon DEF SeSend

(* The vehicle notices the end where its thread leaves after recv() told it. *)
LEMMA SimEvLeaves ==
    PortsInv /\ EvLeaves =>
        (Link!EvNoticesHangUp /\ UNCHANGED <<EvTaken, SeTaken>>) \/ UNCHANGED LinkState
  <1> HAVE PortsInv /\ EvLeaves
  <1> USE DEF PortsInv, TypeOK, PlacesOK
  <1>1. /\ UNCHANGED <<evFd, seFd, toSe, evMain, evLen, evMsg, sePort>>
        /\ evThread = "leaving" /\ evThread' = "left" /\ evEof' = evEof
    BY Zenon DEF EvLeaves, EvGoes
  <1>2. UNCHANGED <<SeSock, ToSe, EvTaken, SeTaken>>
    BY <1>1 DEF SeSock, ToSe, AtSe, EvTaken, SeTaken, SeDeletes, Held, sePort
  <1>3. evFd = "established"
    BY <1>1 DEF EvInv
  <1>4. CASE evEof
    <2>1. toEv' = <<>>
      BY <1>4, Zenon DEF EvLeaves
    <2>2. evLen # 1 /\ seFd = "none"
      BY <1>1, <1>3, <1>4, Zenon DEF EvInv
    <2>3. SeSock = "none" /\ AtEv' = <<>>
      BY <1>1, <2>1, <2>2 DEF SeSock, AtEv, Held
    <2>4. EvSock = "open" /\ EvSock' = "lost"
      BY <1>1, <1>3, <1>4 DEF EvSock
    <2> QED  BY <1>2, <2>3, <2>4 DEF Link!EvNoticesHangUp, Link!SeHungUp
  <1>5. CASE ~evEof
    <2>1. toEv' = toEv
      BY <1>5, Zenon DEF EvLeaves
    <2>2. AtEv' = AtEv
      BY <1>1, <2>1 DEF AtEv, Held
    <2>3. EvSock' = EvSock
      BY <1>1, <1>5, Zenon DEF EvSock
    <2> QED  BY <1>2, <2>2, <2>3 DEF LinkState
  <1> QED  BY <1>4, <1>5

(* Every step of the ports is one of the connection's or unseen. *)
LEMMA StepsImplementLink ==
    PortsInv /\ [Next]_vars => [Link!Next]_(Link!tcpVars)
  <1> SUFFICES ASSUME PortsInv, [Next]_vars  PROVE [Link!Next]_(Link!tcpVars)
    OBVIOUS
  <1>a. UNCHANGED LinkState => UNCHANGED Link!tcpVars
    BY DEF LinkState, Link!tcpVars, Link!linkVars
  <1> USE EmptyHead DEF PortsInv, TypeOK, FlagsOK, PlacesOK, EvInv, SeInv,
       EvHolds, SeHolds, SeDeletes, EvFds, SeFds, EvSock, SeSock, ToSe, AtEv,
       AtSe, EvTaken, SeTaken, Held
  <1>1. CASE KernelConnects
    <2>1. Link!ConnectSucceeds /\ UNCHANGED <<EvTaken, SeTaken>>
      BY <1>1 DEF KernelConnects, evPort, sePort, Link!ConnectSucceeds
    <2> QED  BY <1>a, <2>1 DEF Link!Next
  <1>2. CASE KernelRefuses
    <2>1. Link!ConnectFails /\ UNCHANGED <<EvTaken, SeTaken>>
      BY <1>2 DEF KernelRefuses, evPort, sePort, Link!ConnectFails
    <2> QED  BY <1>a, <2>1 DEF Link!Next
  <1>3. CASE Accepts
    <2>1. Link!AcceptThread /\ UNCHANGED <<EvTaken, SeTaken>>
      BY <1>3 DEF Accepts, evPort, sePort, Link!AcceptThread
    <2> QED  BY <1>a, <2>1 DEF Link!Next
  <1>4. CASE EvOpen
    <2>1. Link!EvOpens /\ UNCHANGED <<EvTaken, SeTaken>>
      BY <1>4 DEF EvOpen, EvStays, sePort, Link!EvOpens
    <2> QED  BY <1>a, <2>1 DEF Link!Next
  <1>5. CASE EvEvaluates
    <2>1. Link!EvTakes
      BY <1>5, HeadOfHeld DEF EvEvaluates, EvStays, sePort, Link!EvTakes
    <2> QED  BY <1>a, <2>1 DEF Link!Next
  <1>6. CASE EvFrees
    <2>1. Link!EvAcknowledges \/ UNCHANGED LinkState
      BY <1>6, FramesAssumption, HeadOfHeld DEF EvFrees, EvStays, sePort,
         Link!EvAcknowledges, Link!linkVars, LinkState, QuietInv, Untold
    <2> QED  BY <1>a, <2>1 DEF Link!Next
  <1>7. CASE EvJoins
    <2>1. Link!EvCloses /\ UNCHANGED <<EvTaken, SeTaken>>
      BY <1>7 DEF EvJoins, EvStays, sePort, Link!EvCloses
    <2> QED  BY <1>a, <2>1 DEF Link!Next
  <1>8. CASE SeOpen
    <2>1. Link!SeOpens /\ UNCHANGED <<EvTaken, SeTaken>>
      BY <1>8 DEF SeOpen, SeStays, evPort, Link!SeOpens
    <2> QED  BY <1>a, <2>1 DEF Link!Next
  <1>9. CASE SeEvaluates
    <2>1. Link!SeTakes
      BY <1>9, HeadOfHeld DEF SeEvaluates, SeStays, evPort, Link!SeTakes
    <2> QED  BY <1>a, <2>1 DEF Link!Next
  <1>10. CASE SeFrees
    <2>1. Link!SeAcknowledges
      BY <1>10, FramesAssumption, HeadOfHeld DEF SeFrees, SeStays, evPort,
         Link!SeAcknowledges, Link!linkVars
    <2> QED  BY <1>a, <2>1 DEF Link!Next
  <1>11. CASE SeOperatesEnd
    <2>1. Link!SeDrops /\ UNCHANGED <<EvTaken, SeTaken>>
      BY <1>11 DEF SeOperatesEnd, SeStays, evPort, Link!SeDrops
    <2> QED  BY <1>a, <2>1 DEF Link!Next
  <1>12. CASE SeClear
    <2>1. Link!SeDrops /\ UNCHANGED <<EvTaken, SeTaken>>
      BY <1>12 DEF SeClear, SeStays, evPort, Link!SeDrops
    <2> QED  BY <1>a, <2>1 DEF Link!Next
  <1>13. CASE EvSend
    BY <1>a, <1>13, SimEvSend DEF Link!Next
  <1>14. CASE SeSend
    BY <1>a, <1>14, SimSeSend DEF Link!Next
  <1>15. CASE EvLeaves
    BY <1>a, <1>15, SimEvLeaves DEF Link!Next
  <1>16. CASE \/ EvThreadStep /\ ~EvLeaves
              \/ SeThreadStep \/ EvOperates \/ EvClose \/ AcceptsNext
              \/ SeOperates \/ SeReturnsIntoDeleted \/ SeJoins \/ UNCHANGED vars
    BY <1>a, <1>16, UnseenSteps
  <1> QED
    BY <1>1, <1>2, <1>3, <1>4, <1>5, <1>6, <1>7, <1>8, <1>9, <1>10, <1>11,
       <1>12, <1>13, <1>14, <1>15, <1>16
    DEF Next, EvMainStep, SeMainStep

(* The ports implement the connection that the state machines are modelled *)
(* upon: what is sent arrives once, in order and whole while the other     *)
(* side is there, and nothing else arrives.                                *)
THEOREM PortsImplementLink == Spec => ImplementsLink
  <1>1. Init => Link!Init
    BY EmptySeq, EmptyHead
    DEF Init, Link!Init, Link!LinkInit, EvSock, SeSock, ToSe, AtSe, AtEv, EvTaken,
        SeTaken, Held, SeDeletes
  <1> QED
    BY <1>1, PortsInvariant, StepsImplementLink, PTL
    DEF Spec, ImplementsLink, Link!Spec

=============================================================================
