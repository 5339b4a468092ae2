------------------------- MODULE SlacMatchingProofs -------------------------
(***************************************************************************)
(* Proofs about the matching of a vehicle and a station: whatever is lost, *)
(* late, refused or overheard, and whenever the vehicle's program is quit, *)
(* a session that stands is not disturbed by a matching, and, unless the   *)
(* program is back before the station has read its frames, a vehicle that  *)
(* takes itself for matched is in the station's network.  The argument for *)
(* the latter follows the one request for a match of each run of the       *)
(* program through the two sockets, and the answers of the vehicle's modem *)
(* behind it.                                                              *)
(***************************************************************************)
EXTENDS SlacMatching, SequenceTheorems, TLAPS

-----------------------------------------------------------------------------
(* What the socket of either host can hold: a station only confirms and    *)
(* indicates, requests and responses come from vehicles, and a modem       *)
(* confirms to its own host.                                               *)
EvFrames ==
    {f \in Frames :
        /\ f.msg = "CM_SET_KEY" => f.kind = "CNF"
        /\ f.msg = "CM_SLAC_MATCH" => f.kind = "CNF"}

SeFrames ==
    {f \in Frames :
        /\ f.msg = "CM_SET_KEY" => f.kind = "CNF"
        /\ f.msg = "CM_SLAC_MATCH" => f.kind = "REQ"
        /\ f.msg = "CM_SLAC_PARAM" => f.kind = "REQ" /\ f.run # "none"}

TypeInv ==
    /\ TypeOK
    /\ toEv \in Seq(EvFrames) /\ toSe \in Seq(SeFrames)

Has(q, m)  == \E i \in 1..Len(q) : q[i].msg = m
Once(q, m) == \A i, j \in 1..Len(q) : q[i].msg = m /\ q[j].msg = m => i = j

(* One run of a vehicle's program has one request for a match, and either  *)
(* the request or its confirmation is under way, only while the vehicle    *)
(* waits for it or after it has given up for good.                         *)
Waits == (evSlac = "awaitMatch" /\ evFresh = FALSE) \/ evSlac = "Failed"

MatchInv ==
    /\ Has(toSe, "CM_SLAC_MATCH") \/ Has(toEv, "CM_SLAC_MATCH") => Waits
    /\ ~(Has(toSe, "CM_SLAC_MATCH") /\ Has(toEv, "CM_SLAC_MATCH"))
    /\ Once(toSe, "CM_SLAC_MATCH") /\ Once(toEv, "CM_SLAC_MATCH")

(* The answer of the vehicle's modem that the process takes for the        *)
(* station's key is the answer to that key.                                *)
KeysFirst(q) ==
    \A i, j \in 1..Len(q) : q[i].msg = "CM_SLAC_MATCH" /\ q[j].msg = "CM_SET_KEY" => j < i

Answers(q, chip) ==
    \A i \in 1..Len(q) : q[i].msg = "CM_SET_KEY" /\ q[i].ok = TRUE => chip = SeNmk

KeyInv ==
    /\ KeysFirst(toEv)
    /\ evSlac = "awaitSetKey" =>
           /\ evVals.nmk = SeNmk
           /\ evFresh = TRUE => ~Has(toEv, "CM_SET_KEY")
           /\ evFresh = FALSE => Once(toEv, "CM_SET_KEY") /\ Answers(toEv, evChip)
    /\ evSlac \in {"awaitSettleTime", "Matched"} =>
           /\ ~Has(toEv, "CM_SET_KEY")
           /\ evChip = SeNmk \/ evVals.refused = TRUE

(* Where each SLAC process is in which operation state. *)
EvPlaceInv ==
    /\ evOp = "initialization" => evSlac \in {"awaitGetSwVer", "Idle"}
    /\ evOp \in {"plug", "outOfOperation"} => evSlac = "Idle"
    /\ evOp = "slac" => evSlac # "awaitGetSwVer"
    /\ evOp = "communication" => evSlac \in {"Matched", "Idle"}

SePlaceInv ==
    /\ seOp = "communication" => seSlac \in {"Matched", "Failed", "Idle"}
    /\ session \in {"open", "lost"} => evOp = "communication"
    /\ session \in {"open", "closed"} => seOp = "communication"

MacInv ==
    /\ seSlac \notin {"awaitGetSwVer", "Idle", "awaitEstablishing"} => seVals.pev # "none"
    /\ seOp = "communication" => seMac # "none"

SlacInv == TypeInv /\ EvPlaceInv /\ SePlaceInv /\ MacInv

NetInv == MatchInv /\ KeyInv

-----------------------------------------------------------------------------
(* Sequences of frames *)

(* What a frame that is put at the end of a queue adds to it. *)
LEMMA Appended ==
    ASSUME NEW q \in Seq(Frames), NEW f \in Frames, NEW m
    PROVE  /\ Has(Append(q, f), m) => Has(q, m) \/ f.msg = m
           /\ Once(q, m) /\ (f.msg = m => ~Has(q, m)) => Once(Append(q, f), m)
<1> DEFINE r == Append(q, f)
<1>1. /\ Len(r) = Len(q) + 1 /\ Len(q) \in Nat
      /\ \A i \in 1..Len(q) : r[i] = q[i]
      /\ r[Len(q) + 1] = f
  BY AppendProperties, LenProperties
<1>2. \A i \in 1..Len(r) : i \in 1..Len(q) \/ i = Len(q) + 1
  BY <1>1
<1> HIDE DEF r
<1>3. Has(r, m) => Has(q, m) \/ f.msg = m
  BY <1>1, <1>2 DEF Has
<1>4. Once(q, m) /\ (f.msg = m => ~Has(q, m)) => Once(r, m)
  BY <1>1, <1>2 DEF Has, Once
<1> QED BY <1>3, <1>4 DEF r

(* The same for the order of the answers of the modem. *)
LEMMA AppendedKeys ==
    ASSUME NEW q \in Seq(Frames), NEW f \in Frames, NEW c
    PROVE  /\ /\ KeysFirst(q)
              /\ f.msg = "CM_SET_KEY" => ~Has(q, "CM_SLAC_MATCH")
              => KeysFirst(Append(q, f))
           /\ /\ Answers(q, c)
              /\ f.msg = "CM_SET_KEY" /\ f.ok = TRUE => c = SeNmk
              => Answers(Append(q, f), c)
<1> DEFINE r == Append(q, f)
<1>1. /\ Len(r) = Len(q) + 1 /\ Len(q) \in Nat
      /\ \A i \in 1..Len(q) : r[i] = q[i]
      /\ r[Len(q) + 1] = f
  BY AppendProperties, LenProperties
<1>2. \A i \in 1..Len(r) : i \in 1..Len(q) \/ i = Len(q) + 1
  BY <1>1
<1> HIDE DEF r
<1>3. ASSUME KeysFirst(q), f.msg = "CM_SET_KEY" => ~Has(q, "CM_SLAC_MATCH")
      PROVE  KeysFirst(r)
  <2> SUFFICES ASSUME NEW i \in 1..Len(r), NEW j \in 1..Len(r),
                      r[i].msg = "CM_SLAC_MATCH", r[j].msg = "CM_SET_KEY"
               PROVE  j < i
    BY DEF KeysFirst
  <2>1. CASE j \in 1..Len(q) /\ i \in 1..Len(q)
    BY <1>1, <1>3, <2>1 DEF KeysFirst
  <2>2. CASE j = Len(q) + 1 /\ i \in 1..Len(q)
    BY <1>1, <1>3, <2>2 DEF Has
  <2>3. CASE i = Len(q) + 1
    BY <1>1, <1>2, <2>3
  <2> QED BY <1>2, <2>1, <2>2, <2>3
<1>4. Answers(q, c) /\ (f.msg = "CM_SET_KEY" /\ f.ok = TRUE => c = SeNmk) => Answers(r, c)
  BY <1>1, <1>2 DEF Answers
<1> QED BY <1>3, <1>4 DEF r

(* What is left of a queue whose first frame is taken. *)
LEMMA Shortened ==
    ASSUME NEW q \in Seq(Frames), q # <<>>, NEW m
    PROVE  /\ Has(Tail(q), m) => Has(q, m)
           /\ Once(q, m) => Once(Tail(q), m)
           /\ Head(q).msg = m => Has(q, m)
           /\ Head(q).msg = m /\ Once(q, m) => ~Has(Tail(q), m)
<1> DEFINE r == Tail(q)
           h == Head(q)
<1>1. /\ Len(q) \in Nat /\ Len(q) >= 1 /\ Len(r) = Len(q) - 1
      /\ \A i \in 1..Len(r) : r[i] = q[i + 1]
      /\ h = q[1]
  BY HeadTailProperties, EmptySeq, LenProperties
<1>2. 1 \in 1..Len(q) /\ \A i \in 1..Len(r) : i + 1 \in 1..Len(q) /\ i + 1 # 1
  BY <1>1
<1> HIDE DEF r, h
<1>3. Has(r, m) => Has(q, m)
  BY <1>1, <1>2 DEF Has
<1>4. Once(q, m) => Once(r, m)
  <2> SUFFICES ASSUME Once(q, m), NEW i \in 1..Len(r), NEW j \in 1..Len(r),
                      r[i].msg = m, r[j].msg = m
               PROVE  i = j
    BY DEF Once
  <2>1. i + 1 = j + 1
    BY <1>1, <1>2 DEF Once
  <2> QED BY <2>1, <1>1
<1>5. h.msg = m => Has(q, m)
  BY <1>1, <1>2 DEF Has
<1>6. h.msg = m /\ Once(q, m) => ~Has(r, m)
  BY <1>1, <1>2 DEF Has, Once
<1> QED BY <1>3, <1>4, <1>5, <1>6 DEF r, h

LEMMA ShortenedKeys ==
    ASSUME NEW q \in Seq(Frames), q # <<>>, NEW c
    PROVE  /\ KeysFirst(q) => KeysFirst(Tail(q))
           /\ KeysFirst(q) /\ Head(q).msg = "CM_SLAC_MATCH" => ~Has(Tail(q), "CM_SET_KEY")
           /\ Answers(q, c) => Answers(Tail(q), c)
           /\ Answers(q, c) /\ Head(q).msg = "CM_SET_KEY" /\ Head(q).ok = TRUE => c = SeNmk
<1> DEFINE r == Tail(q)
           h == Head(q)
<1>1. /\ Len(q) \in Nat /\ Len(q) >= 1 /\ Len(r) = Len(q) - 1
      /\ \A i \in 1..Len(r) : r[i] = q[i + 1]
      /\ h = q[1]
  BY HeadTailProperties, EmptySeq, LenProperties
<1>2. 1 \in 1..Len(q) /\ \A i \in 1..Len(r) : i + 1 \in 1..Len(q) /\ ~(i + 1 < 1)
  BY <1>1
<1> HIDE DEF r, h
<1>3. KeysFirst(q) => KeysFirst(r)
  <2> SUFFICES ASSUME KeysFirst(q), NEW i \in 1..Len(r), NEW j \in 1..Len(r),
                      r[i].msg = "CM_SLAC_MATCH", r[j].msg = "CM_SET_KEY"
               PROVE  j < i
    BY DEF KeysFirst
  <2>1. j + 1 < i + 1
    BY <1>1, <1>2 DEF KeysFirst
  <2> QED BY <2>1, <1>1
<1>4. KeysFirst(q) /\ h.msg = "CM_SLAC_MATCH" => ~Has(r, "CM_SET_KEY")
  BY <1>1, <1>2 DEF Has, KeysFirst
<1>5. Answers(q, c) => Answers(r, c)
  BY <1>1, <1>2 DEF Answers
<1>6. Answers(q, c) /\ h.msg = "CM_SET_KEY" /\ h.ok = TRUE => c = SeNmk
  BY <1>1, <1>2 DEF Answers
<1> QED BY <1>3, <1>4, <1>5, <1>6 DEF r, h

LEMMA FrameSubsets ==
    /\ EvFrames \subseteq Frames /\ SeFrames \subseteq Frames
    /\ Seq(EvFrames) \subseteq Seq(Frames) /\ Seq(SeFrames) \subseteq Seq(Frames)
<1>1. EvFrames \subseteq Frames /\ SeFrames \subseteq Frames
  BY DEF EvFrames, SeFrames
<1>2. ASSUME NEW S, S \subseteq Frames, NEW q \in Seq(S)
      PROVE  q \in Seq(Frames)
  <2>1. Len(q) \in Nat /\ \A i \in 1..Len(q) : q[i] \in Frames
    BY <1>2, LenProperties, ElementOfSeq
  <2>2. q = [i \in 1..Len(q) |-> q[i]]
    BY <1>2, LenProperties
  <2> QED BY <2>1, <2>2, SeqDef
<1> QED BY <1>1, <1>2

(* Storing a frame keeps the values within their type. *)
LEMMA StoredTyped ==
    ASSUME NEW f \in Frames, NEW v \in Values
    PROVE  Stored(f, v) \in Values
<1>1. /\ f.run \in RunIds /\ "ev" \in RunIds /\ SeNmk \in Keys
      /\ CountSound(v.sounds) \in 0..(NumSounds + 1)
      /\ f.ok \in BOOLEAN /\ (~f.ok) \in BOOLEAN
  BY SlacAssumption DEF Frames, Values, RunIds, Vehicles, Keys, CountSound
<1>2. Asked(f, v) \in Values
  BY <1>1 DEF Asked, Values
<1>3. Confirmed(f, v) \in Values
  BY <1>1 DEF Confirmed, Values
<1> QED BY <1>2, <1>3 DEF Stored

-----------------------------------------------------------------------------
(* What onFrameReceive() leaves for a cycle of the vehicle, in terms of    *)
(* the invariant: `last`, the values v and the rest of the queue.          *)
EvTaken(last, v, rest) ==
    /\ v \in Values /\ rest \in Seq(EvFrames)
    /\ \A m \in {"CM_SLAC_MATCH", "CM_SET_KEY"} :
           /\ Has(rest, m) => Has(toEv, m)
           /\ last = m => Has(toEv, m)
           /\ Once(toEv, m) => Once(rest, m)
           /\ last = m /\ Once(toEv, m) => ~Has(rest, m)
    /\ KeysFirst(toEv) => KeysFirst(rest)
    /\ Answers(toEv, evChip) => Answers(rest, evChip)
    /\ v.nmk \in {evVals.nmk, SeNmk}
    /\ last = "CM_SLAC_MATCH" =>
           v.nmk = SeNmk /\ (KeysFirst(toEv) => ~Has(rest, "CM_SET_KEY"))
    /\ ~Has(toEv, "CM_SET_KEY") => v.refused = evVals.refused
    /\ last = "CM_SET_KEY" /\ Answers(toEv, evChip) => evChip = SeNmk \/ v.refused = TRUE

(* The same for a cycle of the station. *)
SeTaken(last, v, rest) ==
    /\ v \in Values /\ rest \in Seq(SeFrames)
    /\ Has(rest, "CM_SLAC_MATCH") => Has(toSe, "CM_SLAC_MATCH")
    /\ Once(toSe, "CM_SLAC_MATCH") => Once(rest, "CM_SLAC_MATCH")
    /\ last = "CM_SLAC_MATCH" =>
           /\ Has(toSe, "CM_SLAC_MATCH")
           /\ Once(toSe, "CM_SLAC_MATCH") => ~Has(rest, "CM_SLAC_MATCH")
    /\ last = "CM_SLAC_PARAM" => v.pev # "none"
    /\ seVals.pev # "none" => v.pev # "none"

LEMMA EvArrives ==
    ASSUME TypeInv, NEW take
    PROVE  EvTaken(Arrived(take, toEv, evVals).last, Arrived(take, toEv, evVals).vals,
                   Arrived(take, toEv, evVals).rest)
<1>1. toEv \in Seq(EvFrames) /\ toEv \in Seq(Frames) /\ evVals \in Values
  BY FrameSubsets DEF TypeInv, TypeOK, PlcTypeOK
<1>2. CASE take = TRUE /\ toEv # <<>>
  <2> DEFINE f == Head(toEv)
  <2>1. f \in EvFrames /\ f \in Frames /\ Tail(toEv) \in Seq(EvFrames)
    BY <1>1, <1>2, HeadTailProperties, FrameSubsets
  <2>2. f.ok \in BOOLEAN
    BY <2>1 DEF Frames
  <2> HIDE DEF f
  <2>3. /\ f.msg = "CM_SET_KEY" => f.kind = "CNF"
        /\ f.msg = "CM_SLAC_MATCH" => f.kind = "CNF"
    BY <2>1 DEF EvFrames
  <2>4. Stored(f, evVals) \in Values
    BY <1>1, <2>1, StoredTyped
  <2>5. /\ Stored(f, evVals).nmk \in {evVals.nmk, SeNmk}
        /\ f.msg = "CM_SLAC_MATCH" => Stored(f, evVals).nmk = SeNmk
    BY <1>1, <2>3 DEF Stored, Asked, Confirmed, Values
  <2>6. f.msg # "CM_SET_KEY" => Stored(f, evVals).refused = evVals.refused
    BY <1>1 DEF Stored, Asked, Confirmed, Values
  <2>7. f.msg = "CM_SET_KEY" => Stored(f, evVals).refused = ~f.ok
    BY <1>1, <2>3 DEF Stored, Confirmed, Values
  <2>8. f.msg = "CM_SET_KEY" => f.ok = TRUE \/ Stored(f, evVals).refused = TRUE
    BY <2>2, <2>7, Zenon
  <2>9. Result(f, evVals) \in {f.msg, "invalid"}
    BY DEF Result
  <2>10. Arrived(take, toEv, evVals) =
           [last |-> Result(f, evVals), vals |-> Stored(f, evVals), rest |-> Tail(toEv)]
    BY <1>2, Zenon DEF Arrived, f
  <2>11. \A m \in {"CM_SLAC_MATCH", "CM_SET_KEY"} :
           /\ Has(Tail(toEv), m) => Has(toEv, m)
           /\ Once(toEv, m) => Once(Tail(toEv), m)
           /\ f.msg = m => Has(toEv, m)
           /\ f.msg = m /\ Once(toEv, m) => ~Has(Tail(toEv), m)
    BY <1>1, <1>2, Shortened DEF f
  <2>12. /\ KeysFirst(toEv) => KeysFirst(Tail(toEv))
         /\ f.msg = "CM_SLAC_MATCH" /\ KeysFirst(toEv) => ~Has(Tail(toEv), "CM_SET_KEY")
         /\ Answers(toEv, evChip) => Answers(Tail(toEv), evChip)
         /\ Answers(toEv, evChip) /\ f.msg = "CM_SET_KEY" /\ f.ok = TRUE => evChip = SeNmk
    BY <1>1, <1>2, ShortenedKeys DEF f
  <2> QED BY <2>1, <2>4, <2>5, <2>6, <2>8, <2>9, <2>10, <2>11, <2>12 DEF EvTaken
<1>3. CASE ~(take = TRUE /\ toEv # <<>>)
  <2>1. Arrived(take, toEv, evVals) = [last |-> "none", vals |-> evVals, rest |-> toEv]
    BY <1>3, Zenon DEF Arrived
  <2> QED BY <1>1, <2>1 DEF EvTaken
<1> QED BY <1>2, <1>3

LEMMA SeArrives ==
    ASSUME TypeInv, NEW take
    PROVE  SeTaken(Arrived(take, toSe, seVals).last, Arrived(take, toSe, seVals).vals,
                   Arrived(take, toSe, seVals).rest)
<1>1. toSe \in Seq(SeFrames) /\ toSe \in Seq(Frames) /\ seVals \in Values
  BY FrameSubsets DEF TypeInv, TypeOK, PlcTypeOK
<1>2. CASE take = TRUE /\ toSe # <<>>
  <2> DEFINE f == Head(toSe)
  <2>1. f \in SeFrames /\ f \in Frames /\ Tail(toSe) \in Seq(SeFrames)
    BY <1>1, <1>2, HeadTailProperties, FrameSubsets
  <2> HIDE DEF f
  <2>2. /\ f.msg = "CM_SLAC_PARAM" => f.kind = "REQ" /\ f.run # "none"
        /\ f.msg = "CM_SLAC_MATCH" => f.kind = "REQ"
    BY <2>1 DEF SeFrames
  <2>3. Stored(f, seVals) \in Values
    BY <1>1, <2>1, StoredTyped
  <2>4. /\ f.msg = "CM_SLAC_PARAM" => Stored(f, seVals).pev # "none"
        /\ seVals.pev # "none" => Stored(f, seVals).pev # "none"
    BY <1>1, <2>2 DEF Stored, Asked, Confirmed, Values
  <2>5. Result(f, seVals) \in {f.msg, "invalid"}
    BY DEF Result
  <2>6. Arrived(take, toSe, seVals) =
           [last |-> Result(f, seVals), vals |-> Stored(f, seVals), rest |-> Tail(toSe)]
    BY <1>2, Zenon DEF Arrived, f
  <2>7. /\ Has(Tail(toSe), "CM_SLAC_MATCH") => Has(toSe, "CM_SLAC_MATCH")
        /\ Once(toSe, "CM_SLAC_MATCH") => Once(Tail(toSe), "CM_SLAC_MATCH")
        /\ f.msg = "CM_SLAC_MATCH" => Has(toSe, "CM_SLAC_MATCH")
        /\ f.msg = "CM_SLAC_MATCH" /\ Once(toSe, "CM_SLAC_MATCH") =>
               ~Has(Tail(toSe), "CM_SLAC_MATCH")
    BY <1>1, <1>2, Shortened DEF f
  <2> QED BY <2>1, <2>3, <2>4, <2>5, <2>6, <2>7 DEF SeTaken
<1>3. CASE ~(take = TRUE /\ toSe # <<>>)
  <2>1. Arrived(take, toSe, seVals) = [last |-> "none", vals |-> seVals, rest |-> toSe]
    BY <1>3, Zenon DEF Arrived
  <2> QED BY <1>1, <2>1 DEF SeTaken
<1> QED BY <1>2, <1>3

-----------------------------------------------------------------------------
(* A cycle of the vehicle, state by state, as far as the invariant is      *)
(* concerned.                                                              *)

(* To the station, but not the request for the match. *)
EvSendsOther(v, rest) ==
    \E w \in Values, f \in SeFrames :
        /\ w.nmk = v.nmk /\ w.refused = v.refused
        /\ f.msg # "CM_SLAC_MATCH"
        /\ EvLeaves(w, rest) \/ EvSends(f, w, rest)

EvEarly == {"awaitEstablishing", "awaitStartAttenChar", "awaitSounding", "awaitAttenChar"}

EvOutcome(last, v, rest) ==
    \/ EvTimed /\ EvLeaves(v, rest) /\ EvTo("Failed")
    \/ /\ evSlac = "awaitGetSwVer"
       /\ EvLeaves(v, rest) \/ EvLeaves(v, Append(rest, SwVerCnf))
       /\ EvTo("awaitGetSwVer") \/ EvTo("Idle")
    \/ /\ evSlac = "Idle"
       /\ EvLeaves(v, rest) \/ EvSetsKey(InitVals(EvNmk), rest)
       /\ EvTo("Idle") \/ (evOp = "slac" /\ EvTo("awaitEstablishing"))
    \/ /\ evSlac \in EvEarly /\ EvSendsOther(v, rest)
       /\ \E s \in EvEarly \union {"awaitMatch"} : EvTo(s)
    \/ /\ evSlac = "awaitMatch"
       /\ EvLeaves(v, rest) \/ (evFresh = TRUE /\ EvSends(MatchReq(v.run), v, rest))
       /\ EvTo("awaitMatch") \/ (last = "CM_SLAC_MATCH" /\ EvTo("awaitSetKey"))
    \/ /\ evSlac = "awaitSetKey"
       /\ (evFresh = TRUE /\ EvSetsKey(v, rest)) \/ (evFresh = FALSE /\ EvLeaves(v, rest))
       /\ EvTo("awaitSetKey") \/ (last = "CM_SET_KEY" /\ EvTo("awaitSettleTime"))
    \/ /\ evSlac = "awaitSettleTime" /\ EvLeaves(v, rest)
       /\ EvTo("awaitSettleTime") \/ EvTo("Matched")
    \/ /\ evSlac \in {"Failed", "Matched"} /\ EvLeaves(v, rest)
       /\ (evOp = "slac" /\ EvTo(evSlac)) \/ (evOp # "slac" /\ EvTo("Idle"))

LEMMA EvToStates ==
    ASSUME NEW s
    PROVE  EvTo(s) => /\ evSlac' = s /\ evFresh' \in BOOLEAN
                      /\ s # evSlac => evFresh' = TRUE
                      /\ s = evSlac => evFresh' = FALSE
  BY Zenon DEF EvTo

(* Every frame a vehicle or a station makes is one the other can hold. *)
LEMMA FramesMade ==
    ASSUME NEW v \in Values, NEW ok \in BOOLEAN
    PROVE  /\ SwVerCnf \in EvFrames /\ SwVerCnf \in SeFrames
           /\ SetKeyCnf(ok) \in EvFrames /\ SetKeyCnf(ok) \in SeFrames
           /\ ParamReq("ev") \in SeFrames /\ StartAttenInd(v.run) \in SeFrames
           /\ ProfileInd \in SeFrames /\ AttenRsp(v.run) \in SeFrames
           /\ MatchReq(v.run) \in SeFrames
           /\ ParamCnf(v.run) \in EvFrames /\ AttenInd(v.run) \in EvFrames
           /\ MatchCnf(v.run) \in EvFrames
<1>1. /\ v.run \in RunIds /\ "none" \in RunIds /\ "ev" \in RunIds /\ "ev" # "none"
      /\ TRUE \in BOOLEAN
  BY DEF Values, RunIds, Vehicles
<1>2. \A m \in {"VS_SW_VER", "CM_SET_KEY", "CM_SLAC_PARAM", "CM_START_ATTEN_CHAR",
                "CM_ATTEN_PROFILE", "CM_ATTEN_CHAR", "CM_SLAC_MATCH"},
         k \in {"REQ", "CNF", "IND", "RSP"}, r \in RunIds :
         Frame(m, k, r) \in Frames
  BY <1>1 DEF Frame, Frames
<1>3. \A b \in BOOLEAN : [Frame("CM_SET_KEY", "CNF", "none") EXCEPT !.ok = b] \in Frames
  BY <1>1 DEF Frame, Frames
<1>4. \A m, k, r : Frame(m, k, r).msg = m /\ Frame(m, k, r).kind = k /\ Frame(m, k, r).run = r
  BY DEF Frame
<1>5. \A b : /\ [Frame("CM_SET_KEY", "CNF", "none") EXCEPT !.ok = b].msg = "CM_SET_KEY"
             /\ [Frame("CM_SET_KEY", "CNF", "none") EXCEPT !.ok = b].kind = "CNF"
  BY DEF Frame
<1>6. SwVerCnf \in EvFrames /\ SwVerCnf \in SeFrames
  BY <1>1, <1>2, <1>4 DEF SwVerCnf, EvFrames, SeFrames
<1>7. SetKeyCnf(ok) \in EvFrames /\ SetKeyCnf(ok) \in SeFrames
  BY <1>3, <1>5 DEF SetKeyCnf, EvFrames, SeFrames
<1>8. /\ ParamReq("ev") \in SeFrames /\ StartAttenInd(v.run) \in SeFrames
      /\ ProfileInd \in SeFrames
  BY <1>1, <1>2, <1>4 DEF ParamReq, StartAttenInd, ProfileInd, SeFrames
<1>9. AttenRsp(v.run) \in SeFrames /\ MatchReq(v.run) \in SeFrames
  BY <1>1, <1>2, <1>4 DEF AttenRsp, MatchReq, SeFrames
<1>10. /\ ParamCnf(v.run) \in EvFrames /\ AttenInd(v.run) \in EvFrames
       /\ MatchCnf(v.run) \in EvFrames
  BY <1>1, <1>2, <1>4 DEF ParamCnf, AttenInd, MatchCnf, EvFrames
<1> QED BY <1>6, <1>7, <1>8, <1>9, <1>10

(* What each of them is. *)
LEMMA MessagesMade ==
    ASSUME NEW r, NEW ok
    PROVE  /\ SwVerCnf.msg = "VS_SW_VER" /\ SetKeyCnf(ok).msg = "CM_SET_KEY"
           /\ SetKeyCnf(ok).ok = ok
           /\ ParamReq(r).msg = "CM_SLAC_PARAM" /\ StartAttenInd(r).msg = "CM_START_ATTEN_CHAR"
           /\ ProfileInd.msg = "CM_ATTEN_PROFILE" /\ AttenRsp(r).msg = "CM_ATTEN_CHAR"
           /\ MatchReq(r).msg = "CM_SLAC_MATCH" /\ ParamCnf(r).msg = "CM_SLAC_PARAM"
           /\ AttenInd(r).msg = "CM_ATTEN_CHAR" /\ MatchCnf(r).msg = "CM_SLAC_MATCH"
  BY DEF Frame, SwVerCnf, SetKeyCnf, ParamReq, StartAttenInd, ProfileInd, AttenRsp,
         MatchReq, ParamCnf, AttenInd, MatchCnf

(* Every cycle of the vehicle has one of the outcomes above. *)
LEMMA EvOutcomes ==
    ASSUME TypeInv, EvPlaceInv, NEW last, NEW v \in Values, NEW rest, NEW tick, NEW late,
           EvOperate(evOp = "slac", last, v, rest, tick, late)
    PROVE  EvOutcome(last, v, rest)
<1>1. evFresh \in BOOLEAN /\ v.known \in BOOLEAN
  BY DEF TypeInv, TypeOK, EvSlacTypeOK, Values
<1>2. \A f, w : EvSendsToKnown(f, w, rest) => EvSends(f, w, rest) \/ EvLeaves(w, rest)
  BY Zenon DEF EvSendsToKnown
<1>3. /\ ParamReq("ev") \in SeFrames /\ StartAttenInd(v.run) \in SeFrames
      /\ ProfileInd \in SeFrames /\ AttenRsp(v.run) \in SeFrames
      /\ ParamReq("ev").msg # "CM_SLAC_MATCH" /\ StartAttenInd(v.run).msg # "CM_SLAC_MATCH"
      /\ ProfileInd.msg # "CM_SLAC_MATCH" /\ AttenRsp(v.run).msg # "CM_SLAC_MATCH"
  BY FramesMade, MessagesMade
<1>4. CASE late /\ EvTimed /\ EvTimesOut(v, rest)
  BY <1>4 DEF EvTimesOut, EvOutcome
<1>5. CASE EvAwaitGetSwVer(last, v, rest)
  <2>1. EvLeaves(v, rest) \/ EvLeaves(v, Append(rest, SwVerCnf))
    BY <1>5, Zenon DEF EvAwaitGetSwVer
  <2>2. evSlac = "awaitGetSwVer" /\ (EvTo("awaitGetSwVer") \/ EvTo("Idle"))
    BY <1>5, Zenon DEF EvAwaitGetSwVer, EvToIf
  <2> QED BY <2>1, <2>2 DEF EvOutcome
<1>6. CASE EvSlacIdle(evOp = "slac", v, rest)
  <2>1. EvLeaves(v, rest) \/ EvSetsKey(InitVals(EvNmk), rest)
    BY <1>6, Zenon DEF EvSlacIdle
  <2>2. evSlac = "Idle" /\ (EvTo("Idle") \/ (evOp = "slac" /\ EvTo("awaitEstablishing")))
    BY <1>6, Zenon DEF EvSlacIdle, EvToIf
  <2> QED BY <2>1, <2>2 DEF EvOutcome
<1>7. CASE EvAwaitEstablishing(evOp = "slac", last, v, rest, tick)
  <2> DEFINE w == [v EXCEPT !.run = "ev"]
  <2>1. EvLeaves(v, rest) \/ EvSends(ParamReq("ev"), w, rest)
    BY <1>7, Zenon DEF EvAwaitEstablishing
  <2>2. w \in Values /\ w.nmk = v.nmk /\ w.refused = v.refused
    BY DEF Values, RunIds, Vehicles
  <2>3. evSlac = "awaitEstablishing" /\ evOp = "slac"
    BY <1>7 DEF EvAwaitEstablishing, EvPlaceInv, TypeInv, TypeOK, EvOpStates
  <2>4. EvTo("awaitEstablishing") \/ EvTo("awaitStartAttenChar")
    BY <1>7, <2>3, Zenon DEF EvAwaitEstablishing, EvToIf
  <2> QED BY <1>3, <2>1, <2>2, <2>3, <2>4 DEF EvOutcome, EvSendsOther, EvEarly
<1>8. CASE EvAwaitStartAttenChar(v, rest)
  BY <1>2, <1>3, <1>8 DEF EvAwaitStartAttenChar, EvOutcome, EvSendsOther, EvEarly
<1>9. CASE EvAwaitSounding(v, rest, tick)
  <2> DEFINE left == IF evFresh THEN NumSounds ELSE v.sounds
             w == [v EXCEPT !.sounds = left - 1]
  <2>1. \/ (evFresh \/ (left > 0 /\ tick)) /\ EvSendsToKnown(ProfileInd, w, rest)
        \/ EvLeaves(v, rest)
    BY <1>9, Zenon DEF EvAwaitSounding
  <2>2. evSlac = "awaitSounding" /\ (EvTo("awaitSounding") \/ EvTo("awaitAttenChar"))
    BY <1>9, Zenon DEF EvAwaitSounding, EvToIf
  <2>3. ASSUME evFresh \/ (left > 0 /\ tick)
        PROVE  w \in Values /\ w.nmk = v.nmk /\ w.refused = v.refused
    <3>1. left \in 0..(NumSounds + 1)
      <4>1. left \in {NumSounds, v.sounds}
        BY Zenon
      <4> QED BY <4>1, SlacAssumption DEF Values
    <3>2. left > 0
      <4>1. evFresh => left = NumSounds
        BY Zenon
      <4>2. left = NumSounds \/ left > 0
        BY <2>3, <4>1, Zenon
      <4> QED BY <4>2, SlacAssumption
    <3> HIDE DEF left
    <3>3. left - 1 \in 0..(NumSounds + 1)
      BY <3>1, <3>2, SlacAssumption
    <3> QED BY <3>3 DEF Values
  <2> HIDE DEF left, w
  <2>4. EvSendsOther(v, rest)
    BY <1>2, <1>3, <2>1, <2>3 DEF EvSendsOther
  <2> QED BY <2>2, <2>4 DEF EvOutcome, EvEarly
<1>10. CASE EvAwaitAttenChar(last, v, rest)
  <2>1. EvLeaves(v, rest) \/ EvSendsToKnown(AttenRsp(v.run), v, rest)
    BY <1>10 DEF EvAwaitAttenChar
  <2>2. evSlac = "awaitAttenChar" /\ (EvTo("awaitAttenChar") \/ EvTo("awaitMatch"))
    BY <1>10 DEF EvAwaitAttenChar, EvToIf
  <2> QED BY <1>2, <1>3, <2>1, <2>2 DEF EvOutcome, EvSendsOther, EvEarly
<1>11. CASE EvAwaitMatch(last, v, rest)
  <2>1. EvLeaves(v, rest) \/ (evFresh = TRUE /\ EvSends(MatchReq(v.run), v, rest))
    BY <1>1, <1>2, <1>11, Zenon DEF EvAwaitMatch
  <2>2. /\ evSlac = "awaitMatch"
        /\ EvTo("awaitMatch") \/ (last = "CM_SLAC_MATCH" /\ EvTo("awaitSetKey"))
    BY <1>11 DEF EvAwaitMatch, EvToIf
  <2> QED BY <2>1, <2>2 DEF EvOutcome
<1>12. CASE EvAwaitSetKey(last, v, rest)
  <2>1. (evFresh = TRUE /\ EvSetsKey(v, rest)) \/ (evFresh = FALSE /\ EvLeaves(v, rest))
    BY <1>1, <1>12, Zenon DEF EvAwaitSetKey
  <2>2. /\ evSlac = "awaitSetKey"
        /\ EvTo("awaitSetKey") \/ (last = "CM_SET_KEY" /\ EvTo("awaitSettleTime"))
    BY <1>12 DEF EvAwaitSetKey, EvToIf
  <2> QED BY <2>1, <2>2 DEF EvOutcome
<1>13. CASE EvAwaitSettleTime(v, rest, tick)
  <2>1. EvTo("awaitSettleTime") \/ EvTo("Matched")
    BY <1>13, Zenon DEF EvAwaitSettleTime, EvToIf
  <2> QED BY <1>13, <2>1 DEF EvAwaitSettleTime, EvOutcome
<1>14. CASE EvFailedOrMatched(evOp = "slac", v, rest)
  BY <1>14 DEF EvFailedOrMatched, EvToIf, EvOutcome
<1> QED
  BY <1>4, <1>5, <1>6, <1>7, <1>8, <1>9, <1>10, <1>11, <1>12, <1>13, <1>14 DEF EvOperate

-----------------------------------------------------------------------------
(* What a frame on the cable, or an order to the modem, does to the queues. *)
LEMMA Transmitted ==
    ASSUME NEW q, NEW f
    PROVE  Transmit(q, f) = q \/ Transmit(q, f) = Append(q, f)
  BY Zenon DEF Transmit, Carry

LEMMA EvKeySet ==
    ASSUME NEW w, NEW rest, EvSetsKey(w, rest)
    PROVE  \E ok \in BOOLEAN :
               /\ evVals' = w /\ toSe' = toSe
               /\ toEv' = Append(rest, SetKeyCnf(ok))
               /\ evChip' = w.nmk \/ evChip' = evChip
               /\ ok = TRUE => evChip' = w.nmk
<1>1. PICK ok \in ModemAnswers :
         /\ evChip' = IF ok THEN w.nmk ELSE evChip
         /\ evVals' = w /\ toSe' = toSe
         /\ toEv' = Append(rest, SetKeyCnf(ok))
  BY DEF EvSetsKey
<1>2. ok \in BOOLEAN
  BY SlacAssumption
<1>3. evChip' = w.nmk \/ evChip' = evChip
  BY <1>1, Zenon
<1>4. ok = TRUE => evChip' = w.nmk
  BY <1>1, Zenon
<1> QED BY <1>1, <1>2, <1>3, <1>4, Zenon

LEMMA InitValsTyped ==
    ASSUME NEW k \in Keys
    PROVE  InitVals(k) \in Values /\ InitVals(k).nmk = k
<1>1. "none" \in RunIds /\ FALSE \in BOOLEAN /\ 0 \in 0..(NumSounds + 1)
  BY SlacAssumption DEF RunIds
<1> QED BY <1>1 DEF InitVals, Values

(* The operation state and the session in the same cycle. *)
EvOpOutcome ==
    \/ evOp' = evOp /\ session' = session
    \/ evOp = "initialization" /\ evSlac # "awaitGetSwVer" /\ evOp' = "plug" /\ session' = session
    \/ evOp = "plug" /\ evOp' = "slac" /\ session' = session
    \/ evOp = "slac" /\ evSlac = "Matched" /\ evOp' = "communication" /\ session' = session
    \/ /\ evOp = "communication" /\ evOp' = "outOfOperation"
       /\ (session = "open" /\ session' = "closed") \/ (session = "lost" /\ session' = "none")

EvMoves(last, v, rest) ==
    /\ EvTaken(last, v, rest) /\ EvOutcome(last, v, rest) /\ EvOpOutcome
    /\ UNCHANGED <<plugged, seVals, seSlacVars, seOp, slacReady, seMac>>

LEMMA EvCycleMoves ==
    ASSUME SlacInv, NEW take, NEW tick, NEW late, NEW due, EvCycle(take, tick, late, due)
    PROVE  \E last, v, rest : EvMoves(last, v, rest)
<1> DEFINE in == Arrived(take, toEv, evVals)
<1>1. EvTaken(in.last, in.vals, in.rest)
  BY EvArrives DEF SlacInv
<1>2. /\ EvOperate(evOp = "slac", in.last, in.vals, in.rest, tick, late)
      /\ due /\ evOp = "communication" => EvIsoMayEnd
      /\ evOp' = EvOpNext(due)
      /\ session' = IF due /\ evOp = "communication" THEN EvHangsUp ELSE session
      /\ UNCHANGED <<plugged, seVals, seSlacVars, seOp, slacReady, seMac>>
  BY Zenon DEF EvCycle
<1>3. in.vals \in Values
  BY <1>1 DEF EvTaken
<1> HIDE DEF in
<1>4. EvOutcome(in.last, in.vals, in.rest)
  BY <1>2, <1>3, EvOutcomes DEF SlacInv
<1>5. EvOpOutcome
  <2>1. CASE due /\ evOp = "communication"
    <3>1. evOp' = "outOfOperation"
      BY <1>2, <2>1 DEF EvOpNext
    <3>2. session' = EvHangsUp /\ EvIsoMayEnd
      BY <1>2, <2>1, Zenon
    <3> QED BY <2>1, <3>1, <3>2 DEF EvHangsUp, EvIsoMayEnd, EvOpOutcome
  <2>2. CASE ~(due /\ evOp = "communication")
    <3>1. session' = session
      BY <1>2, <2>2, Zenon
    <3>2. \/ evOp' = evOp
          \/ evOp = "initialization" /\ evSlac # "awaitGetSwVer" /\ evOp' = "plug"
          \/ evOp = "plug" /\ evOp' = "slac"
          \/ evOp = "slac" /\ evSlac = "Matched" /\ evOp' = "communication"
      BY <1>2, <2>2, Zenon DEF EvOpNext
    <3> QED BY <3>1, <3>2 DEF EvOpOutcome
  <2> QED BY <2>1, <2>2
<1> QED BY <1>1, <1>2, <1>4, <1>5 DEF EvMoves

(* The queues and the values keep their types. *)
LEMMA EvKeepsTypes ==
    ASSUME SlacInv, NEW last, NEW v, NEW rest, EvMoves(last, v, rest)
    PROVE  TypeInv'
<1>1. /\ TypeInv /\ v \in Values /\ rest \in Seq(EvFrames)
      /\ toSe \in Seq(SeFrames) /\ evChip \in Keys /\ EvNmk \in Keys /\ v.nmk \in Keys
  BY DEF SlacInv, EvMoves, EvTaken, TypeInv, TypeOK, PlcTypeOK, Values, Keys
<1>2. ASSUME NEW w \in Values, EvLeaves(w, rest)
      PROVE  evVals' \in Values /\ toEv' \in Seq(EvFrames) /\ toSe' \in Seq(SeFrames)
                 /\ evChip' \in Keys
  BY <1>1, <1>2 DEF EvLeaves
<1>3. ASSUME NEW w \in Values, NEW f \in SeFrames, EvSends(f, w, rest)
      PROVE  evVals' \in Values /\ toEv' \in Seq(EvFrames) /\ toSe' \in Seq(SeFrames)
                 /\ evChip' \in Keys
  <2>1. toSe' = toSe \/ toSe' = Append(toSe, f)
    BY <1>3, Transmitted DEF EvSends
  <2> QED BY <1>1, <1>3, <2>1, AppendProperties DEF EvSends
<1>4. ASSUME NEW w \in Values, w.nmk \in Keys, EvSetsKey(w, rest)
      PROVE  evVals' \in Values /\ toEv' \in Seq(EvFrames) /\ toSe' \in Seq(SeFrames)
                 /\ evChip' \in Keys
  <2>1. PICK ok \in BOOLEAN :
            /\ evVals' = w /\ toSe' = toSe
            /\ toEv' = Append(rest, SetKeyCnf(ok))
            /\ evChip' = w.nmk \/ evChip' = evChip
    BY <1>4, EvKeySet
  <2>2. SetKeyCnf(ok) \in EvFrames
    BY <1>1, FramesMade
  <2>3. Append(rest, SetKeyCnf(ok)) \in Seq(EvFrames)
    BY <1>1, <2>2, AppendProperties
  <2> QED BY <1>1, <1>4, <2>1, <2>3
<1>5. EvLeaves(v, Append(rest, SwVerCnf)) =>
        evVals' \in Values /\ toEv' \in Seq(EvFrames) /\ toSe' \in Seq(SeFrames)
            /\ evChip' \in Keys
  <2>1. SwVerCnf \in EvFrames
    BY <1>1, FramesMade
  <2> QED BY <1>1, <2>1, AppendProperties DEF EvLeaves
<1>6. evVals' \in Values /\ toEv' \in Seq(EvFrames) /\ toSe' \in Seq(SeFrames)
          /\ evChip' \in Keys
  <2>1. MatchReq(v.run) \in SeFrames /\ InitVals(EvNmk) \in Values /\ InitVals(EvNmk).nmk \in Keys
    BY <1>1, FramesMade, InitValsTyped
  <2>2. EvSendsOther(v, rest) => \E w \in Values, f \in SeFrames :
           EvLeaves(w, rest) \/ EvSends(f, w, rest)
    BY DEF EvSendsOther
  <2>3. \/ EvLeaves(v, rest) \/ EvLeaves(v, Append(rest, SwVerCnf))
        \/ EvSetsKey(InitVals(EvNmk), rest) \/ EvSetsKey(v, rest)
        \/ EvSends(MatchReq(v.run), v, rest) \/ EvSendsOther(v, rest)
    BY DEF EvMoves, EvOutcome
  <2> QED BY <1>1, <1>2, <1>3, <1>4, <1>5, <2>1, <2>2, <2>3
<1>7. evSlac' \in SlacStates /\ evFresh' \in BOOLEAN
  <2>1. \E s \in SlacStates : EvTo(s)
    BY <1>1 DEF EvMoves, EvOutcome, SlacStates, EvEarly, TypeInv, TypeOK, EvSlacTypeOK
  <2> QED BY <2>1, EvToStates
<1>8. evOp' \in EvOpStates /\ session' \in {"none", "open", "closed", "lost"}
  BY <1>1 DEF EvMoves, EvOpOutcome, EvOpStates, TypeInv, TypeOK
<1>9. /\ plugged' \in BOOLEAN /\ seVals' \in Values /\ SeSlacTypeOK' /\ seOp' \in SeOpStates
      /\ slacReady' \in BOOLEAN /\ seMac' \in RunIds
  BY <1>1 DEF EvMoves, seSlacVars, TypeInv, TypeOK, PlcTypeOK, SeSlacTypeOK
<1>10. toEv' \in Seq(Frames) /\ toSe' \in Seq(Frames)
  BY <1>6, FrameSubsets
<1> QED BY <1>6, <1>7, <1>8, <1>9, <1>10 DEF TypeInv, TypeOK, PlcTypeOK, EvSlacTypeOK

(* The state the vehicle goes to. *)
LEMMA EvGoes ==
    ASSUME NEW last, NEW v, NEW rest, EvMoves(last, v, rest)
    PROVE  \/ /\ evSlac' = evSlac /\ evFresh' = FALSE
              /\ evSlac = "Matched" => evOp = "slac"
           \/ /\ evFresh' = TRUE /\ evSlac' # evSlac
              /\ \/ EvTimed /\ evSlac' = "Failed"
                 \/ evSlac = "awaitGetSwVer" /\ evSlac' = "Idle"
                 \/ evSlac = "Idle" /\ evOp = "slac" /\ evSlac' = "awaitEstablishing"
                 \/ evSlac \in EvEarly /\ evSlac' \in EvEarly \union {"awaitMatch"}
                 \/ evSlac = "awaitMatch" /\ last = "CM_SLAC_MATCH" /\ evSlac' = "awaitSetKey"
                 \/ evSlac = "awaitSetKey" /\ last = "CM_SET_KEY" /\ evSlac' = "awaitSettleTime"
                 \/ evSlac = "awaitSettleTime" /\ evSlac' = "Matched"
                 \/ evSlac \in {"Failed", "Matched"} /\ evOp # "slac" /\ evSlac' = "Idle"
<1>1. \A s : EvTo(s) =>
          /\ evSlac' = s
          /\ \/ evSlac' = evSlac /\ evFresh' = FALSE
             \/ evSlac' # evSlac /\ evFresh' = TRUE
  <2> SUFFICES ASSUME NEW s, EvTo(s)
               PROVE  /\ evSlac' = s
                      /\ \/ evSlac' = evSlac /\ evFresh' = FALSE
                         \/ evSlac' # evSlac /\ evFresh' = TRUE
    OBVIOUS
  <2> QED BY EvToStates, Zenon
<1>2. \/ EvTimed /\ EvTo("Failed")
      \/ evSlac = "awaitGetSwVer" /\ (EvTo("awaitGetSwVer") \/ EvTo("Idle"))
      \/ /\ evSlac = "Idle"
         /\ EvTo("Idle") \/ (evOp = "slac" /\ EvTo("awaitEstablishing"))
      \/ evSlac \in EvEarly /\ \E s \in EvEarly \union {"awaitMatch"} : EvTo(s)
      \/ /\ evSlac = "awaitMatch"
         /\ EvTo("awaitMatch") \/ (last = "CM_SLAC_MATCH" /\ EvTo("awaitSetKey"))
      \/ /\ evSlac = "awaitSetKey"
         /\ EvTo("awaitSetKey") \/ (last = "CM_SET_KEY" /\ EvTo("awaitSettleTime"))
      \/ evSlac = "awaitSettleTime" /\ (EvTo("awaitSettleTime") \/ EvTo("Matched"))
      \/ /\ evSlac \in {"Failed", "Matched"}
         /\ (evOp = "slac" /\ EvTo(evSlac)) \/ (evOp # "slac" /\ EvTo("Idle"))
  BY Zenon DEF EvMoves, EvOutcome
<1> QED BY <1>1, <1>2 DEF EvEarly, EvTimed

(* The request for a match and its confirmation in the two sockets. *)
LEMMA EvMatchQueues ==
    ASSUME SlacInv, NetInv, NEW last, NEW v, NEW rest, EvMoves(last, v, rest)
    PROVE  /\ Has(toEv', "CM_SLAC_MATCH") => Has(toEv, "CM_SLAC_MATCH")
           /\ last = "CM_SLAC_MATCH" =>
                  Has(toEv, "CM_SLAC_MATCH") /\ ~Has(toEv', "CM_SLAC_MATCH")
           /\ Once(toEv', "CM_SLAC_MATCH")
           /\ Has(toSe', "CM_SLAC_MATCH") =>
                  Has(toSe, "CM_SLAC_MATCH") \/ (evSlac = "awaitMatch" /\ evFresh = TRUE)
           /\ Once(toSe', "CM_SLAC_MATCH")
<1> DEFINE m == "CM_SLAC_MATCH"
<1>1. /\ v \in Values /\ rest \in Seq(EvFrames) /\ rest \in Seq(Frames)
      /\ toSe \in Seq(SeFrames) /\ toSe \in Seq(Frames)
      /\ Once(toEv, m) /\ Once(toSe, m)
      /\ Has(rest, m) => Has(toEv, m)
      /\ last = m => Has(toEv, m) /\ ~Has(rest, m)
      /\ Once(rest, m)
      /\ Has(toSe, m) => Waits
  BY FrameSubsets DEF SlacInv, NetInv, TypeInv, MatchInv, EvMoves, EvTaken
<1>2. \A ok \in BOOLEAN : /\ SetKeyCnf(ok) \in Frames /\ SetKeyCnf(ok).msg # m
                          /\ SwVerCnf \in Frames /\ SwVerCnf.msg # m
  BY <1>1, FramesMade, FrameSubsets, MessagesMade
<1>3. \/ toEv' = rest
      \/ \E f \in Frames : f.msg # m /\ toEv' = Append(rest, f)
  <2>1. ASSUME NEW w, EvSetsKey(w, rest)
        PROVE  \E f \in Frames : f.msg # m /\ toEv' = Append(rest, f)
    <3>1. PICK ok \in BOOLEAN : toEv' = Append(rest, SetKeyCnf(ok))
      BY <2>1, EvKeySet
    <3> QED BY <1>2, <3>1
  <2>2. EvLeaves(v, Append(rest, SwVerCnf)) =>
           \E f \in Frames : f.msg # m /\ toEv' = Append(rest, f)
    BY <1>2 DEF EvLeaves
  <2>3. EvSendsOther(v, rest) => toEv' = rest
    BY DEF EvSendsOther, EvLeaves, EvSends
  <2> QED BY <2>1, <2>2, <2>3 DEF EvMoves, EvOutcome, EvLeaves, EvSends
<1>4. (Has(toEv', m) => Has(rest, m)) /\ Once(toEv', m)
  BY <1>1, <1>3, Appended
<1>5. \/ toSe' = toSe
      \/ \E f \in Frames : f.msg # m /\ toSe' = Append(toSe, f)
      \/ /\ evSlac = "awaitMatch" /\ evFresh = TRUE
         /\ toSe' = Append(toSe, MatchReq(v.run))
  <2>1. EvSendsOther(v, rest) => \/ toSe' = toSe
                                 \/ \E f \in Frames : f.msg # m /\ toSe' = Append(toSe, f)
    BY Transmitted, FrameSubsets DEF EvSendsOther, EvLeaves, EvSends
  <2>2. EvSends(MatchReq(v.run), v, rest) =>
           toSe' = toSe \/ toSe' = Append(toSe, MatchReq(v.run))
    BY Transmitted DEF EvSends
  <2>3. \A w : EvSetsKey(w, rest) => toSe' = toSe
    BY EvKeySet
  <2>4. \A w, q : EvLeaves(w, q) => toSe' = toSe
    BY DEF EvLeaves
  <2> QED BY <2>1, <2>2, <2>3, <2>4 DEF EvMoves, EvOutcome
<1>6. Has(toSe', m) => Has(toSe, m) \/ (evSlac = "awaitMatch" /\ evFresh = TRUE)
  BY <1>1, <1>5, Appended
<1>7. Once(toSe', m)
  <2>1. CASE evSlac = "awaitMatch" /\ evFresh = TRUE /\ toSe' = Append(toSe, MatchReq(v.run))
    <3>1. ~Has(toSe, m)
      BY <1>1, <2>1 DEF Waits
    <3>2. MatchReq(v.run) \in Frames
      BY <1>1, FramesMade, FrameSubsets
    <3> QED BY <1>1, <2>1, <3>1, <3>2, Appended
  <2>2. ASSUME NEW f \in Frames, f.msg # m, toSe' = Append(toSe, f)
        PROVE  Once(toSe', m)
    <3>1. Once(Append(toSe, f), m)
      BY <1>1, <2>2, Appended
    <3> QED BY <2>2, <3>1
  <2> QED BY <1>1, <1>5, <2>1, <2>2
<1> QED BY <1>1, <1>4, <1>6, <1>7

LEMMA EvKeepsMatch ==
    ASSUME SlacInv, NetInv, NEW last, NEW v, NEW rest, EvMoves(last, v, rest)
    PROVE  MatchInv'
<1> DEFINE m == "CM_SLAC_MATCH"
<1>1. /\ MatchInv /\ EvPlaceInv /\ evOp \in EvOpStates /\ evFresh \in BOOLEAN
  BY DEF SlacInv, NetInv, TypeInv, TypeOK, EvSlacTypeOK
<1>2. Once(toSe', m) /\ Once(toEv', m)
  BY EvMatchQueues
<1>3. ASSUME Has(toSe', m) \/ Has(toEv', m)
      PROVE  Waits'
  <2>1. last # m \/ ~Has(toSe', m)
    BY <1>1, <1>3, EvMatchQueues DEF MatchInv, Waits
  <2>2. last # m
    BY <1>3, <2>1, EvMatchQueues
  <2>3. Waits \/ (evSlac = "awaitMatch" /\ evFresh = TRUE)
    BY <1>1, <1>3, EvMatchQueues DEF MatchInv
  <2>4. evSlac = "awaitMatch" \/ (evSlac = "Failed" /\ evOp = "slac")
    BY <1>1, <2>3 DEF Waits, EvPlaceInv, EvOpStates
  <2>5. (evSlac' = evSlac /\ evFresh' = FALSE) \/ evSlac' = "Failed"
    BY <2>2, <2>4, EvGoes DEF EvEarly
  <2> QED BY <2>4, <2>5 DEF Waits
<1>4. ~(Has(toSe', m) /\ Has(toEv', m))
  BY <1>1, EvMatchQueues DEF MatchInv, Waits
<1> QED BY <1>2, <1>3, <1>4 DEF MatchInv

(* The answers of the modem. *)
LEMMA EvKeepsKeys ==
    ASSUME SlacInv, NetInv, NEW last, NEW v, NEW rest, EvMoves(last, v, rest)
    PROVE  KeyInv'
<1> DEFINE m == "CM_SLAC_MATCH"
           k == "CM_SET_KEY"
<1>1. /\ MatchInv /\ KeyInv /\ evFresh \in BOOLEAN
      /\ v \in Values /\ rest \in Seq(EvFrames) /\ rest \in Seq(Frames)
      /\ EvTaken(last, v, rest)
  BY FrameSubsets DEF SlacInv, NetInv, TypeInv, TypeOK, EvSlacTypeOK, EvMoves, EvTaken
<1>2. \A ok \in BOOLEAN : /\ SetKeyCnf(ok) \in Frames /\ SetKeyCnf(ok).msg = k
                          /\ SetKeyCnf(ok).ok = ok
                          /\ SwVerCnf \in Frames /\ SwVerCnf.msg # k
  BY <1>1, FramesMade, FrameSubsets, MessagesMade
<1>3. \A q, c : ~Has(q, k) => Once(q, k) /\ Answers(q, c)
  BY DEF Has, Once, Answers
<1>4. \A w, q : EvLeaves(w, q) => evVals' = w /\ toEv' = q /\ evChip' = evChip
  BY DEF EvLeaves
<1>5. \A w, f : EvSends(f, w, rest) => evVals' = w /\ toEv' = rest /\ evChip' = evChip
  BY DEF EvSends
<1>6. KeysFirst(toEv')
  <2>1. KeysFirst(rest) /\ (Has(rest, m) => Has(toEv, m))
    BY <1>1 DEF EvTaken, KeyInv
  <2>2. ASSUME NEW w, EvSetsKey(w, rest), evSlac \in {"Idle", "awaitSetKey"}
        PROVE  KeysFirst(toEv')
    <3>1. PICK ok \in BOOLEAN : toEv' = Append(rest, SetKeyCnf(ok))
      BY <2>2, EvKeySet
    <3>2. ~Has(rest, m)
      BY <1>1, <2>1, <2>2 DEF MatchInv, Waits
    <3>3. SetKeyCnf(ok) \in Frames
      BY <1>2
    <3> QED BY <1>1, <2>1, <3>1, <3>2, <3>3, AppendedKeys
  <2>3. EvLeaves(v, Append(rest, SwVerCnf)) => KeysFirst(toEv')
    <3>1. SwVerCnf \in Frames /\ SwVerCnf.msg # k
      BY <1>2
    <3>2. KeysFirst(Append(rest, SwVerCnf))
      BY <1>1, <2>1, <3>1, AppendedKeys
    <3> QED BY <1>4, <3>2
  <2>4. EvSendsOther(v, rest) => toEv' = rest
    BY DEF EvSendsOther, EvLeaves, EvSends
  <2> QED BY <1>4, <1>5, <2>1, <2>2, <2>3, <2>4 DEF EvMoves, EvOutcome
<1>7. ASSUME evSlac' = "awaitSetKey"
      PROVE  /\ evVals'.nmk = SeNmk
             /\ evFresh' = TRUE => ~Has(toEv', k)
             /\ evFresh' = FALSE => Once(toEv', k) /\ Answers(toEv', evChip')
  <2>1. \/ evSlac = "awaitMatch" /\ last = m /\ evFresh' = TRUE
        \/ evSlac = "awaitSetKey" /\ evFresh' = FALSE
    BY <1>7, EvGoes DEF EvEarly
  <2>2. CASE evSlac = "awaitMatch" /\ last = m /\ evFresh' = TRUE
    <3>1. v.nmk = SeNmk /\ ~Has(rest, k)
      BY <1>1, <2>2 DEF EvTaken, KeyInv
    <3>2. EvLeaves(v, rest) \/ EvSends(MatchReq(v.run), v, rest)
      BY <2>2 DEF EvMoves, EvOutcome, EvEarly
    <3>3. evVals' = v /\ toEv' = rest
      BY <1>4, <1>5, <3>2
    <3> QED BY <2>2, <3>1, <3>3
  <2>3. CASE evSlac = "awaitSetKey" /\ evFresh' = FALSE
    <3>1. v.nmk = SeNmk
      BY <1>1, <2>3 DEF KeyInv, EvTaken
    <3>2. \/ evFresh = TRUE /\ EvSetsKey(v, rest)
          \/ evFresh = FALSE /\ EvLeaves(v, rest)
      <4>1. EvTo("Failed") => evSlac' = "Failed"
        BY Zenon DEF EvTo
      <4> QED BY <1>7, <2>3, <4>1 DEF EvMoves, EvOutcome, EvEarly
    <3>3. CASE evFresh = TRUE /\ EvSetsKey(v, rest)
      <4>1. PICK ok \in BOOLEAN :
                /\ evVals' = v /\ toEv' = Append(rest, SetKeyCnf(ok))
                /\ ok = TRUE => evChip' = v.nmk
        BY <3>3, EvKeySet
      <4>2. ~Has(rest, k)
        BY <1>1, <2>3, <3>3 DEF KeyInv, EvTaken
      <4>3. Once(rest, k) /\ Answers(rest, evChip')
        BY <1>3, <4>2
      <4>4. SetKeyCnf(ok) \in Frames /\ SetKeyCnf(ok).ok = ok
        BY <1>2
      <4>5. Once(Append(rest, SetKeyCnf(ok)), k)
        BY <1>1, <4>2, <4>3, <4>4, Appended
      <4>6. Answers(Append(rest, SetKeyCnf(ok)), evChip')
        BY <1>1, <3>1, <4>1, <4>3, <4>4, AppendedKeys
      <4> QED BY <2>3, <3>1, <4>1, <4>5, <4>6
    <3>4. CASE evFresh = FALSE /\ EvLeaves(v, rest)
      <4>1. evVals' = v /\ toEv' = rest /\ evChip' = evChip
        BY <1>4, <3>4
      <4>2. Once(rest, k) /\ Answers(rest, evChip)
        BY <1>1, <2>3, <3>4 DEF KeyInv, EvTaken
      <4> QED BY <2>3, <3>1, <4>1, <4>2
    <3> QED BY <3>2, <3>3, <3>4
  <2> QED BY <2>1, <2>2, <2>3
<1>8. ASSUME evSlac' \in {"awaitSettleTime", "Matched"}
      PROVE  /\ ~Has(toEv', k)
             /\ evChip' = SeNmk \/ evVals'.refused = TRUE
  <2>1. \/ evSlac = "awaitSetKey" /\ last = k
        \/ evSlac \in {"awaitSettleTime", "Matched"}
    BY <1>8, EvGoes DEF EvEarly
  <2>2. EvTo("Failed") => evSlac' = "Failed"
    BY Zenon DEF EvTo
  <2>3. CASE evSlac = "awaitSetKey" /\ last = k
    <3>1. evFresh = FALSE
      BY <1>1, <2>3 DEF EvTaken, KeyInv
    <3>2. EvLeaves(v, rest)
      BY <1>8, <2>2, <2>3, <3>1 DEF EvMoves, EvOutcome, EvEarly
    <3>3. Once(toEv, k) /\ Answers(toEv, evChip)
      BY <1>1, <2>3, <3>1 DEF KeyInv
    <3>4. ~Has(rest, k) /\ (evChip = SeNmk \/ v.refused = TRUE)
      BY <1>1, <2>3, <3>3 DEF EvTaken
    <3> QED BY <1>4, <3>2, <3>4
  <2>4. CASE evSlac \in {"awaitSettleTime", "Matched"}
    <3>1. EvLeaves(v, rest)
      BY <2>4 DEF EvMoves, EvOutcome, EvEarly
    <3>2. ~Has(rest, k) /\ v.refused = evVals.refused
      BY <1>1, <2>4 DEF EvTaken, KeyInv
    <3> QED BY <1>1, <1>4, <2>4, <3>1, <3>2 DEF KeyInv
  <2> QED BY <2>1, <2>3, <2>4
<1> QED BY <1>6, <1>7, <1>8 DEF KeyInv

(* The two programs' states and the session. *)
LEMMA EvKeepsPlaces ==
    ASSUME SlacInv, NEW last, NEW v, NEW rest, EvMoves(last, v, rest)
    PROVE  EvPlaceInv' /\ SePlaceInv' /\ MacInv'
<1>1. /\ evOp \in EvOpStates /\ evSlac \in SlacStates /\ evFresh \in BOOLEAN
      /\ EvPlaceInv /\ SePlaceInv /\ MacInv
  BY DEF SlacInv, TypeInv, TypeOK, EvSlacTypeOK
<1>2. EvOpOutcome /\ seSlac' = seSlac /\ seOp' = seOp /\ seVals' = seVals /\ seMac' = seMac
  BY DEF EvMoves, seSlacVars
<1>3. EvPlaceInv'
  <2>1. \/ evSlac' = evSlac /\ (evSlac = "Matched" => evOp = "slac")
        \/ EvTimed /\ evSlac' = "Failed"
        \/ evSlac = "awaitGetSwVer" /\ evSlac' = "Idle"
        \/ evSlac = "Idle" /\ evOp = "slac" /\ evSlac' = "awaitEstablishing"
        \/ EvTimed /\ evSlac' \notin {"awaitGetSwVer", "Idle"}
        \/ evSlac \in {"Failed", "Matched"} /\ evOp # "slac" /\ evSlac' = "Idle"
    BY EvGoes DEF EvEarly, EvTimed
  <2>2. CASE evOp = "initialization"
    BY <1>1, <1>2, <2>1, <2>2 DEF EvPlaceInv, EvOpOutcome, EvTimed
  <2>3. CASE evOp \in {"plug", "outOfOperation"}
    BY <1>1, <1>2, <2>1, <2>3 DEF EvPlaceInv, EvOpOutcome, EvTimed
  <2>4. CASE evOp = "slac"
    BY <1>1, <1>2, <2>1, <2>4 DEF EvPlaceInv, EvOpOutcome, EvTimed
  <2>5. CASE evOp = "communication"
    BY <1>1, <1>2, <2>1, <2>5 DEF EvPlaceInv, EvOpOutcome, EvTimed
  <2> QED BY <1>1, <2>2, <2>3, <2>4, <2>5 DEF EvOpStates
<1>4. SePlaceInv'
  BY <1>1, <1>2 DEF SePlaceInv, EvOpOutcome
<1>5. MacInv'
  BY <1>1, <1>2 DEF MacInv
<1> QED BY <1>3, <1>4, <1>5

LEMMA EvKeepsInv ==
    ASSUME SlacInv, Ev
    PROVE  SlacInv' /\ (NetInv => NetInv')
<1>1. \E last, v, rest : EvMoves(last, v, rest)
  BY EvCycleMoves DEF Ev
<1>2. SlacInv'
  BY <1>1, EvKeepsTypes, EvKeepsPlaces DEF SlacInv
<1>3. NetInv => NetInv'
  BY <1>1, EvKeepsMatch, EvKeepsKeys DEF NetInv
<1> QED BY <1>2, <1>3

(* A vehicle's program starts again, with an empty socket: nothing of the  *)
(* earlier run is left there.  Nor is its request left in the station's,   *)
(* after a session or when the station has read all frames.                *)
LEMMA EvRestartKeepsInv ==
    ASSUME SlacInv, EvRestart
    PROVE  SlacInv' /\ (NetInv /\ ~(Quits /\ Prompt) => NetInv')
<1>1. TypeInv /\ EvPlaceInv /\ SePlaceInv /\ MacInv
  BY DEF SlacInv
<1>2. /\ evOp' = "initialization"
      /\ evSlac' = "awaitGetSwVer" /\ evFresh' = TRUE
      /\ evVals' = InitVals(EvNmk) /\ toEv' = <<>>
      /\ plugged' = plugged /\ toSe' = toSe /\ evChip' = evChip /\ seVals' = seVals
      /\ seSlac' = seSlac /\ seFresh' = seFresh /\ seOp' = seOp /\ slacReady' = slacReady
      /\ seMac' = seMac
  BY DEF EvRestart, seSlacVars
<1>3. \A m : ~Has(<<>>, m) /\ Once(<<>>, m)
  BY DEF Has, Once
<1>4. KeysFirst(<<>>)
  BY DEF KeysFirst
<1>5. <<>> \in Seq(EvFrames) /\ <<>> \in Seq(Frames)
  BY EmptySeq
<1>6. /\ session' \in {"none", "closed"}
      /\ session' = "closed" => session \in {"open", "closed"}
  <2>1. session' = IF EvIsoMayEnd THEN EvHangsUp ELSE session
    BY DEF EvRestart
  <2> QED BY <1>1, <2>1 DEF EvIsoMayEnd, EvHangsUp, TypeInv, TypeOK
<1>7. TypeInv'
  <2>1. EvNmk \in Keys
    BY DEF Keys
  <2>2. InitVals(EvNmk) \in Values
    BY <2>1, InitValsTyped
  <2>3. PlcTypeOK'
    BY <1>1, <1>2, <1>5, <2>2 DEF TypeInv, TypeOK, PlcTypeOK
  <2>4. evFresh' \in BOOLEAN
    BY <1>2
  <2>5. EvSlacTypeOK' /\ SeSlacTypeOK'
    BY <1>1, <1>2, <2>4 DEF TypeInv, TypeOK, EvSlacTypeOK, SeSlacTypeOK, SlacStates
  <2> QED BY <1>1, <1>2, <1>5, <1>6, <2>3, <2>5 DEF TypeInv, TypeOK, EvOpStates
<1>8. EvPlaceInv' /\ SePlaceInv' /\ MacInv'
  BY <1>1, <1>2, <1>6 DEF EvPlaceInv, SePlaceInv, MacInv
<1>9. ASSUME NetInv, ~(Quits /\ Prompt)
      PROVE  NetInv'
  <2>1. ~Has(toSe, "CM_SLAC_MATCH") /\ Once(toSe, "CM_SLAC_MATCH")
    <3>1. CASE evOp = "outOfOperation"
      BY <1>1, <1>9, <3>1 DEF NetInv, MatchInv, Waits, EvPlaceInv
    <3>2. CASE AllRead
      BY <1>9, <3>2 DEF NetInv, MatchInv, AllRead, Local, Has
    <3> QED BY <1>9, <3>1, <3>2 DEF EvRestart
  <2>2. MatchInv'
    BY <1>2, <1>3, <2>1 DEF MatchInv
  <2>3. KeyInv'
    BY <1>2, <1>4 DEF KeyInv
  <2> QED BY <2>2, <2>3 DEF NetInv
<1> QED BY <1>7, <1>8, <1>9 DEF SlacInv

-----------------------------------------------------------------------------
(* A cycle of the station, in the same way. *)

(* To the vehicle, but not the confirmation of the match. *)
SeSendsOther(v, rest) ==
    \/ SeLeaves(v, rest)
    \/ \E f \in EvFrames :
           f.msg \notin {"CM_SLAC_MATCH", "CM_SET_KEY"} /\ SeSends(f, v, rest)

SeMiddle == {"awaitStartAttenChar", "awaitSounding", "awaitAttenChar"}

SeOutcome(last, v, rest) ==
    \/ SeTimed /\ SeLeaves(v, rest) /\ SeTo("Failed")
    \/ /\ seSlac = "awaitGetSwVer"
       /\ SeLeaves(v, rest) \/ SeLeaves(v, Append(rest, SwVerCnf))
       /\ SeTo("awaitGetSwVer") \/ SeTo("Idle")
    \/ /\ seSlac = "Idle"
       /\ SeLeaves(v, rest) \/ (SeAsksKey(InitVals(SeNmk), rest) /\ toEv' = toEv)
       /\ SeTo("Idle") \/ (seOp = "slac" /\ SeTo("awaitEstablishing"))
    \/ /\ seSlac = "awaitEstablishing" /\ SeSendsOther(v, rest)
       /\ \/ SeTo("awaitEstablishing")
          \/ last = "CM_SLAC_PARAM" /\ SeTo("awaitStartAttenChar")
    \/ /\ seSlac \in SeMiddle /\ SeSendsOther(v, rest)
       /\ \E s \in SeMiddle \union {"awaitMatch"} : SeTo(s)
    \/ seSlac = "awaitMatch" /\ SeLeaves(v, rest) /\ SeTo("awaitMatch")
    \/ /\ seSlac = "awaitMatch" /\ last = "CM_SLAC_MATCH"
       /\ SeTransmits(MatchCnf(v.run), v) /\ SeAsksKey(v, rest) /\ SeTo("awaitSetKey")
    \/ /\ seSlac = "awaitSetKey" /\ SeLeaves(v, rest)
       /\ SeTo("awaitSetKey") \/ SeTo("awaitEstablishing") \/ SeTo("Matched")
    \/ /\ SeFinished /\ SeLeaves(v, rest)
       /\ SeTo(seSlac) \/ SeTo("Idle")

LEMMA SeOutcomes ==
    ASSUME TypeInv, NEW start, start => seOp = "slac", NEW last, NEW v \in Values, NEW rest,
           NEW tick, NEW late, SeOperate(start, last, v, rest, tick, late)
    PROVE  SeOutcome(last, v, rest)
<1>1. /\ ParamCnf(v.run) \in EvFrames /\ AttenInd(v.run) \in EvFrames
      /\ ParamCnf(v.run).msg \notin {"CM_SLAC_MATCH", "CM_SET_KEY"}
      /\ AttenInd(v.run).msg \notin {"CM_SLAC_MATCH", "CM_SET_KEY"}
  BY FramesMade, MessagesMade
<1>2. CASE late /\ SeTimed /\ SeTimesOut(v, rest)
  BY <1>2 DEF SeTimesOut, SeOutcome
<1>3. CASE SeAwaitGetSwVer(last, v, rest)
  <2>1. SeLeaves(v, rest) \/ SeLeaves(v, Append(rest, SwVerCnf))
    BY <1>3, Zenon DEF SeAwaitGetSwVer
  <2>2. seSlac = "awaitGetSwVer" /\ (SeTo("awaitGetSwVer") \/ SeTo("Idle"))
    BY <1>3, Zenon DEF SeAwaitGetSwVer, SeToIf
  <2> QED BY <2>1, <2>2 DEF SeOutcome
<1>4. CASE SeSlacIdle(start, v, rest)
  <2>1. SeLeaves(v, rest) \/ (SeAsksKey(InitVals(SeNmk), rest) /\ toEv' = toEv)
    BY <1>4, Zenon DEF SeSlacIdle
  <2>2. seSlac = "Idle" /\ (SeTo("Idle") \/ (start /\ SeTo("awaitEstablishing")))
    BY <1>4, Zenon DEF SeSlacIdle, SeToIf
  <2>3. SeTo("Idle") \/ (seOp = "slac" /\ SeTo("awaitEstablishing"))
    BY <2>2, Zenon
  <2> QED BY <2>1, <2>2, <2>3 DEF SeOutcome
<1>5. CASE SeAwaitEstablishing(last, v, rest)
  <2>1. SeSendsOther(v, rest)
    BY <1>1, <1>5 DEF SeAwaitEstablishing, SeSendsOther
  <2>2. /\ seSlac = "awaitEstablishing"
        /\ \/ SeTo("awaitEstablishing")
           \/ last = "CM_SLAC_PARAM" /\ SeTo("awaitStartAttenChar")
    BY <1>5, Zenon DEF SeAwaitEstablishing, SeToIf
  <2> QED BY <2>1, <2>2 DEF SeOutcome
<1>6. CASE SeAwaitStartAttenChar(last, v, rest)
  <2>1. /\ seSlac = "awaitStartAttenChar" /\ SeLeaves(v, rest)
        /\ SeTo("awaitStartAttenChar") \/ SeTo("awaitSounding")
    BY <1>6, Zenon DEF SeAwaitStartAttenChar, SeToIf
  <2> QED BY <2>1 DEF SeOutcome, SeSendsOther, SeMiddle
<1>7. CASE SeAwaitSounding(v, rest, tick)
  <2>1. SeSends(AttenInd(v.run), v, rest) \/ SeLeaves(v, rest)
    BY <1>7, Zenon DEF SeAwaitSounding
  <2>2. seSlac = "awaitSounding" /\ (SeTo("awaitSounding") \/ SeTo("awaitAttenChar"))
    BY <1>7, Zenon DEF SeAwaitSounding, SeToIf
  <2> QED BY <1>1, <2>1, <2>2 DEF SeOutcome, SeSendsOther, SeMiddle
<1>8. CASE SeAwaitAttenChar(last, v, rest)
  <2>1. /\ seSlac = "awaitAttenChar" /\ SeLeaves(v, rest)
        /\ SeTo("awaitAttenChar") \/ SeTo("awaitMatch")
    BY <1>8, Zenon DEF SeAwaitAttenChar, SeToIf
  <2> QED BY <2>1 DEF SeOutcome, SeSendsOther, SeMiddle
<1>9. CASE SeAwaitMatch(last, v, rest)
  <2>1. \/ /\ seSlac = "awaitMatch" /\ SeLeaves(v, rest) /\ SeTo("awaitMatch")
        \/ /\ seSlac = "awaitMatch" /\ last = "CM_SLAC_MATCH"
           /\ SeTransmits(MatchCnf(v.run), v) /\ SeAsksKey(v, rest) /\ SeTo("awaitSetKey")
    BY <1>9, Zenon DEF SeAwaitMatch, SeToIf
  <2> QED BY <2>1 DEF SeOutcome
<1>10. CASE SeAwaitSetKey(last, v, rest)
  <2>1. /\ seSlac = "awaitSetKey" /\ SeLeaves(v, rest)
        /\ SeTo("awaitSetKey") \/ SeTo("awaitEstablishing") \/ SeTo("Matched")
    BY <1>10, Zenon DEF SeAwaitSetKey, SeToIf
  <2> QED BY <2>1 DEF SeOutcome
<1>11. CASE SeFailedOrMatched(start, v, rest)
  <2>1. SeLeaves(v, rest) /\ (SeTo(seSlac) \/ SeTo("Idle"))
    BY <1>11, Zenon DEF SeFailedOrMatched, SeToIf
  <2>2. SeFinished
    BY <1>11 DEF SeFailedOrMatched, SeFinished
  <2> QED BY <2>1, <2>2 DEF SeOutcome
<1> QED
  BY <1>2, <1>3, <1>4, <1>5, <1>6, <1>7, <1>8, <1>9, <1>10, <1>11 DEF SeOperate

(* The operation state, the session and the address of the vehicle. *)
SeOpOutcome(v) ==
    /\ \/ /\ seOp' = "communication" /\ session' = session
          /\ SeFinished \/ seOp = "communication"
       \/ seOp' \in SeOpStates \ {"communication"} /\ seOp # "communication" /\ session' = session
       \/ /\ seOp' \in SeOpStates \ {"communication"} /\ seOp = "communication"
          /\ session' = SeHangsUp
    /\ slacReady' \in BOOLEAN
    /\ \/ SeFinished /\ seMac' = v.pev
       \/ ~SeFinished /\ seMac' = seMac

SeMoves(last, v, rest) ==
    /\ SeTaken(last, v, rest) /\ SeOutcome(last, v, rest) /\ SeOpOutcome(v)
    /\ UNCHANGED <<plugged, evChip, evVals, evSlacVars, evOp>>

LEMMA SeCycleMoves ==
    ASSUME SlacInv, NEW take, NEW tick, NEW late, NEW due, SeCycle(take, tick, late, due)
    PROVE  \E last, v, rest : SeMoves(last, v, rest)
<1> DEFINE in == Arrived(take, toSe, seVals)
           start == seOp = "slac" /\ ~SeReadyNow
<1>1. SeTaken(in.last, in.vals, in.rest)
  BY SeArrives DEF SlacInv
<1>2. /\ SeOperate(start, in.last, in.vals, in.rest, tick /\ Timeouts, late)
      /\ slacReady' = (SeFinished \/ SeReadyNow)
      /\ seMac' = IF SeFinished THEN in.vals.pev ELSE seMac
      /\ seOp' = SeOpNext(due)
      /\ session' = IF seOp = "communication" /\ seOp' # "communication"
                    THEN SeHangsUp ELSE session
      /\ UNCHANGED <<plugged, evChip, evVals, evSlacVars, evOp>>
  BY Zenon DEF SeCycle
<1>3. in.vals \in Values
  BY <1>1 DEF SeTaken
<1>4. start => seOp = "slac"
  OBVIOUS
<1> HIDE DEF in, start
<1>5. SeOutcome(in.last, in.vals, in.rest)
  BY <1>2, <1>3, <1>4, SeOutcomes DEF SlacInv
<1>6. SeOpOutcome(in.vals)
  <2>1. slacReady' \in BOOLEAN
    BY <1>2, Zenon
  <2>2. \/ SeFinished /\ seMac' = in.vals.pev
        \/ ~SeFinished /\ seMac' = seMac
    BY <1>2, Zenon
  <2>3. seOp \in SeOpStates
    BY DEF SlacInv, TypeInv, TypeOK
  <2>4. \/ seOp' = "communication" /\ (SeFinished \/ seOp = "communication")
        \/ seOp' \in SeOpStates \ {"communication"}
    <3>1. seOp' \in {"plug", "communication", "stateBtimer", "slac", seOp}
      BY <1>2, Zenon DEF SeOpNext
    <3>2. seOp' = "communication" => SeFinished \/ seOp = "communication"
      BY <1>2 DEF SeOpNext
    <3> QED BY <2>3, <3>1, <3>2 DEF SeOpStates
  <2>5. CASE seOp = "communication" /\ seOp' # "communication"
    BY <1>2, <2>1, <2>2, <2>4, <2>5 DEF SeOpOutcome
  <2>6. CASE ~(seOp = "communication" /\ seOp' # "communication")
    <3>1. session' = session
      BY <1>2, <2>6
    <3> QED BY <2>1, <2>2, <2>4, <2>6, <3>1 DEF SeOpOutcome
  <2> QED BY <2>5, <2>6
<1> QED BY <1>1, <1>2, <1>5, <1>6 DEF SeMoves

(* The state the station goes to. *)
LEMMA SeGoes ==
    ASSUME NEW last, NEW v, NEW rest, SeMoves(last, v, rest)
    PROVE  \/ seSlac' = seSlac
           \/ SeTimed /\ seSlac' = "Failed"
           \/ seSlac = "awaitGetSwVer" /\ seSlac' = "Idle"
           \/ seSlac = "Idle" /\ seOp = "slac" /\ seSlac' = "awaitEstablishing"
           \/ seSlac = "awaitEstablishing" /\ last = "CM_SLAC_PARAM"
                  /\ seSlac' = "awaitStartAttenChar"
           \/ seSlac \in SeMiddle /\ seSlac' \in SeMiddle \union {"awaitMatch"}
           \/ seSlac = "awaitMatch" /\ last = "CM_SLAC_MATCH" /\ seSlac' = "awaitSetKey"
           \/ seSlac = "awaitSetKey" /\ seSlac' \in {"awaitEstablishing", "Matched"}
           \/ SeFinished /\ seSlac' = "Idle"
<1>1. \A s : SeTo(s) => seSlac' = s
  BY DEF SeTo
<1>2. \/ SeTimed /\ SeTo("Failed")
      \/ seSlac = "awaitGetSwVer" /\ (SeTo("awaitGetSwVer") \/ SeTo("Idle"))
      \/ /\ seSlac = "Idle"
         /\ SeTo("Idle") \/ (seOp = "slac" /\ SeTo("awaitEstablishing"))
      \/ /\ seSlac = "awaitEstablishing"
         /\ \/ SeTo("awaitEstablishing")
            \/ last = "CM_SLAC_PARAM" /\ SeTo("awaitStartAttenChar")
      \/ seSlac \in SeMiddle /\ \E s \in SeMiddle \union {"awaitMatch"} : SeTo(s)
      \/ seSlac = "awaitMatch" /\ SeTo("awaitMatch")
      \/ seSlac = "awaitMatch" /\ last = "CM_SLAC_MATCH" /\ SeTo("awaitSetKey")
      \/ /\ seSlac = "awaitSetKey"
         /\ SeTo("awaitSetKey") \/ SeTo("awaitEstablishing") \/ SeTo("Matched")
      \/ SeFinished /\ (SeTo(seSlac) \/ SeTo("Idle"))
  BY Zenon DEF SeMoves, SeOutcome
<1> QED BY <1>1, <1>2 DEF SeMiddle

(* What the station puts into the two queues. *)
LEMMA SeQueues ==
    ASSUME SlacInv, NEW last, NEW v, NEW rest, SeMoves(last, v, rest)
    PROVE  /\ seVals' \in Values /\ (seVals' = v \/ seVals' = InitVals(SeNmk))
           /\ seVals' = v \/ (seSlac = "Idle")
           /\ \/ toSe' = rest
              \/ \E f \in SeFrames : f.msg # "CM_SLAC_MATCH" /\ toSe' = Append(rest, f)
           /\ \/ toEv' = toEv
              \/ \E f \in EvFrames :
                     /\ f.msg # "CM_SET_KEY" /\ toEv' = Append(toEv, f)
                     /\ f.msg = "CM_SLAC_MATCH" => last = "CM_SLAC_MATCH"
<1>1. v \in Values /\ SeNmk \in Keys
  BY DEF SeMoves, SeTaken, Keys
<1>2. InitVals(SeNmk) \in Values
  BY <1>1, InitValsTyped
<1>3. \A f : SeTransmits(f, v) => toEv' = toEv \/ toEv' = Append(toEv, f)
  <2> SUFFICES ASSUME NEW f, SeTransmits(f, v)
               PROVE  toEv' = toEv \/ toEv' = Append(toEv, f)
    OBVIOUS
  <2>1. toEv' = toEv \/ toEv' = Transmit(toEv, f)
    BY Zenon DEF SeTransmits
  <2> QED BY <2>1, Transmitted
<1>4. \A w, q : SeLeaves(w, q) => seVals' = w /\ toSe' = q /\ toEv' = toEv
  BY DEF SeLeaves
<1>5. \A w : SeAsksKey(w, rest) =>
         /\ seVals' = w
         /\ \E f \in SeFrames : f.msg # "CM_SLAC_MATCH" /\ toSe' = Append(rest, f)
  <2> SUFFICES ASSUME NEW w, SeAsksKey(w, rest)
               PROVE  /\ seVals' = w
                      /\ \E f \in SeFrames : f.msg # "CM_SLAC_MATCH" /\ toSe' = Append(rest, f)
    OBVIOUS
  <2>1. PICK ok \in ModemAnswers : seVals' = w /\ toSe' = Append(rest, SetKeyCnf(ok))
    BY DEF SeAsksKey
  <2>2. ok \in BOOLEAN
    BY SlacAssumption
  <2>3. SetKeyCnf(ok) \in SeFrames /\ SetKeyCnf(ok).msg # "CM_SLAC_MATCH"
    BY <1>1, <2>2, FramesMade, MessagesMade
  <2> QED BY <2>1, <2>3
<1>6. SwVerCnf \in SeFrames /\ SwVerCnf.msg # "CM_SLAC_MATCH"
  BY <1>1, FramesMade, MessagesMade
<1>7. MatchCnf(v.run) \in EvFrames /\ MatchCnf(v.run).msg = "CM_SLAC_MATCH"
  BY <1>1, FramesMade, MessagesMade
<1>8. SeSendsOther(v, rest) =>
        /\ seVals' = v /\ toSe' = rest
        /\ \/ toEv' = toEv
           \/ \E f \in EvFrames :
                  /\ f.msg \notin {"CM_SLAC_MATCH", "CM_SET_KEY"}
                  /\ toEv' = Append(toEv, f)
  BY <1>3, <1>4 DEF SeSendsOther, SeSends
<1>9. \/ SeLeaves(v, rest) \/ SeLeaves(v, Append(rest, SwVerCnf)) \/ SeSendsOther(v, rest)
      \/ seSlac = "Idle" /\ SeAsksKey(InitVals(SeNmk), rest) /\ toEv' = toEv
      \/ last = "CM_SLAC_MATCH" /\ SeTransmits(MatchCnf(v.run), v) /\ SeAsksKey(v, rest)
  BY Zenon DEF SeMoves, SeOutcome
<1>10. CASE SeLeaves(v, rest)
  BY <1>1, <1>4, <1>10
<1>11. CASE SeLeaves(v, Append(rest, SwVerCnf))
  <2>1. seVals' = v /\ toSe' = Append(rest, SwVerCnf) /\ toEv' = toEv
    BY <1>4, <1>11
  <2> QED BY <1>1, <1>6, <2>1
<1>12. CASE SeSendsOther(v, rest)
  BY <1>1, <1>8, <1>12
<1>13. CASE seSlac = "Idle" /\ SeAsksKey(InitVals(SeNmk), rest) /\ toEv' = toEv
  <2>1. seVals' = InitVals(SeNmk)
    BY <1>5, <1>13
  <2>2. \E f \in SeFrames : f.msg # "CM_SLAC_MATCH" /\ toSe' = Append(rest, f)
    BY <1>5, <1>13
  <2> QED BY <1>2, <1>13, <2>1, <2>2
<1>14. CASE last = "CM_SLAC_MATCH" /\ SeTransmits(MatchCnf(v.run), v) /\ SeAsksKey(v, rest)
  <2>1. toEv' = toEv \/ toEv' = Append(toEv, MatchCnf(v.run))
    BY <1>3, <1>14
  <2>2. seVals' = v /\ \E f \in SeFrames : f.msg # "CM_SLAC_MATCH" /\ toSe' = Append(rest, f)
    BY <1>5, <1>14
  <2>3. \/ toEv' = toEv
        \/ \E f \in EvFrames :
               /\ f.msg # "CM_SET_KEY" /\ toEv' = Append(toEv, f)
               /\ f.msg = "CM_SLAC_MATCH" => last = "CM_SLAC_MATCH"
    BY <1>7, <1>14, <2>1
  <2> QED BY <1>1, <2>2, <2>3
<1> QED BY <1>9, <1>10, <1>11, <1>12, <1>13, <1>14

LEMMA SeKeepsTypes ==
    ASSUME SlacInv, NEW last, NEW v, NEW rest, SeMoves(last, v, rest)
    PROVE  TypeInv'
<1>1. /\ TypeInv /\ v \in Values /\ rest \in Seq(SeFrames) /\ toEv \in Seq(EvFrames)
      /\ SeOpOutcome(v)
      /\ plugged' = plugged /\ evChip' = evChip /\ evVals' = evVals
      /\ evSlac' = evSlac /\ evFresh' = evFresh /\ evOp' = evOp
  BY DEF SlacInv, SeMoves, SeTaken, TypeInv, evSlacVars
<1>2. toEv' \in Seq(EvFrames)
  BY <1>1, SeQueues, AppendProperties
<1>3. toSe' \in Seq(SeFrames)
  BY <1>1, SeQueues, AppendProperties
<1>4. toEv' \in Seq(Frames) /\ toSe' \in Seq(Frames)
  BY <1>2, <1>3, FrameSubsets
<1>5. seVals' \in Values
  BY SeQueues
<1>6. SeSlacTypeOK'
  <2>1. seFresh' \in BOOLEAN
    <3>1. \E s : SeTo(s)
      BY Zenon DEF SeMoves, SeOutcome
    <3> QED BY <3>1, Zenon DEF SeTo
  <2>2. seSlac' \in SlacStates \ {"awaitSettleTime"}
    BY <1>1, SeGoes DEF TypeInv, TypeOK, SeSlacTypeOK, SlacStates, SeMiddle
  <2> QED BY <2>1, <2>2 DEF SeSlacTypeOK
<1>7. /\ seOp' \in SeOpStates /\ slacReady' \in BOOLEAN
      /\ session' \in {"none", "open", "closed", "lost"}
  BY <1>1 DEF SeOpOutcome, SeOpStates, SeHangsUp, TypeInv, TypeOK
<1>8. seMac' \in RunIds
  BY <1>1 DEF SeOpOutcome, Values, TypeInv, TypeOK
<1>9. plugged' \in BOOLEAN /\ evChip' \in Keys /\ evVals' \in Values /\ EvSlacTypeOK'
      /\ evOp' \in EvOpStates
  BY <1>1 DEF TypeInv, TypeOK, PlcTypeOK, EvSlacTypeOK
<1> QED
  BY <1>2, <1>3, <1>4, <1>5, <1>6, <1>7, <1>8, <1>9 DEF TypeInv, TypeOK, PlcTypeOK

(* The station takes the request away before it sends the confirmation.    *)
LEMMA SeKeepsMatch ==
    ASSUME SlacInv, NetInv, NEW last, NEW v, NEW rest, SeMoves(last, v, rest)
    PROVE  MatchInv' /\ KeyInv'
<1> DEFINE m == "CM_SLAC_MATCH"
           k == "CM_SET_KEY"
<1>1. /\ MatchInv /\ KeyInv /\ SeTaken(last, v, rest)
      /\ toEv \in Seq(EvFrames) /\ toEv \in Seq(Frames)
      /\ rest \in Seq(SeFrames) /\ rest \in Seq(Frames)
      /\ evChip' = evChip /\ evVals' = evVals
      /\ evSlac' = evSlac /\ evFresh' = evFresh
  BY FrameSubsets DEF SlacInv, NetInv, TypeInv, SeMoves, SeTaken, evSlacVars
<1>2. (Has(toSe', m) => Has(rest, m)) /\ Once(toSe', m)
  <2>1. Once(rest, m)
    BY <1>1 DEF SeTaken, MatchInv
  <2>2. ASSUME NEW f \in SeFrames, f.msg # m, toSe' = Append(rest, f)
        PROVE  (Has(toSe', m) => Has(rest, m)) /\ Once(toSe', m)
    <3>1. f \in Frames
      BY FrameSubsets
    <3>2. (Has(Append(rest, f), m) => Has(rest, m)) /\ Once(Append(rest, f), m)
      BY <1>1, <2>1, <2>2, <3>1, Appended
    <3> QED BY <2>2, <3>2
  <2> QED BY <2>1, <2>2, SeQueues
<1>3. last = m => Has(toSe, m) /\ ~Has(toEv, m) /\ ~Has(toSe', m)
  BY <1>1, <1>2 DEF SeTaken, MatchInv
<1>4. /\ Has(toEv', m) => Has(toEv, m) \/ last = m
      /\ Once(toEv', m)
      /\ KeysFirst(toEv')
      /\ Has(toEv', k) => Has(toEv, k)
      /\ Once(toEv, k) => Once(toEv', k)
      /\ Answers(toEv, evChip) => Answers(toEv', evChip)
  <2>1. CASE toEv' = toEv
    BY <1>1, <2>1 DEF MatchInv, KeyInv
  <2>2. ASSUME NEW f \in EvFrames, f.msg # k, f.msg = m => last = m,
               toEv' = Append(toEv, f)
        PROVE  /\ Has(toEv', m) => Has(toEv, m) \/ last = m
               /\ Once(toEv', m)
               /\ KeysFirst(toEv')
               /\ Has(toEv', k) => Has(toEv, k)
               /\ Once(toEv, k) => Once(toEv', k)
               /\ Answers(toEv, evChip) => Answers(toEv', evChip)
    <3> DEFINE r == Append(toEv, f)
    <3>1. f \in Frames
      BY FrameSubsets
    <3>2. Has(r, m) => Has(toEv, m) \/ last = m
      BY <1>1, <2>2, <3>1, Appended
    <3>3. Once(r, m)
      BY <1>1, <1>3, <2>2, <3>1, Appended DEF MatchInv
    <3>4. (Has(r, k) => Has(toEv, k)) /\ (Once(toEv, k) => Once(r, k))
      BY <1>1, <2>2, <3>1, Appended
    <3>5. KeysFirst(r) /\ (Answers(toEv, evChip) => Answers(r, evChip))
      BY <1>1, <2>2, <3>1, AppendedKeys DEF KeyInv
    <3> HIDE DEF r
    <3> QED BY <2>2, <3>2, <3>3, <3>4, <3>5 DEF r
  <2> QED BY <2>1, <2>2, SeQueues
<1>5. MatchInv'
  <2>1. Has(toSe', m) => Has(toSe, m)
    BY <1>1, <1>2 DEF SeTaken
  <2>2. Waits' <=> Waits
    BY <1>1 DEF Waits
  <2> QED BY <1>1, <1>2, <1>3, <1>4, <2>1, <2>2 DEF MatchInv
<1>6. KeyInv'
  BY <1>1, <1>4 DEF KeyInv
<1> QED BY <1>5, <1>6

LEMMA SeKeepsPlaces ==
    ASSUME SlacInv, NEW last, NEW v, NEW rest, SeMoves(last, v, rest)
    PROVE  EvPlaceInv' /\ SePlaceInv' /\ MacInv'
<1>1. /\ EvPlaceInv /\ SePlaceInv /\ MacInv
      /\ SeTaken(last, v, rest) /\ SeOpOutcome(v)
      /\ evSlac' = evSlac /\ evFresh' = evFresh /\ evOp' = evOp
      /\ evOp \in EvOpStates /\ session \in {"none", "open", "closed", "lost"}
  BY DEF SlacInv, TypeInv, TypeOK, SeMoves, evSlacVars
<1>2. EvPlaceInv'
  BY <1>1 DEF EvPlaceInv
<1>3. /\ session' \in {"open", "lost"} => session \in {"open", "lost"}
      /\ session' \in {"open", "closed"} => session' = session
      /\ session' = session \/ session' = SeHangsUp
  BY <1>1 DEF SeOpOutcome, SeHangsUp
<1>4. SePlaceInv'
  <2>1. seOp' = "communication" => seSlac' \in {"Matched", "Failed", "Idle"}
    <3>1. seOp' = "communication" => SeFinished \/ seOp = "communication"
      BY <1>1 DEF SeOpOutcome
    <3>2. SeFinished => seSlac' \in {"Matched", "Failed", "Idle"}
      BY SeGoes DEF SeFinished, SeTimed, SeMiddle
    <3>3. seOp = "communication" => seSlac' \in {"Matched", "Failed", "Idle"}
      BY <1>1, SeGoes DEF SePlaceInv, SeFinished, SeTimed, SeMiddle
    <3> QED BY <3>1, <3>2, <3>3
  <2>2. session' \in {"open", "lost"} => evOp' = "communication"
    BY <1>1, <1>3 DEF SePlaceInv
  <2>3. session' \in {"open", "closed"} => seOp' = "communication"
    BY <1>1 DEF SePlaceInv, SeOpOutcome, SeHangsUp
  <2> QED BY <2>1, <2>2, <2>3 DEF SePlaceInv
<1>5. MacInv'
  <2> DEFINE early == {"awaitGetSwVer", "Idle", "awaitEstablishing"}
  <2>1. seSlac' \notin early => seVals'.pev # "none"
    <3>1. seSlac' \notin early => seSlac \notin early \/ last = "CM_SLAC_PARAM"
      BY SeGoes DEF SeMiddle, SeTimed, SeFinished
    <3>2. seSlac' \notin early => seVals' = v
      BY SeQueues, SeGoes DEF SeMiddle, SeTimed, SeFinished
    <3> QED BY <1>1, <3>1, <3>2 DEF MacInv, SeTaken
  <2>2. seOp' = "communication" => seMac' # "none"
    <3>1. CASE SeFinished
      BY <1>1, <3>1 DEF MacInv, SeTaken, SeOpOutcome, SeFinished
    <3>2. CASE ~SeFinished
      BY <1>1, <3>2 DEF MacInv, SeOpOutcome
    <3> QED BY <3>1, <3>2
  <2> QED BY <2>1, <2>2 DEF MacInv
<1> QED BY <1>2, <1>4, <1>5

LEMMA SeKeepsInv ==
    ASSUME SlacInv, Se
    PROVE  SlacInv' /\ (NetInv => NetInv')
<1>1. \E last, v, rest : SeMoves(last, v, rest)
  BY SeCycleMoves DEF Se
<1>2. SlacInv'
  BY <1>1, SeKeepsTypes, SeKeepsPlaces DEF SlacInv
<1>3. NetInv => NetInv'
  BY <1>1, SeKeepsMatch DEF NetInv
<1> QED BY <1>2, <1>3

-----------------------------------------------------------------------------
(* The medium.  A frame that is lost was the first of its queue, one that  *)
(* is overheard is neither part of a match nor from a modem.               *)
QueueKept(q, r, S) ==
    \/ r = q
    \/ q # <<>> /\ r = Tail(q)
    \/ \E f \in S : f.msg \notin {"CM_SLAC_MATCH", "CM_SET_KEY"} /\ r = Append(q, f)

LEMMA QueueKeeps ==
    ASSUME NEW S, S \subseteq Frames, NEW q \in Seq(S), q \in Seq(Frames), NEW r,
           QueueKept(q, r, S)
    PROVE  /\ r \in Seq(S)
           /\ \A m \in {"CM_SLAC_MATCH", "CM_SET_KEY"} :
                  (Has(r, m) => Has(q, m)) /\ (Once(q, m) => Once(r, m))
           /\ KeysFirst(q) => KeysFirst(r)
           /\ \A c : Answers(q, c) => Answers(r, c)
<1>1. CASE r = q
  BY <1>1
<1>2. CASE q # <<>> /\ r = Tail(q)
  <2>1. r \in Seq(S)
    BY <1>2, HeadTailProperties
  <2>2. \A m : (Has(r, m) => Has(q, m)) /\ (Once(q, m) => Once(r, m))
    BY <1>2, Shortened
  <2>3. (KeysFirst(q) => KeysFirst(r)) /\ \A c : Answers(q, c) => Answers(r, c)
    BY <1>2, ShortenedKeys
  <2> QED BY <2>1, <2>2, <2>3
<1>3. ASSUME NEW f \in S, f.msg \notin {"CM_SLAC_MATCH", "CM_SET_KEY"}, r = Append(q, f)
      PROVE  /\ r \in Seq(S)
             /\ \A m \in {"CM_SLAC_MATCH", "CM_SET_KEY"} :
                    (Has(r, m) => Has(q, m)) /\ (Once(q, m) => Once(r, m))
             /\ KeysFirst(q) => KeysFirst(r)
             /\ \A c : Answers(q, c) => Answers(r, c)
  <2>1. f \in Frames
    OBVIOUS
  <2>2. r \in Seq(S)
    BY <1>3, AppendProperties
  <2>3. \A m \in {"CM_SLAC_MATCH", "CM_SET_KEY"} :
           (Has(r, m) => Has(q, m)) /\ (Once(q, m) => Once(r, m))
    BY <1>3, <2>1, Appended
  <2>4. (KeysFirst(q) => KeysFirst(r)) /\ \A c : Answers(q, c) => Answers(r, c)
    BY <1>3, <2>1, AppendedKeys
  <2> QED BY <2>2, <2>3, <2>4
<1> QED BY <1>1, <1>2, <1>3 DEF QueueKept

LEMMA MediumKeepsInv ==
    ASSUME SlacInv, QueueKept(toEv, toEv', EvFrames), QueueKept(toSe, toSe', SeFrames),
           plugged' \in BOOLEAN,
           UNCHANGED <<evChip, evVals, seVals, evSlacVars, seSlacVars, opVars>>
    PROVE  SlacInv' /\ (NetInv => NetInv')
<1> DEFINE m == "CM_SLAC_MATCH"
           k == "CM_SET_KEY"
<1>1. /\ evChip' = evChip /\ evVals' = evVals /\ seVals' = seVals
      /\ evSlac' = evSlac /\ evFresh' = evFresh /\ seSlac' = seSlac /\ seFresh' = seFresh
      /\ evOp' = evOp /\ seOp' = seOp /\ slacReady' = slacReady /\ seMac' = seMac
      /\ session' = session
  BY DEF evSlacVars, seSlacVars, opVars
<1>2. /\ toEv \in Seq(EvFrames) /\ toEv \in Seq(Frames)
      /\ toSe \in Seq(SeFrames) /\ toSe \in Seq(Frames)
  BY FrameSubsets DEF SlacInv, TypeInv
<1>3. /\ toEv' \in Seq(EvFrames)
      /\ (Has(toEv', m) => Has(toEv, m)) /\ (Once(toEv, m) => Once(toEv', m))
      /\ (Has(toEv', k) => Has(toEv, k)) /\ (Once(toEv, k) => Once(toEv', k))
      /\ KeysFirst(toEv) => KeysFirst(toEv')
      /\ Answers(toEv, evChip) => Answers(toEv', evChip)
  BY <1>2, FrameSubsets, QueueKeeps
<1>4. /\ toSe' \in Seq(SeFrames)
      /\ (Has(toSe', m) => Has(toSe, m)) /\ (Once(toSe, m) => Once(toSe', m))
  BY <1>2, FrameSubsets, QueueKeeps
<1>5. TypeInv'
  <2>1. toEv' \in Seq(Frames) /\ toSe' \in Seq(Frames)
    BY <1>3, <1>4, FrameSubsets
  <2> QED
    BY <1>1, <1>3, <1>4, <2>1
    DEF SlacInv, TypeInv, TypeOK, PlcTypeOK, EvSlacTypeOK, SeSlacTypeOK
<1>6. MatchInv => MatchInv'
  BY <1>1, <1>3, <1>4 DEF MatchInv, Waits
<1>7. KeyInv => KeyInv'
  BY <1>1, <1>3 DEF KeyInv
<1>8. EvPlaceInv' /\ SePlaceInv' /\ MacInv'
  BY <1>1 DEF SlacInv, EvPlaceInv, SePlaceInv, MacInv
<1> QED BY <1>5, <1>6, <1>7, <1>8 DEF SlacInv, NetInv

LEMMA LoseKeepsInv ==
    ASSUME SlacInv, Lose
    PROVE  SlacInv' /\ (NetInv => NetInv')
<1>1. plugged \in BOOLEAN
  BY DEF SlacInv, TypeInv, TypeOK, PlcTypeOK
<1>2. /\ QueueKept(toEv, toEv', EvFrames) /\ QueueKept(toSe, toSe', SeFrames)
      /\ UNCHANGED <<plugged, evChip, evVals, seVals, evSlacVars, seSlacVars, opVars>>
  BY DEF Lose, LoseToEv, LoseToSe, QueueKept
<1> QED BY <1>1, <1>2, MediumKeepsInv

LEMMA CrosstalkKeepsInv ==
    ASSUME SlacInv, Crosstalk
    PROVE  SlacInv' /\ (NetInv => NetInv')
<1>1. plugged \in BOOLEAN
  BY DEF SlacInv, TypeInv, TypeOK, PlcTypeOK
<1>2. PICK o \in Others :
          /\ \/ /\ toEv' = Carry(toEv, ParamReq(o))
                /\ toSe' = Carry(toSe, ParamReq(o))
             \/ /\ \E f \in {StartAttenInd(o), [ProfileInd EXCEPT !.run = o], AttenRsp(o)} :
                       toSe' = Append(toSe, f)
                /\ UNCHANGED toEv
          /\ UNCHANGED <<plugged, evChip, evVals, seVals>>
  BY DEF Crosstalk, Overhear
<1>3. o \in RunIds /\ o # "none" /\ TRUE \in BOOLEAN
  BY SlacAssumption DEF RunIds, Vehicles
<1>4. ParamReq(o) \in EvFrames /\ ParamReq(o) \in SeFrames /\ ParamReq(o).msg = "CM_SLAC_PARAM"
  BY <1>3 DEF ParamReq, Frame, EvFrames, SeFrames, Frames
<1>5. /\ StartAttenInd(o) \in SeFrames /\ StartAttenInd(o).msg = "CM_START_ATTEN_CHAR"
      /\ AttenRsp(o) \in SeFrames /\ AttenRsp(o).msg = "CM_ATTEN_CHAR"
  <2>1. StartAttenInd(o) \in SeFrames /\ StartAttenInd(o).msg = "CM_START_ATTEN_CHAR"
    BY <1>3 DEF StartAttenInd, Frame, SeFrames, Frames
  <2>2. AttenRsp(o) \in SeFrames /\ AttenRsp(o).msg = "CM_ATTEN_CHAR"
    BY <1>3 DEF AttenRsp, Frame, SeFrames, Frames
  <2> QED BY <2>1, <2>2
<1>6. /\ [ProfileInd EXCEPT !.run = o] \in SeFrames
      /\ [ProfileInd EXCEPT !.run = o].msg = "CM_ATTEN_PROFILE"
  BY <1>3 DEF ProfileInd, Frame, SeFrames, Frames
<1>7. \A q, f : Carry(q, f) = q \/ Carry(q, f) = Append(q, f)
  BY Zenon DEF Carry
<1>8. QueueKept(toEv, toEv', EvFrames) /\ QueueKept(toSe, toSe', SeFrames)
  <2>1. CASE toEv' = Carry(toEv, ParamReq(o)) /\ toSe' = Carry(toSe, ParamReq(o))
    BY <1>4, <1>7, <2>1 DEF QueueKept
  <2>2. ASSUME NEW f \in {StartAttenInd(o), [ProfileInd EXCEPT !.run = o], AttenRsp(o)},
               toSe' = Append(toSe, f), toEv' = toEv
        PROVE  QueueKept(toEv, toEv', EvFrames) /\ QueueKept(toSe, toSe', SeFrames)
    <3>1. f \in SeFrames /\ f.msg \notin {"CM_SLAC_MATCH", "CM_SET_KEY"}
      BY <1>5, <1>6
    <3> QED BY <2>2, <3>1 DEF QueueKept
  <2> QED BY <1>2, <2>1, <2>2
<1> QED BY <1>1, <1>2, <1>8, MediumKeepsInv DEF Crosstalk

-----------------------------------------------------------------------------
LEMMA SlacInvInit == Init => SlacInv /\ NetInv
<1> SUFFICES ASSUME Init PROVE SlacInv /\ NetInv
  OBVIOUS
<1> USE DEF Init, PlcInit, EvSlacInit, SeSlacInit
<1>1. toEv = <<>> /\ toSe = <<>> /\ Len(<<>>) = 0
  OBVIOUS
<1>2. <<>> \in Seq(EvFrames) /\ <<>> \in Seq(SeFrames) /\ <<>> \in Seq(Frames)
  BY EmptySeq
<1>3. EvNmk \in Keys /\ SeNmk \in Keys
  BY DEF Keys
<1>4. InitVals(EvNmk) \in Values /\ InitVals(SeNmk) \in Values
  BY <1>3, InitValsTyped
<1>5. evFresh \in BOOLEAN /\ seFresh \in BOOLEAN /\ slacReady \in BOOLEAN
  BY Zenon
<1>6. PlcTypeOK
  BY <1>2, <1>4 DEF PlcTypeOK
<1>7. TypeInv
  BY <1>2, <1>5, <1>6
  DEF TypeInv, TypeOK, EvSlacTypeOK, SeSlacTypeOK, SlacStates, EvOpStates, SeOpStates,
      RunIds
<1>8. MatchInv
  BY <1>1 DEF MatchInv, Has, Once
<1>9. KeyInv
  BY <1>1 DEF KeyInv, KeysFirst
<1>10. EvPlaceInv /\ SePlaceInv /\ MacInv
  BY DEF EvPlaceInv, SePlaceInv, MacInv
<1> QED BY <1>7, <1>8, <1>9, <1>10 DEF SlacInv, NetInv

LEMMA SlacInvStep ==
    ASSUME SlacInv, [Next]_vars
    PROVE  SlacInv' /\ (NetInv /\ ~(Quits /\ Prompt) => NetInv')
<1>1. CASE Ev
  BY <1>1, EvKeepsInv
<1>2. CASE EvRestart
  BY <1>2, EvRestartKeepsInv
<1>3. CASE Se
  BY <1>3, SeKeepsInv
<1>4. CASE SeReset
  <2>1. /\ seOp' = "plug"
        /\ session' \in {session, SeHangsUp}
        /\ seOp = "communication" => session' = SeHangsUp
        /\ seOp # "communication" => session' = session
        /\ UNCHANGED <<plcVars, evSlacVars, seSlacVars, evOp, slacReady, seMac>>
    BY <1>4 DEF SeReset
  <2>2. /\ session' \in {"open", "lost"} => session \in {"open", "lost"}
        /\ session' \notin {"open", "closed"}
        /\ session' \in {"none", "open", "closed", "lost"}
    BY <2>1 DEF SlacInv, TypeInv, TypeOK, SePlaceInv, SeHangsUp
  <2>3. TypeInv'
    BY <2>1, <2>2
    DEF SlacInv, TypeInv, TypeOK, PlcTypeOK, EvSlacTypeOK, SeSlacTypeOK, SeOpStates,
        plcVars, evSlacVars, seSlacVars
  <2>4. NetInv => NetInv'
    BY <2>1 DEF NetInv, MatchInv, KeyInv, Waits, plcVars, evSlacVars
  <2>5. EvPlaceInv' /\ SePlaceInv' /\ MacInv'
    BY <2>1, <2>2
    DEF SlacInv, EvPlaceInv, SePlaceInv, MacInv, plcVars, evSlacVars, seSlacVars
  <2> QED BY <2>3, <2>4, <2>5 DEF SlacInv
<1>5. CASE Plug \/ Unplug
  <2>1. /\ plugged' \in BOOLEAN /\ toEv' = toEv /\ toSe' = toSe
        /\ UNCHANGED <<evChip, evVals, seVals, evSlacVars, seSlacVars, opVars>>
    BY <1>5, Zenon DEF Plug, Unplug
  <2> QED BY <2>1, MediumKeepsInv DEF QueueKept
<1>6. CASE Lose
  BY <1>6, LoseKeepsInv
<1>7. CASE Crosstalk
  BY <1>7, CrosstalkKeepsInv
<1>8. CASE Connect
  <2>1. /\ session' = "open" /\ evOp = "communication" /\ seOp = "communication"
        /\ UNCHANGED <<plcVars, evSlacVars, seSlacVars, evOp, seOp, slacReady, seMac>>
    BY <1>8 DEF Connect
  <2>2. TypeInv'
    BY <2>1
    DEF SlacInv, TypeInv, TypeOK, PlcTypeOK, EvSlacTypeOK, SeSlacTypeOK, plcVars,
        evSlacVars, seSlacVars
  <2>3. NetInv => NetInv'
    BY <2>1 DEF NetInv, MatchInv, KeyInv, Waits, plcVars, evSlacVars
  <2>4. EvPlaceInv' /\ SePlaceInv' /\ MacInv'
    BY <2>1
    DEF SlacInv, EvPlaceInv, SePlaceInv, MacInv, plcVars, evSlacVars, seSlacVars
  <2> QED BY <2>2, <2>3, <2>4 DEF SlacInv
<1>9. CASE UNCHANGED vars
  BY <1>9
  DEF vars, plcVars, evSlacVars, seSlacVars, opVars, SlacInv, TypeInv, TypeOK, PlcTypeOK,
      EvSlacTypeOK, SeSlacTypeOK, NetInv, MatchInv, KeyInv, EvPlaceInv, SePlaceInv, MacInv,
      Waits
<1> QED BY <1>1, <1>2, <1>3, <1>4, <1>5, <1>6, <1>7, <1>8, <1>9 DEF Next

(* The two SLAC processes are where the operation states expect them and   *)
(* the address of the vehicle is there when it is needed, for any keys,    *)
(* any number of sounds, any other vehicles, with and without losses,      *)
(* timeouts and a modem that refuses keys, and however often and at        *)
(* whatever moment the vehicle's program is quit and started again.        *)
THEOREM SlacInvariant == Spec => []SlacInv
<1>1. Init => SlacInv
  BY SlacInvInit
<1>2. SlacInv /\ [Next]_vars => SlacInv'
  BY SlacInvStep
<1> QED BY <1>1, <1>2, PTL DEF Spec

(* Type correctness: no value the two SLAC processes store or send leaves  *)
(* what the other side knows, and the station never waits for the settle   *)
(* time.                                                                   *)
THEOREM SlacTypeCorrect == Spec => []TypeOK
<1>1. SlacInv => TypeOK
  BY DEF SlacInv, TypeInv
<1> QED BY <1>1, SlacInvariant, PTL

(* mainSECC never hands an empty MAC address to the ISO stack, and with no *)
(* other vehicle in earshot it is that of the vehicle at the cable.        *)
THEOREM AddressKnown == Spec => []MacKnown
<1>1. SlacInv => MacKnown
  BY DEF SlacInv, TypeInv, TypeOK, MacInv, MacKnown, RunIds, Vehicles
<1> QED BY <1>1, SlacInvariant, PTL

(* The ISO session of two programs is never disturbed by a matching of     *)
(* either of them, whichever of them was reset or quit and started before. *)
THEOREM AlwaysSessionUndisturbed == Spec => []SessionUndisturbed
<1>1. SlacInv => SessionUndisturbed
  BY DEF SlacInv, EvPlaceInv, SePlaceInv, SessionUndisturbed
<1> QED BY <1>1, SlacInvariant, PTL

(* Unless a vehicle's program that was quit in the middle of a matching is *)
(* back before the station has read its frames, there is one request for a *)
(* match, or its confirmation, under way for the run of the program that   *)
(* is going on, and the answer the vehicle takes for the station's key is  *)
(* the one to that key.                                                    *)
THEOREM MatchInvariant ==
    ASSUME ~(Quits /\ Prompt)
    PROVE  Spec => [](SlacInv /\ NetInv)
<1>1. Init => SlacInv /\ NetInv
  BY SlacInvInit
<1>2. SlacInv /\ NetInv /\ [Next]_vars => (SlacInv /\ NetInv)'
  BY SlacInvStep
<1> QED BY <1>1, <1>2, PTL DEF Spec

(* A vehicle that waits for the settle time or is matched is in the        *)
(* network of the station, or its own modem has refused the key.           *)
THEOREM MatchedInNetwork ==
    ASSUME ~(Quits /\ Prompt)
    PROVE  Spec => []KeyAgreed
<1>1. NetInv => KeyAgreed
  <2> SUFFICES ASSUME NetInv, evSlac \in {"awaitSettleTime", "Matched"}
               PROVE  evChip = SeNmk \/ evVals.refused
    BY DEF KeyAgreed
  <2>1. evChip = SeNmk \/ evVals.refused = TRUE
    BY DEF NetInv, KeyInv
  <2> QED BY <2>1, Zenon
<1> QED BY <1>1, MatchInvariant, PTL

-----------------------------------------------------------------------------
(***************************************************************************)
(* The process without faults.  With the cable left alone and no frame     *)
(* lost, late or overheard, vehicle and station go through the process     *)
(* together: what is on its way between them is exactly what the one has   *)
(* sent and the other has yet to take.                                     *)
(***************************************************************************)
NoFaults == ~Lossy /\ ~Replugs /\ ~Quits /\ ~Timeouts /\ Others = {}

(* What a vehicle sends to its station from CM_START_ATTEN_CHAR.IND on.    *)
Script(k) ==
    IF k = 1 THEN StartAttenInd("ev")
    ELSE IF k <= NumSounds + 1 THEN ProfileInd
    ELSE IF k = NumSounds + 2 THEN AttenRsp("ev")
    ELSE MatchReq("ev")

(* How much of it the vehicle has sent and the station has taken.          *)
Sent ==
    IF evSlac = "awaitSounding"
    THEN IF evFresh = TRUE THEN 1 ELSE NumSounds + 1 - evVals.sounds
    ELSE IF evSlac = "awaitAttenChar" THEN NumSounds + 1
    ELSE IF evSlac = "awaitMatch" THEN IF evFresh = TRUE THEN NumSounds + 2 ELSE NumSounds + 3
    ELSE 0

Got ==
    IF seSlac = "awaitSounding" THEN 1 + seVals.sounds
    ELSE IF seSlac = "awaitAttenChar" THEN NumSounds + 1
    ELSE IF seSlac = "awaitMatch" THEN NumSounds + 2
    ELSE 0

LocalOnly(q) == \A i \in 1..Len(q) : Local(q[i])

Early(f)     == Local(f) \/ f = ParamReq("ev")
EarlyOnly(q) == \A i \in 1..Len(q) : Early(q[i])

(* Repeated parameter requests, then the script from got to sent.          *)
UnderWay(q, got, sent, n) ==
    /\ n \in 0..Len(q) /\ Len(q) = n + (sent - got) /\ got <= sent
    /\ got > 0 => n = 0
    /\ \A i \in 1..n : Early(q[i])
    /\ \A i \in 1..(sent - got) : q[n + i] = Script(got + i)

Follow(q, got, sent) == \E n \in 0..Len(q) : UnderWay(q, got, sent, n)

(* One frame of the station, behind or ahead of what the modem confirms.   *)
OneReply(q, f) ==
    \E k \in 1..Len(q) : q[k] = f /\ \A i \in 1..Len(q) : i # k => Local(q[i])

(* No run of the process joins the two: the vehicle has not been answered  *)
(* yet, or its session is over, which the station may not know yet.        *)
Apart ==
    /\ seSlac \in {"awaitGetSwVer", "Idle", "awaitEstablishing", "Matched"}
    /\ seSlac = "awaitEstablishing" => seOp = "slac"
    /\ seSlac = "Matched" => seOp = "communication"
    /\ seSlac = "awaitEstablishing" \/ (seSlac = "Idle" /\ seFresh = FALSE) => seVals.sounds = 0
    /\ evSlac \in {"awaitGetSwVer", "Idle", "awaitEstablishing"} /\ evOp # "communication"
    /\ session = IF seOp = "communication" THEN "closed" ELSE "none"
    /\ EarlyOnly(toSe) /\ LocalOnly(toEv)
    /\ evSlac = "awaitEstablishing" \/ LocalOnly(toSe)

(* The station has answered the vehicle's request.                         *)
Joined ==
    /\ seSlac \in {"awaitStartAttenChar", "awaitSounding", "awaitAttenChar", "awaitMatch"}
    /\ seSlac = "awaitStartAttenChar" => seVals.sounds = 0
    /\ seSlac = "awaitSounding" => seVals.sounds < NumSounds
    /\ seOp = "slac" /\ session = "none"
    /\ seVals.run = "ev" /\ seVals.pev = "ev"
    /\ evSlac \in EvEarly \union {"awaitMatch"} /\ evOp = "slac"
    /\ evSlac # "awaitEstablishing" => evVals.known = TRUE /\ evVals.run = "ev"
    /\ evSlac = "awaitSounding" /\ evFresh = FALSE => evVals.sounds \in 1..NumSounds
    /\ evSlac = "awaitMatch" => seSlac \in {"awaitAttenChar", "awaitMatch"}
    /\ Follow(toSe, Got, Sent)
    /\ IF evSlac = "awaitEstablishing" THEN OneReply(toEv, ParamCnf("ev"))
       ELSE IF evSlac = "awaitAttenChar" /\ seSlac = "awaitAttenChar"
       THEN OneReply(toEv, AttenInd("ev"))
       ELSE LocalOnly(toEv)

(* The station has confirmed the match of this vehicle, and they have or   *)
(* will have a session, if the station's modem accepts the key.            *)
Together ==
    /\ seSlac \in {"awaitSetKey", "awaitEstablishing"} => seOp = "slac"
    /\ seSlac \in {"awaitSetKey", "awaitEstablishing", "Matched", "Idle"}
    /\ seSlac = "Idle" => seOp = "communication"
    /\ seSlac = "Idle" /\ seFresh = FALSE => seVals.sounds = 0
    /\ seOp \in {"slac", "communication"}
    /\ session \in {"none", "open"}
    /\ \/ evSlac = "awaitMatch" /\ evFresh = FALSE /\ OneReply(toEv, MatchCnf("ev"))
       \/ evSlac \in {"awaitSetKey", "awaitSettleTime", "Matched"} /\ LocalOnly(toEv)
       \/ evSlac = "Idle" /\ evOp = "communication" /\ LocalOnly(toEv)
    /\ LocalOnly(toSe)

StepInv ==
    /\ seOp \in {"stateBtimer", "slac", "communication"} => plugged = TRUE
    /\ evSlac = "awaitEstablishing" /\ evFresh = FALSE => evVals.run = "ev"
    /\ Apart \/ Joined \/ Together

-----------------------------------------------------------------------------
(* Queues of the process without faults *)

LEMMA PutBehind ==
    ASSUME NEW q \in Seq(Frames), NEW f \in Frames
    PROVE  /\ Len(q) \in Nat /\ Len(Append(q, f)) = Len(q) + 1
           /\ \A i \in 1..Len(q) : Append(q, f)[i] = q[i]
           /\ Append(q, f)[Len(q) + 1] = f
           /\ \A i \in 1..Len(q) + 1 : i \in 1..Len(q) \/ i = Len(q) + 1
  BY AppendProperties, LenProperties

LEMMA TakenFrom ==
    ASSUME NEW q \in Seq(Frames), q # <<>>
    PROVE  /\ Len(q) \in Nat /\ Len(q) >= 1 /\ Len(Tail(q)) = Len(q) - 1
           /\ \A i \in 1..Len(q) - 1 : Tail(q)[i] = q[i + 1]
           /\ Head(q) = q[1]
  BY HeadTailProperties, EmptySeq, LenProperties

LEMMA PutLocal ==
    ASSUME NEW q \in Seq(Frames), NEW f \in Frames
    PROVE  /\ LocalOnly(q) /\ Local(f) => LocalOnly(Append(q, f))
           /\ EarlyOnly(q) /\ Early(f) => EarlyOnly(Append(q, f))
           /\ LocalOnly(q) => OneReply(Append(q, f), f) /\ EarlyOnly(q)
           /\ \A g : OneReply(q, g) /\ Local(f) => OneReply(Append(q, f), g)
<1> DEFINE r == Append(q, f)
<1>1. /\ Len(q) \in Nat /\ Len(r) = Len(q) + 1
      /\ \A i \in 1..Len(q) : r[i] = q[i]
      /\ r[Len(q) + 1] = f
      /\ \A i \in 1..Len(r) : i \in 1..Len(q) \/ i = Len(q) + 1
  BY PutBehind
<1> HIDE DEF r
<1>2. LocalOnly(q) /\ Local(f) => LocalOnly(r)
  BY <1>1 DEF LocalOnly
<1>3. EarlyOnly(q) /\ Early(f) => EarlyOnly(r)
  BY <1>1 DEF EarlyOnly
<1>4. LocalOnly(q) => OneReply(r, f) /\ EarlyOnly(q)
  BY <1>1 DEF LocalOnly, OneReply, EarlyOnly, Early
<1>5. ASSUME NEW g, OneReply(q, g), Local(f)
      PROVE  OneReply(r, g)
  <2>1. PICK k \in 1..Len(q) : q[k] = g /\ \A i \in 1..Len(q) : i # k => Local(q[i])
    BY <1>5 DEF OneReply
  <2>2. k \in 1..Len(r) /\ r[k] = g
    BY <1>1, <2>1
  <2>3. \A i \in 1..Len(r) : i # k => Local(r[i])
    BY <1>1, <1>5, <2>1
  <2> QED BY <2>2, <2>3 DEF OneReply
<1> QED BY <1>2, <1>3, <1>4, <1>5 DEF r

LEMMA TakeLocal ==
    ASSUME NEW q \in Seq(Frames), q # <<>>
    PROVE  /\ LocalOnly(q) => Local(Head(q)) /\ LocalOnly(Tail(q))
           /\ EarlyOnly(q) => Early(Head(q)) /\ EarlyOnly(Tail(q))
           /\ \A g : OneReply(q, g) => \/ Head(q) = g /\ LocalOnly(Tail(q))
                                       \/ Local(Head(q)) /\ OneReply(Tail(q), g)
<1> DEFINE r == Tail(q)
           h == Head(q)
<1>1. /\ Len(q) \in Nat /\ Len(q) >= 1 /\ Len(r) = Len(q) - 1
      /\ \A i \in 1..Len(r) : r[i] = q[i + 1] /\ i + 1 \in 1..Len(q) /\ i + 1 # 1
      /\ h = q[1] /\ 1 \in 1..Len(q)
  BY TakenFrom
<1> HIDE DEF r, h
<1>2. LocalOnly(q) => Local(h) /\ LocalOnly(r)
  BY <1>1 DEF LocalOnly
<1>3. EarlyOnly(q) => Early(h) /\ EarlyOnly(r)
  BY <1>1 DEF EarlyOnly
<1>4. ASSUME NEW g, OneReply(q, g)
      PROVE  (h = g /\ LocalOnly(r)) \/ (Local(h) /\ OneReply(r, g))
  <2>1. PICK k \in 1..Len(q) : q[k] = g /\ \A i \in 1..Len(q) : i # k => Local(q[i])
    BY <1>4 DEF OneReply
  <2>2. CASE k = 1
    <3>1. \A i \in 1..Len(r) : Local(r[i])
      BY <1>1, <2>1, <2>2
    <3> QED BY <1>1, <2>1, <2>2, <3>1 DEF LocalOnly
  <2>3. CASE k # 1
    <3>1. k - 1 \in 1..Len(r) /\ k - 1 + 1 = k
      BY <1>1, <2>3
    <3>2. r[k - 1] = g
      BY <1>1, <2>1, <3>1
    <3>3. \A i \in 1..Len(r) : i # k - 1 => i + 1 # k
      BY <1>1
    <3>4. \A i \in 1..Len(r) : i # k - 1 => Local(r[i])
      BY <1>1, <2>1, <3>3
    <3>5. Local(h)
      BY <1>1, <2>1, <2>3
    <3> QED BY <3>1, <3>2, <3>4, <3>5 DEF OneReply
  <2> QED BY <2>2, <2>3
<1> QED BY <1>2, <1>3, <1>4 DEF r, h

(* Requests before the script. *)
LEMMA FollowNone ==
    ASSUME NEW q \in Seq(Frames)
    PROVE  EarlyOnly(q) <=> Follow(q, 0, 0)
<1>1. Len(q) \in Nat
  BY LenProperties
<1>2. EarlyOnly(q) => UnderWay(q, 0, 0, Len(q)) /\ Len(q) \in 0..Len(q)
  BY <1>1 DEF EarlyOnly, UnderWay
<1>3. ASSUME NEW n \in 0..Len(q), UnderWay(q, 0, 0, n) PROVE EarlyOnly(q)
  <2>1. n = Len(q)
    BY <1>1, <1>3 DEF UnderWay
  <2> QED BY <1>3, <2>1 DEF EarlyOnly, UnderWay
<1> QED BY <1>2, <1>3 DEF Follow

(* The vehicle sends what comes next in the script. *)
LEMMA FollowPut ==
    ASSUME NEW q \in Seq(Frames), NEW got \in Nat, NEW sent \in Nat, Follow(q, got, sent),
           Script(sent + 1) \in Frames
    PROVE  Follow(Append(q, Script(sent + 1)), got, sent + 1)
<1> DEFINE r == Append(q, Script(sent + 1))
           k == sent - got
<1>1. /\ Len(q) \in Nat /\ Len(r) = Len(q) + 1
      /\ \A i \in 1..Len(q) : r[i] = q[i]
      /\ r[Len(q) + 1] = Script(sent + 1)
  BY PutBehind
<1>2. PICK n \in 0..Len(q) : UnderWay(q, got, sent, n)
  BY DEF Follow
<1>3. /\ got <= sent /\ Len(q) = n + k /\ k \in Nat /\ n \in Nat /\ (got > 0 => n = 0)
      /\ \A i \in 1..n : Early(q[i])
      /\ \A i \in 1..k : q[n + i] = Script(got + i)
  BY <1>2 DEF UnderWay
<1>4. sent + 1 - got = k + 1 /\ got + (k + 1) = sent + 1 /\ n + (k + 1) = Len(q) + 1
  BY <1>3
<1> HIDE DEF r, k
<1>5. \A i \in 1..n : Early(r[i])
  <2> SUFFICES ASSUME NEW i \in 1..n PROVE Early(r[i])
    OBVIOUS
  <2>1. i \in 1..Len(q)
    BY <1>3
  <2> QED BY <1>1, <1>3, <2>1
<1>6. \A i \in 1..k + 1 : r[n + i] = Script(got + i)
  <2> SUFFICES ASSUME NEW i \in 1..k + 1 PROVE r[n + i] = Script(got + i)
    OBVIOUS
  <2>1. CASE i = k + 1
    BY <1>1, <1>4, <2>1
  <2>2. CASE i \in 1..k
    <3>1. n + i \in 1..Len(q)
      BY <1>3, <2>2
    <3> QED BY <1>1, <1>3, <2>2, <3>1
  <2> QED BY <1>3, <2>1, <2>2
<1>7. n \in 0..Len(r) /\ Len(r) = n + (k + 1) /\ got <= sent + 1
  BY <1>1, <1>3
<1>8. UnderWay(r, got, sent + 1, n)
  <2>1. \A i \in 1..(sent + 1 - got) : r[n + i] = Script(got + i)
    BY <1>4, <1>6
  <2>2. Len(r) = n + (sent + 1 - got)
    BY <1>4, <1>7
  <2> QED BY <1>3, <1>5, <1>7, <2>1, <2>2 DEF UnderWay
<1> QED BY <1>7, <1>8 DEF Follow, r

(* The station takes a repeated request, or what comes next in the script. *)
LEMMA FollowTake ==
    ASSUME NEW q \in Seq(Frames), q # <<>>, NEW got \in Nat, NEW sent \in Nat,
           Follow(q, got, sent)
    PROVE  \/ got = 0 /\ Early(Head(q)) /\ Follow(Tail(q), got, sent)
           \/ Head(q) = Script(got + 1) /\ got < sent /\ Follow(Tail(q), got + 1, sent)
<1> DEFINE r == Tail(q)
           h == Head(q)
           k == sent - got
<1>1. /\ Len(q) \in Nat /\ Len(q) >= 1 /\ Len(r) = Len(q) - 1
      /\ \A i \in 1..Len(r) : r[i] = q[i + 1]
      /\ h = q[1]
  BY TakenFrom
<1>2. PICK n \in 0..Len(q) : UnderWay(q, got, sent, n)
  BY DEF Follow
<1>3. /\ got <= sent /\ Len(q) = n + k /\ k \in Nat /\ n \in Nat /\ (got > 0 => n = 0)
      /\ \A i \in 1..n : Early(q[i])
      /\ \A i \in 1..k : q[n + i] = Script(got + i)
  BY <1>2 DEF UnderWay
<1>4. sent - (got + 1) = k - 1 /\ k = sent - got
  BY <1>3
<1> HIDE DEF r, h, k
<1>5. CASE n > 0
  <2>1. got = 0 /\ Early(h)
    BY <1>1, <1>3, <1>5
  <2>2. n - 1 \in 0..Len(r) /\ Len(r) = (n - 1) + k
    BY <1>1, <1>3, <1>5
  <2>3. \A i \in 1..n - 1 : Early(r[i])
    BY <1>1, <1>3, <1>5
  <2>4. \A i \in 1..k : r[(n - 1) + i] = Script(got + i)
    <3> SUFFICES ASSUME NEW i \in 1..k PROVE r[(n - 1) + i] = Script(got + i)
      OBVIOUS
    <3>1. (n - 1) + i \in 1..Len(r) /\ (n - 1) + i + 1 = n + i
      BY <1>3, <1>5, <2>2
    <3> QED BY <1>1, <1>3, <3>1
  <2>5. UnderWay(r, got, sent, n - 1)
    BY <1>3, <1>4, <2>1, <2>2, <2>3, <2>4 DEF UnderWay
  <2> QED BY <2>1, <2>2, <2>5 DEF Follow, r, h
<1>6. CASE n = 0
  <2>1. k >= 1 /\ h = Script(got + 1) /\ got < sent
    <3>1. k >= 1 /\ 1 \in 1..k /\ n + 1 = 1
      BY <1>1, <1>3, <1>6
    <3>2. h = Script(got + 1)
      BY <1>1, <1>3, <3>1
    <3> QED BY <1>3, <1>4, <3>1, <3>2
  <2>2. 0 \in 0..Len(r) /\ Len(r) = 0 + (k - 1) /\ got + 1 <= sent
    BY <1>1, <1>3, <1>6, <2>1
  <2>3. \A i \in 1..k - 1 : r[0 + i] = Script(got + 1 + i)
    <3> SUFFICES ASSUME NEW i \in 1..k - 1 PROVE r[0 + i] = Script(got + 1 + i)
      OBVIOUS
    <3>1. i \in 1..Len(r) /\ i + 1 \in 1..k /\ n + (i + 1) = i + 1 /\ 0 + i = i
          /\ got + (i + 1) = got + 1 + i
      BY <1>3, <1>6, <2>2
    <3> QED BY <1>1, <1>3, <3>1
  <2>4. UnderWay(r, got + 1, sent, 0)
    BY <1>4, <2>2, <2>3 DEF UnderWay
  <2> QED BY <2>1, <2>2, <2>4 DEF Follow, r, h
<1> QED BY <1>3, <1>5, <1>6

(* When the station has taken all of it, nothing is on its way. *)
LEMMA FollowEnd ==
    ASSUME NEW q \in Seq(Frames), NEW got \in Nat, got > 0, Follow(q, got, got)
    PROVE  LocalOnly(q) /\ q = <<>>
<1>1. PICK n \in 0..Len(q) : UnderWay(q, got, got, n)
  BY DEF Follow
<1>2. Len(q) = 0
  BY <1>1 DEF UnderWay
<1>3. q = <<>>
  BY <1>2, EmptySeq
<1> QED BY <1>2, <1>3 DEF LocalOnly

-----------------------------------------------------------------------------
(* What a frame does to the values of the host that takes it *)

Remote ==
    {"CM_SLAC_PARAM", "CM_START_ATTEN_CHAR", "CM_ATTEN_PROFILE", "CM_ATTEN_CHAR",
     "CM_SLAC_MATCH"}

Keeps(v, w) == w.run = v.run /\ w.pev = v.pev /\ w.sounds = v.sounds /\ w.known = v.known

LEMMA ScriptReads ==
    /\ NumSounds \in Nat /\ NumSounds >= 1
    /\ Script(1) = StartAttenInd("ev")
    /\ \A k \in 2..NumSounds + 1 : Script(k) = ProfileInd
    /\ Script(NumSounds + 2) = AttenRsp("ev")
    /\ Script(NumSounds + 3) = MatchReq("ev")
  BY SlacAssumption DEF Script

LEMMA EvFramesMade ==
    /\ StartAttenInd("ev") \in SeFrames /\ AttenRsp("ev") \in SeFrames
    /\ MatchReq("ev") \in SeFrames /\ ProfileInd \in SeFrames /\ ParamReq("ev") \in SeFrames
    /\ ParamCnf("ev") \in EvFrames /\ AttenInd("ev") \in EvFrames /\ MatchCnf("ev") \in EvFrames
    /\ SwVerCnf \in EvFrames /\ SwVerCnf \in SeFrames
    /\ \A k : Script(k) \in SeFrames
<1>1. TRUE \in BOOLEAN /\ "ev" \in RunIds /\ 0 \in 0..(NumSounds + 1) /\ EvNmk \in Keys
  BY SlacAssumption DEF RunIds, Vehicles, Keys
<1>2. [InitVals(EvNmk) EXCEPT !.run = "ev"] \in Values
  BY <1>1, InitValsTyped DEF Values
<1>3. [InitVals(EvNmk) EXCEPT !.run = "ev"].run = "ev"
  BY DEF InitVals
<1>4. /\ StartAttenInd("ev") \in SeFrames /\ AttenRsp("ev") \in SeFrames
      /\ MatchReq("ev") \in SeFrames /\ ProfileInd \in SeFrames /\ ParamReq("ev") \in SeFrames
      /\ ParamCnf("ev") \in EvFrames /\ AttenInd("ev") \in EvFrames
      /\ MatchCnf("ev") \in EvFrames
      /\ SwVerCnf \in EvFrames /\ SwVerCnf \in SeFrames
  BY <1>1, <1>2, <1>3, FramesMade
<1> QED BY <1>4 DEF Script

LEMMA StoredLocal ==
    ASSUME NEW f, Local(f), f.msg = "CM_SET_KEY" => f.kind = "CNF", NEW v \in Values
    PROVE  Keeps(v, Stored(f, v)) /\ Result(f, v) \notin Remote
<1>1. f.msg \in {"VS_SW_VER", "CM_SET_KEY"}
  BY DEF Local
<1>2. Keeps(v, Stored(f, v))
  BY <1>1 DEF Stored, Asked, Confirmed, Keeps, Values
<1>3. Result(f, v) \in {f.msg, "invalid"}
  BY DEF Result
<1> QED BY <1>1, <1>2, <1>3 DEF Remote

LEMMA StoredParam ==
    ASSUME NEW v \in Values
    PROVE  /\ Stored(ParamReq("ev"), v).run = "ev" /\ Stored(ParamReq("ev"), v).pev = "ev"
           /\ Stored(ParamReq("ev"), v).sounds = v.sounds
           /\ Result(ParamReq("ev"), v) = "CM_SLAC_PARAM"
<1> DEFINE f == ParamReq("ev")
<1>1. f.msg = "CM_SLAC_PARAM" /\ f.kind = "REQ" /\ f.run = "ev"
  BY DEF ParamReq, Frame
<1> HIDE DEF f
<1>2. /\ Stored(f, v).run = "ev" /\ Stored(f, v).pev = "ev" /\ Stored(f, v).sounds = v.sounds
  BY <1>1 DEF Stored, Asked, Values
<1>3. Result(f, v) = "CM_SLAC_PARAM"
  BY <1>1 DEF Result, Accepted, RunChecked
<1> QED BY <1>2, <1>3 DEF f

(* The frames of the script are taken by a station that is in the vehicle's run. *)
LEMMA StoredScript ==
    ASSUME NEW v \in Values, v.run = "ev", v.pev = "ev"
    PROVE  /\ Result(StartAttenInd("ev"), v) = "CM_START_ATTEN_CHAR"
           /\ Keeps(v, Stored(StartAttenInd("ev"), v))
           /\ Result(ProfileInd, v) = "CM_ATTEN_PROFILE"
           /\ Stored(ProfileInd, v).run = "ev" /\ Stored(ProfileInd, v).pev = "ev"
           /\ Stored(ProfileInd, v).sounds = CountSound(v.sounds)
           /\ Result(AttenRsp("ev"), v) = "CM_ATTEN_CHAR"
           /\ Keeps(v, Stored(AttenRsp("ev"), v))
           /\ Result(MatchReq("ev"), v) = "CM_SLAC_MATCH"
           /\ Keeps(v, Stored(MatchReq("ev"), v))
<1>1. ASSUME NEW f, f.run = "ev" \/ f.msg = "CM_ATTEN_PROFILE"
      PROVE  Result(f, v) = f.msg
  BY <1>1 DEF Result, Accepted, RunChecked
<1>2. ASSUME NEW f, f.kind # "CNF", f.msg \in {"CM_START_ATTEN_CHAR", "CM_ATTEN_CHAR"}
      PROVE  Keeps(v, Stored(f, v))
  BY <1>2 DEF Keeps, Stored, Asked
<1>3. ASSUME NEW f, f.kind # "CNF", f.msg = "CM_SLAC_MATCH", f.run = "ev"
      PROVE  Keeps(v, Stored(f, v))
  BY <1>3 DEF Keeps, Stored, Asked, Accepted, Values
<1>4. ASSUME NEW f, f.kind # "CNF", f.msg = "CM_ATTEN_PROFILE"
      PROVE  /\ Stored(f, v).run = "ev" /\ Stored(f, v).pev = "ev"
             /\ Stored(f, v).sounds = CountSound(v.sounds)
  BY <1>4 DEF Stored, Asked, Values
<1>5. /\ StartAttenInd("ev").msg = "CM_START_ATTEN_CHAR" /\ StartAttenInd("ev").kind = "IND"
      /\ StartAttenInd("ev").run = "ev"
      /\ ProfileInd.msg = "CM_ATTEN_PROFILE" /\ ProfileInd.kind = "IND"
      /\ AttenRsp("ev").msg = "CM_ATTEN_CHAR" /\ AttenRsp("ev").kind = "RSP"
      /\ AttenRsp("ev").run = "ev"
      /\ MatchReq("ev").msg = "CM_SLAC_MATCH" /\ MatchReq("ev").kind = "REQ"
      /\ MatchReq("ev").run = "ev"
  BY DEF StartAttenInd, ProfileInd, AttenRsp, MatchReq, Frame
<1> QED BY <1>1, <1>2, <1>3, <1>4, <1>5

(* The replies of the station are taken by its vehicle. *)
LEMMA StoredReply ==
    ASSUME NEW v \in Values
    PROVE  /\ Result(ParamCnf("ev"), v) = "CM_SLAC_PARAM"
           /\ Stored(ParamCnf("ev"), v).known = TRUE
           /\ Stored(ParamCnf("ev"), v).run = v.run
           /\ v.run = "ev" => /\ Result(AttenInd("ev"), v) = "CM_ATTEN_CHAR"
                              /\ Keeps(v, Stored(AttenInd("ev"), v))
           /\ Result(MatchCnf("ev"), v) = "CM_SLAC_MATCH"
<1>1. /\ ParamCnf("ev").msg = "CM_SLAC_PARAM" /\ ParamCnf("ev").kind = "CNF"
      /\ AttenInd("ev").msg = "CM_ATTEN_CHAR" /\ AttenInd("ev").kind = "IND"
      /\ AttenInd("ev").run = "ev"
      /\ MatchCnf("ev").msg = "CM_SLAC_MATCH" /\ MatchCnf("ev").kind = "CNF"
  BY DEF ParamCnf, AttenInd, MatchCnf, Frame
<1>2. ASSUME NEW f, f.msg \in {"CM_SLAC_PARAM", "CM_SLAC_MATCH"}, f.kind = "CNF"
      PROVE  Result(f, v) = f.msg
  BY <1>2 DEF Result, Accepted, RunChecked
<1>3. ASSUME NEW f, f.msg = "CM_SLAC_PARAM", f.kind = "CNF"
      PROVE  Stored(f, v).known = TRUE /\ Stored(f, v).run = v.run
  <2>1. Stored(f, v) = [v EXCEPT !.known = TRUE]
    <3>1. Stored(f, v) = Confirmed(f, v)
      BY <1>3, Zenon DEF Stored
    <3>2. Confirmed(f, v) = [v EXCEPT !.known = TRUE]
      BY <1>3, Zenon DEF Confirmed
    <3> QED BY <3>1, <3>2
  <2>2. [v EXCEPT !.known = TRUE].known = TRUE
    BY DEF Values
  <2>3. [v EXCEPT !.known = TRUE].run = v.run
    BY DEF Values
  <2> QED BY <2>1, <2>2, <2>3
<1>4. ASSUME NEW f, f.msg = "CM_ATTEN_CHAR", f.kind = "IND", f.run = v.run
      PROVE  Result(f, v) = f.msg /\ Keeps(v, Stored(f, v))
  BY <1>4 DEF Result, Accepted, Stored, Asked, Keeps
<1>5. Stored(ParamCnf("ev"), v).known = TRUE /\ Stored(ParamCnf("ev"), v).run = v.run
  BY <1>1, <1>3, Zenon
<1> QED BY <1>1, <1>2, <1>4, <1>5

(* What a cycle finds in the socket of the vehicle ... *)
LEMMA EvHears ==
    ASSUME TypeInv, NEW take, NEW in, in = Arrived(take, toEv, evVals)
    PROVE  /\ in.vals \in Values /\ in.rest \in Seq(EvFrames) /\ in.rest \in Seq(Frames)
           /\ LocalOnly(toEv) =>
                  LocalOnly(in.rest) /\ Keeps(evVals, in.vals) /\ in.last \notin Remote
           /\ \A f : OneReply(toEv, f) =>
                  \/ OneReply(in.rest, f) /\ Keeps(evVals, in.vals) /\ in.last \notin Remote
                  \/ /\ LocalOnly(in.rest)
                     /\ in.last = Result(f, evVals) /\ in.vals = Stored(f, evVals)
<1>1. toEv \in Seq(EvFrames) /\ toEv \in Seq(Frames) /\ evVals \in Values
  BY FrameSubsets DEF TypeInv, TypeOK, PlcTypeOK
<1>2. CASE take = TRUE /\ toEv # <<>>
  <2> DEFINE f == Head(toEv)
  <2>1. f \in EvFrames /\ f \in Frames /\ Tail(toEv) \in Seq(EvFrames)
    BY <1>1, <1>2, HeadTailProperties, FrameSubsets
  <2>2. in = [last |-> Result(f, evVals), vals |-> Stored(f, evVals), rest |-> Tail(toEv)]
    BY <1>2, Zenon DEF Arrived
  <2>3. /\ LocalOnly(toEv) => Local(f) /\ LocalOnly(Tail(toEv))
        /\ \A g : OneReply(toEv, g) => \/ f = g /\ LocalOnly(Tail(toEv))
                                       \/ Local(f) /\ OneReply(Tail(toEv), g)
    BY <1>1, <1>2, TakeLocal
  <2> HIDE DEF f
  <2>4. Local(f) => Keeps(evVals, Stored(f, evVals)) /\ Result(f, evVals) \notin Remote
    BY <1>1, <2>1, StoredLocal DEF EvFrames
  <2>5. Stored(f, evVals) \in Values
    BY <1>1, <2>1, StoredTyped
  <2>6. in.rest \in Seq(EvFrames) /\ in.rest \in Seq(Frames)
    BY <2>1, <2>2, FrameSubsets
  <2> QED BY <2>2, <2>3, <2>4, <2>5, <2>6
<1>3. CASE ~(take = TRUE /\ toEv # <<>>)
  <2>1. in = [last |-> "none", vals |-> evVals, rest |-> toEv]
    BY <1>3, Zenon DEF Arrived
  <2> QED BY <1>1, <2>1 DEF Keeps, Remote
<1> QED BY <1>2, <1>3

(* ... and in that of the station. *)
LEMMA SeHears ==
    ASSUME TypeInv, NEW take, NEW in, in = Arrived(take, toSe, seVals)
    PROVE  /\ in.vals \in Values /\ in.rest \in Seq(SeFrames) /\ in.rest \in Seq(Frames)
           /\ LocalOnly(toSe) =>
                  LocalOnly(in.rest) /\ Keeps(seVals, in.vals) /\ in.last \notin Remote
           /\ EarlyOnly(toSe) =>
                  /\ EarlyOnly(in.rest) /\ in.vals.sounds = seVals.sounds
                  /\ \/ in.last \notin Remote
                     \/ in.last = "CM_SLAC_PARAM" /\ in.vals.run = "ev" /\ in.vals.pev = "ev"
           /\ \A got, sent \in Nat : Follow(toSe, got, sent) =>
                  \/ /\ Follow(in.rest, got, sent) /\ in.vals.sounds = seVals.sounds
                     /\ seVals.run = "ev" => in.vals.run = "ev"
                     /\ seVals.pev = "ev" => in.vals.pev = "ev"
                     /\ in.last \in Remote => in.last = "CM_SLAC_PARAM"
                  \/ /\ Follow(in.rest, got + 1, sent) /\ got < sent
                     /\ in.last = Result(Script(got + 1), seVals)
                     /\ in.vals = Stored(Script(got + 1), seVals)
<1>1. toSe \in Seq(SeFrames) /\ toSe \in Seq(Frames) /\ seVals \in Values
  BY FrameSubsets DEF TypeInv, TypeOK, PlcTypeOK
<1>2. CASE take = TRUE /\ toSe # <<>>
  <2> DEFINE f == Head(toSe)
  <2>1. f \in SeFrames /\ f \in Frames /\ Tail(toSe) \in Seq(SeFrames)
    BY <1>1, <1>2, HeadTailProperties, FrameSubsets
  <2>2. in = [last |-> Result(f, seVals), vals |-> Stored(f, seVals), rest |-> Tail(toSe)]
    BY <1>2, Zenon DEF Arrived
  <2>3. /\ LocalOnly(toSe) => Local(f) /\ LocalOnly(Tail(toSe))
        /\ EarlyOnly(toSe) => Early(f) /\ EarlyOnly(Tail(toSe))
    BY <1>1, <1>2, TakeLocal
  <2>4. ASSUME NEW got \in Nat, NEW sent \in Nat, Follow(toSe, got, sent)
        PROVE  \/ Early(f) /\ Follow(Tail(toSe), got, sent)
               \/ f = Script(got + 1) /\ got < sent /\ Follow(Tail(toSe), got + 1, sent)
    BY <1>1, <1>2, <2>4, FollowTake
  <2> HIDE DEF f
  <2>5. Local(f) => Keeps(seVals, Stored(f, seVals)) /\ Result(f, seVals) \notin Remote
    BY <1>1, <2>1, StoredLocal DEF SeFrames
  <2>6. Stored(f, seVals) \in Values
    BY <1>1, <2>1, StoredTyped
  <2>7. Early(f) =>
          /\ Stored(f, seVals).sounds = seVals.sounds
          /\ seVals.run = "ev" => Stored(f, seVals).run = "ev"
          /\ seVals.pev = "ev" => Stored(f, seVals).pev = "ev"
          /\ \/ Result(f, seVals) \notin Remote
             \/ /\ Result(f, seVals) = "CM_SLAC_PARAM"
                /\ Stored(f, seVals).run = "ev" /\ Stored(f, seVals).pev = "ev"
    BY <1>1, <2>5, StoredParam DEF Early, Keeps
  <2>8. in.rest \in Seq(SeFrames) /\ in.rest \in Seq(Frames)
    BY <2>1, <2>2, FrameSubsets
  <2>9. /\ LocalOnly(toSe) =>
               LocalOnly(in.rest) /\ Keeps(seVals, in.vals) /\ in.last \notin Remote
        /\ EarlyOnly(toSe) =>
               /\ EarlyOnly(in.rest) /\ in.vals.sounds = seVals.sounds
               /\ \/ in.last \notin Remote
                  \/ in.last = "CM_SLAC_PARAM" /\ in.vals.run = "ev" /\ in.vals.pev = "ev"
    BY <2>2, <2>3, <2>5, <2>7
  <2>10. ASSUME NEW got \in Nat, NEW sent \in Nat, Follow(toSe, got, sent)
         PROVE  \/ /\ Follow(in.rest, got, sent) /\ in.vals.sounds = seVals.sounds
                   /\ seVals.run = "ev" => in.vals.run = "ev"
                   /\ seVals.pev = "ev" => in.vals.pev = "ev"
                   /\ in.last \in Remote => in.last = "CM_SLAC_PARAM"
                \/ /\ Follow(in.rest, got + 1, sent) /\ got < sent
                   /\ in.last = Result(Script(got + 1), seVals)
                   /\ in.vals = Stored(Script(got + 1), seVals)
    BY <2>2, <2>4, <2>7, <2>10
  <2> QED BY <2>2, <2>6, <2>8, <2>9, <2>10
<1>3. CASE ~(take = TRUE /\ toSe # <<>>)
  <2>1. in = [last |-> "none", vals |-> seVals, rest |-> toSe]
    BY <1>3, Zenon DEF Arrived
  <2> QED BY <1>1, <2>1 DEF Keeps, Remote
<1> QED BY <1>2, <1>3

-----------------------------------------------------------------------------
(* The vehicle's cycles without faults *)

LEMMA EvCycleReads ==
    ASSUME NoFaults, NEW take, NEW tick, NEW late, NEW due, EvCycle(take, tick, late, due),
           NEW in, in = Arrived(take, toEv, evVals)
    PROVE  /\ \/ EvAwaitGetSwVer(in.last, in.vals, in.rest)
              \/ EvSlacIdle(evOp = "slac", in.vals, in.rest)
              \/ EvAwaitEstablishing(evOp = "slac", in.last, in.vals, in.rest, tick)
              \/ EvAwaitStartAttenChar(in.vals, in.rest)
              \/ EvAwaitSounding(in.vals, in.rest, tick)
              \/ EvAwaitAttenChar(in.last, in.vals, in.rest)
              \/ EvAwaitMatch(in.last, in.vals, in.rest)
              \/ EvAwaitSetKey(in.last, in.vals, in.rest)
              \/ EvAwaitSettleTime(in.vals, in.rest, tick)
              \/ EvFailedOrMatched(evOp = "slac", in.vals, in.rest)
           /\ plugged' = plugged /\ seVals' = seVals /\ seSlac' = seSlac /\ seFresh' = seFresh
           /\ seOp' = seOp
<1>1. /\ EvOperate(evOp = "slac", in.last, in.vals, in.rest, tick, late)
      /\ late => EvMayBeLate
      /\ UNCHANGED <<plugged, seVals, seSlacVars, seOp, slacReady, seMac>>
  BY Zenon DEF EvCycle
<1>2. ~late
  BY <1>1, Zenon DEF EvMayBeLate, NoFaults
<1>3. plugged' = plugged /\ seVals' = seVals /\ seSlac' = seSlac /\ seFresh' = seFresh
      /\ seOp' = seOp
  BY <1>1 DEF seSlacVars
<1> QED BY <1>1, <1>2, <1>3, Zenon DEF EvOperate

(* A frame that is not a parameter request gets to the station.            *)
LEMMA SentFrame ==
    ASSUME plugged = TRUE, NEW f, NEW v, NEW w, w.known = TRUE, NEW rest,
           EvSendsToKnown(f, w, rest), f.msg # "CM_SLAC_PARAM"
    PROVE  evVals' = w /\ toEv' = rest /\ toSe' = Append(toSe, f)
<1>1. EvSends(f, w, rest)
  BY Zenon DEF EvSendsToKnown
<1>2. Transmit(toSe, f) = Append(toSe, f)
  BY Zenon DEF Transmit, Carry
<1> QED BY <1>1, <1>2 DEF EvSends

LEMMA KeySetLocal ==
    ASSUME NEW rest \in Seq(Frames), LocalOnly(rest), NEW w, EvSetsKey(w, rest)
    PROVE  LocalOnly(toEv') /\ toSe' = toSe /\ evVals' = w
<1>1. PICK ok \in BOOLEAN :
          evVals' = w /\ toSe' = toSe /\ toEv' = Append(rest, SetKeyCnf(ok))
  BY EvKeySet
<1>2. InitVals(EvNmk) \in Values
  BY InitValsTyped DEF Keys
<1>3. SetKeyCnf(ok) \in Frames /\ Local(SetKeyCnf(ok))
  BY <1>2, FramesMade, MessagesMade, FrameSubsets DEF Local
<1>4. LocalOnly(Append(rest, SetKeyCnf(ok)))
  BY <1>3, PutLocal
<1> QED BY <1>1, <1>4

(* Alone, the vehicle gets its modem's answers and asks for parameters.    *)
LEMMA EvAlone ==
    ASSUME NoFaults, SlacInv, StepInv, Apart,
           NEW take, NEW tick, NEW late, NEW due, EvCycle(take, tick, late, due)
    PROVE  StepInv' /\ Apart'
<1> DEFINE in == Arrived(take, toEv, evVals)
<1>1. /\ in.vals \in Values /\ in.rest \in Seq(Frames) /\ LocalOnly(in.rest)
      /\ Keeps(evVals, in.vals) /\ in.last \notin Remote
  BY EvHears DEF SlacInv, Apart
<1>2. /\ \/ EvAwaitGetSwVer(in.last, in.vals, in.rest)
         \/ EvSlacIdle(evOp = "slac", in.vals, in.rest)
         \/ EvAwaitEstablishing(evOp = "slac", in.last, in.vals, in.rest, tick)
      /\ plugged' = plugged /\ seVals' = seVals /\ seSlac' = seSlac /\ seFresh' = seFresh
      /\ seOp' = seOp
  BY EvCycleReads
  DEF Apart, EvAwaitStartAttenChar, EvAwaitSounding, EvAwaitAttenChar, EvAwaitMatch,
      EvAwaitSetKey, EvAwaitSettleTime, EvFailedOrMatched
<1>3. /\ toSe \in Seq(Frames) /\ evFresh \in BOOLEAN
      /\ evSlac = "awaitEstablishing" => evOp = "slac"
  BY FrameSubsets
  DEF SlacInv, TypeInv, TypeOK, EvSlacTypeOK, EvPlaceInv, EvOpStates
<1>4. evOp' # "communication" /\ session' = session
  <2>1. EvOpOutcome
    BY EvCycleMoves DEF EvMoves
  <2> QED BY <2>1 DEF EvOpOutcome, Apart
<1> HIDE DEF in
<1>5. /\ evSlac' \in {"awaitGetSwVer", "Idle", "awaitEstablishing"}
      /\ EarlyOnly(toSe') /\ LocalOnly(toEv')
      /\ evSlac' = "awaitEstablishing" \/ LocalOnly(toSe')
      /\ evSlac' = "awaitEstablishing" /\ evFresh' = FALSE => evVals'.run = "ev"
  <2>1. CASE EvAwaitGetSwVer(in.last, in.vals, in.rest)
    <3>1. /\ evSlac = "awaitGetSwVer" /\ evSlac' \in {"awaitGetSwVer", "Idle"}
          /\ toSe' = toSe
      BY <2>1 DEF EvAwaitGetSwVer, EvToIf, EvTo, EvLeaves
    <3>2. toEv' = in.rest \/ toEv' = Append(in.rest, SwVerCnf)
      BY <2>1, Zenon DEF EvAwaitGetSwVer, EvLeaves
    <3>3. SwVerCnf \in Frames /\ Local(SwVerCnf)
      BY EvFramesMade, FrameSubsets, MessagesMade DEF Local
    <3>4. LocalOnly(toEv')
      BY <1>1, <3>2, <3>3, PutLocal
    <3> QED BY <3>1, <3>4 DEF Apart
  <2>2. CASE EvSlacIdle(evOp = "slac", in.vals, in.rest)
    <3>1. evSlac = "Idle" /\ (EvTo("Idle") \/ EvTo("awaitEstablishing"))
      BY <2>2, Zenon DEF EvSlacIdle, EvToIf
    <3>2. EvSetsKey(InitVals(EvNmk), in.rest) \/ EvLeaves(in.vals, in.rest)
      BY <2>2, Zenon DEF EvSlacIdle
    <3>3. LocalOnly(toEv') /\ toSe' = toSe
      BY <1>1, <3>2, KeySetLocal DEF EvLeaves
    <3>4. /\ evSlac' \in {"Idle", "awaitEstablishing"}
          /\ evSlac' = "awaitEstablishing" => evFresh' = TRUE
      BY <3>1, EvToStates
    <3> QED BY <3>1, <3>3, <3>4 DEF Apart
  <2>3. CASE EvAwaitEstablishing(evOp = "slac", in.last, in.vals, in.rest, tick)
    <3>1. evSlac = "awaitEstablishing" /\ EvTo("awaitEstablishing")
      <4>1. evSlac = "awaitEstablishing" /\ EvToIf(~(evOp = "slac"), "Idle")
        BY <1>1, <2>3 DEF EvAwaitEstablishing, Remote
      <4> QED BY <1>3, <4>1, Zenon DEF EvToIf
    <3>2. \/ EvSends(ParamReq("ev"), [in.vals EXCEPT !.run = "ev"], in.rest)
          \/ evFresh = FALSE /\ EvLeaves(in.vals, in.rest)
      BY <1>3, <2>3, Zenon DEF EvAwaitEstablishing
    <3>3. /\ toEv' = in.rest
          /\ toSe' = toSe \/ toSe' = Append(toSe, ParamReq("ev"))
      BY <3>2, Transmitted DEF EvSends, EvLeaves
    <3>4. evVals'.run = "ev"
      <4>1. [in.vals EXCEPT !.run = "ev"].run = "ev"
        BY <1>1 DEF Values
      <4>2. evFresh = FALSE => in.vals.run = "ev"
        BY <1>1, <3>1 DEF StepInv, Keeps
      <4> QED BY <3>2, <4>1, <4>2 DEF EvSends, EvLeaves
    <3>5. EarlyOnly(toSe')
      <4>1. ParamReq("ev") \in Frames /\ Early(ParamReq("ev"))
        BY EvFramesMade, FrameSubsets DEF Early
      <4> QED BY <1>3, <3>3, <4>1, PutLocal DEF Apart
    <3> QED BY <1>1, <3>1, <3>3, <3>4, <3>5, EvToStates
  <2> QED BY <1>2, <2>1, <2>2, <2>3
<1>6. Apart'
  BY <1>2, <1>4, <1>5 DEF Apart
<1> QED BY <1>2, <1>5, <1>6 DEF StepInv

(* What a cycle of a vehicle in a run of the process leaves of Joined.     *)
EvJoins ==
    /\ evSlac' \in EvEarly \union {"awaitMatch"}
    /\ evSlac' # "awaitEstablishing" => evVals'.known = TRUE
    /\ evSlac' # "awaitEstablishing" \/ evFresh' = FALSE => evVals'.run = "ev"
    /\ evSlac' = "awaitSounding" /\ evFresh' = FALSE => evVals'.sounds \in 1..NumSounds
    /\ evSlac' = "awaitMatch" => seSlac \in {"awaitAttenChar", "awaitMatch"}
    /\ Follow(toSe', Got, Sent')
    /\ evSlac' = "awaitEstablishing" => OneReply(toEv', ParamCnf("ev"))
    /\ evSlac' = "awaitAttenChar" /\ seSlac = "awaitAttenChar" => OneReply(toEv', AttenInd("ev"))
    /\ \/ evSlac' = "awaitEstablishing"
       \/ evSlac' = "awaitAttenChar" /\ seSlac = "awaitAttenChar"
       \/ LocalOnly(toEv')

LEMMA JoinedReads ==
    ASSUME SlacInv, StepInv, Joined
    PROVE  /\ toSe \in Seq(Frames) /\ toEv \in Seq(Frames) /\ plugged = TRUE
           /\ evFresh \in BOOLEAN /\ evVals \in Values /\ seVals \in Values
           /\ NumSounds \in Nat /\ NumSounds >= 1
           /\ Got \in Nat /\ Sent \in Nat /\ Follow(toSe, Got, Sent) /\ Got <= Sent
           /\ \A k : Script(k) \in Frames
           /\ evSlac = "awaitEstablishing" => OneReply(toEv, ParamCnf("ev"))
           /\ evSlac = "awaitAttenChar" /\ seSlac = "awaitAttenChar" =>
                  OneReply(toEv, AttenInd("ev"))
           /\ evSlac # "awaitEstablishing" /\ ~(evSlac = "awaitAttenChar" /\ seSlac = "awaitAttenChar")
                  => LocalOnly(toEv)
<1>1. /\ toSe \in Seq(Frames) /\ toEv \in Seq(Frames) /\ plugged = TRUE
      /\ evFresh \in BOOLEAN /\ evVals \in Values /\ seVals \in Values
  BY FrameSubsets
  DEF SlacInv, TypeInv, TypeOK, PlcTypeOK, EvSlacTypeOK, StepInv, Joined
<1>2. NumSounds \in Nat /\ NumSounds >= 1
  BY ScriptReads
<1>3. evVals.sounds \in Nat /\ seVals.sounds \in Nat
  BY <1>1, <1>2 DEF Values
<1>4. Got \in Nat
  BY <1>2, <1>3 DEF Got
<1>5. Sent \in Nat
  BY <1>2, <1>3, <1>1 DEF Sent, Joined
<1>6. Follow(toSe, Got, Sent) /\ Got <= Sent
  BY DEF Joined, Follow, UnderWay
<1>7. \A k : Script(k) \in Frames
  BY EvFramesMade, FrameSubsets
<1>8. /\ evSlac = "awaitEstablishing" => OneReply(toEv, ParamCnf("ev"))
      /\ evSlac = "awaitAttenChar" /\ seSlac = "awaitAttenChar" => OneReply(toEv, AttenInd("ev"))
      /\ evSlac # "awaitEstablishing" /\ ~(evSlac = "awaitAttenChar" /\ seSlac = "awaitAttenChar")
             => LocalOnly(toEv)
  BY DEF Joined
<1> QED BY <1>1, <1>2, <1>4, <1>5, <1>6, <1>7, <1>8

(* The parameter request is repeated until the answer is there.            *)
LEMMA EvJoinsEstablishing ==
    ASSUME SlacInv, StepInv, Joined, evSlac = "awaitEstablishing", NEW take, NEW tick,
           NEW in, in = Arrived(take, toEv, evVals),
           EvAwaitEstablishing(evOp = "slac", in.last, in.vals, in.rest, tick)
    PROVE  EvJoins
<1> DEFINE w == [in.vals EXCEPT !.run = "ev"]
<1>1. /\ in.vals \in Values /\ in.rest \in Seq(Frames)
      /\ \/ /\ OneReply(in.rest, ParamCnf("ev")) /\ Keeps(evVals, in.vals)
            /\ in.last \notin Remote
         \/ /\ LocalOnly(in.rest)
            /\ in.last = Result(ParamCnf("ev"), evVals)
            /\ in.vals = Stored(ParamCnf("ev"), evVals)
  BY JoinedReads, EvHears DEF SlacInv
<1>2. /\ Result(ParamCnf("ev"), evVals) = "CM_SLAC_PARAM"
      /\ Stored(ParamCnf("ev"), evVals).known = TRUE
      /\ Stored(ParamCnf("ev"), evVals).run = evVals.run
  BY JoinedReads, StoredReply
<1>3. EvSends(ParamReq("ev"), w, in.rest) \/ (evFresh = FALSE /\ EvLeaves(in.vals, in.rest))
  BY JoinedReads, Zenon DEF EvAwaitEstablishing
<1>4. /\ toEv' = in.rest
      /\ toSe' = toSe \/ toSe' = Append(toSe, ParamReq("ev"))
      /\ evVals' = w \/ (evFresh = FALSE /\ evVals' = in.vals)
  BY <1>3, Transmitted DEF EvSends, EvLeaves
<1>5. Sent = 0 /\ Got = 0 /\ EarlyOnly(toSe)
  <2>1. Sent = 0 /\ Got = 0
    BY JoinedReads DEF Sent
  <2>2. toSe \in Seq(Frames) /\ Follow(toSe, 0, 0)
    <3>1. toSe \in Seq(Frames) /\ Follow(toSe, Got, Sent)
      BY JoinedReads
    <3> QED BY <2>1, <3>1, Zenon
  <2>3. EarlyOnly(toSe)
    BY <2>2, FollowNone
  <2> QED BY <2>1, <2>3
<1>6. EarlyOnly(toSe') /\ toSe' \in Seq(Frames)
  <2>1. ParamReq("ev") \in Frames /\ Early(ParamReq("ev"))
    BY EvFramesMade, FrameSubsets DEF Early
  <2>2. toSe \in Seq(Frames)
    BY JoinedReads
  <2>3. EarlyOnly(Append(toSe, ParamReq("ev"))) /\ Append(toSe, ParamReq("ev")) \in Seq(Frames)
    BY <1>5, <2>1, <2>2, PutLocal, AppendProperties
  <2> QED BY <1>4, <1>5, <2>2, <2>3
<1>7. evVals'.run = "ev"
  <2>1. w.run = "ev"
    BY <1>1 DEF Values
  <2>2. evFresh = FALSE => evVals.run = "ev"
    BY DEF StepInv
  <2>3. in.vals.run = evVals.run
    BY <1>1, <1>2 DEF Keeps
  <2> HIDE DEF w
  <2> QED BY <1>4, <2>1, <2>2, <2>3
<1>8. ASSUME evSlac' \in {"awaitEstablishing", "awaitStartAttenChar"}
      PROVE  Follow(toSe', Got, Sent')
  <2>1. Sent' = 0
    BY <1>8 DEF Sent
  <2> QED BY <1>5, <1>6, <2>1, FollowNone
<1>9. CASE in.last \notin Remote
  <2>1. OneReply(in.rest, ParamCnf("ev"))
    BY <1>1, <1>2, <1>9 DEF Remote
  <2>2. evOp = "slac"
    BY DEF Joined
  <2>3. EvTo("awaitEstablishing")
    <3>1. EvToIf(~(evOp = "slac"), "Idle")
      BY <1>9 DEF EvAwaitEstablishing, Remote
    <3> QED BY <2>2, <3>1, Zenon DEF EvToIf
  <2>4. evSlac' = "awaitEstablishing"
    BY <2>3, EvToStates
  <2> QED BY <1>4, <1>7, <1>8, <2>1, <2>4 DEF EvJoins, EvEarly
<1>10. CASE in.last = "CM_SLAC_PARAM"
  <2>1. LocalOnly(in.rest) /\ in.vals.known = TRUE
    BY <1>1, <1>2, <1>10, Zenon DEF Remote
  <2>2. EvTo("awaitStartAttenChar")
    BY <1>10 DEF EvAwaitEstablishing
  <2>3. evVals'.known = TRUE
    <3>1. w.known = in.vals.known
      BY <1>1 DEF Values
    <3> HIDE DEF w
    <3> QED BY <1>4, <2>1, <3>1, Zenon
  <2>4. evSlac' = "awaitStartAttenChar"
    BY <2>2, EvToStates
  <2> QED BY <1>4, <1>7, <1>8, <2>1, <2>3, <2>4 DEF EvJoins, EvEarly
<1> QED BY <1>1, <1>2, <1>9, <1>10

(* The vehicle sends the next frame of the script.                         *)
LEMMA EvSendsNext ==
    ASSUME SlacInv, StepInv, Joined, evSlac # "awaitEstablishing", NEW f, NEW w, w.known = TRUE,
           NEW rest, EvSendsToKnown(f, w, rest), f = Script(Sent + 1),
           f.msg # "CM_SLAC_PARAM"
    PROVE  /\ evVals' = w /\ toEv' = rest
           /\ Sent' = Sent + 1 => Follow(toSe', Got, Sent')
<1>1. evVals' = w /\ toEv' = rest /\ toSe' = Append(toSe, f)
  BY JoinedReads, SentFrame
<1>2. Follow(Append(toSe, f), Got, Sent + 1)
  BY JoinedReads, FollowPut
<1> QED BY <1>1, <1>2

LEMMA EvEnters ==
    ASSUME NEW s, EvTo(s), s # evSlac
    PROVE  evSlac' = s /\ evFresh' = TRUE
  BY Zenon DEF EvTo

LEMMA EvJoinsStart ==
    ASSUME SlacInv, StepInv, Joined, evSlac = "awaitStartAttenChar", NEW take,
           NEW in, in = Arrived(take, toEv, evVals), EvAwaitStartAttenChar(in.vals, in.rest)
    PROVE  EvJoins
<1>1. /\ LocalOnly(in.rest) /\ Keeps(evVals, in.vals)
  BY JoinedReads, EvHears DEF SlacInv
<1>2. in.vals.known = TRUE /\ in.vals.run = "ev"
  BY <1>1 DEF Joined, Keeps
<1>3. EvSendsToKnown(StartAttenInd("ev"), in.vals, in.rest) /\ EvTo("awaitSounding")
  BY <1>2 DEF EvAwaitStartAttenChar
<1>4. Sent = 0 /\ StartAttenInd("ev") = Script(Sent + 1)
  BY ScriptReads DEF Sent
<1>5. evSlac' = "awaitSounding" /\ evFresh' = TRUE
  BY <1>3, EvEnters
<1>6. Sent' = Sent + 1
  BY <1>4, <1>5 DEF Sent
<1>7. evVals' = in.vals /\ toEv' = in.rest /\ Follow(toSe', Got, Sent')
  <2>1. StartAttenInd("ev").msg # "CM_SLAC_PARAM"
    BY MessagesMade
  <2>2. EvSendsToKnown(StartAttenInd("ev"), in.vals, in.rest) /\ in.vals.known = TRUE
    BY <1>2, <1>3, Zenon
  <2> QED BY <1>4, <1>6, <2>1, <2>2, EvSendsNext, Zenon
<1> QED BY <1>1, <1>2, <1>5, <1>7 DEF EvJoins, EvEarly

(* One sound on entry and one with each pause, NumSounds in all.           *)
LEMMA EvJoinsSounding ==
    ASSUME SlacInv, StepInv, Joined, evSlac = "awaitSounding", NEW take, NEW tick,
           NEW in, in = Arrived(take, toEv, evVals), EvAwaitSounding(in.vals, in.rest, tick)
    PROVE  EvJoins
<1> DEFINE left == IF evFresh THEN NumSounds ELSE in.vals.sounds
           next == [in.vals EXCEPT !.sounds = left - 1]
<1>1. in.vals \in Values /\ LocalOnly(in.rest) /\ Keeps(evVals, in.vals)
  BY JoinedReads, EvHears DEF SlacInv
<1>2. in.vals.known = TRUE /\ in.vals.run = "ev"
  BY <1>1 DEF Joined, Keeps
<1>3. /\ left \in 1..NumSounds
      /\ Sent = NumSounds + 1 - left
      /\ evFresh = FALSE => left = in.vals.sounds
  <2>1. CASE evFresh = TRUE
    <3>1. left = NumSounds
      BY <2>1, Zenon
    <3>2. Sent = 1
      BY <2>1 DEF Sent
    <3> QED BY <2>1, <3>1, <3>2, JoinedReads
  <2>2. CASE evFresh = FALSE
    <3>1. left = in.vals.sounds
      BY <2>2, Zenon
    <3>2. Sent = NumSounds + 1 - evVals.sounds /\ evVals.sounds \in 1..NumSounds
      BY <2>2 DEF Sent, Joined
    <3>3. in.vals.sounds = evVals.sounds
      BY <1>1 DEF Keeps
    <3> HIDE DEF left
    <3> QED BY <3>1, <3>2, <3>3
  <2> QED BY <2>1, <2>2, JoinedReads
<1>4. \/ EvSendsToKnown(ProfileInd, next, in.rest) /\ EvToIf(left = 1, "awaitAttenChar")
      \/ evFresh = FALSE /\ EvLeaves(in.vals, in.rest) /\ EvToIf(left = 0, "awaitAttenChar")
  BY JoinedReads, Zenon DEF EvAwaitSounding
<1>5. next.sounds = left - 1 /\ next.run = in.vals.run
  BY <1>1 DEF Values
<1>6. next.known = TRUE
  <2>1. next.known = in.vals.known
    BY <1>1 DEF Values
  <2> HIDE DEF next
  <2> QED BY <1>2, <2>1, Zenon
<1> HIDE DEF left, next
<1>7. seSlac # "awaitAttenChar"
  BY <1>3, JoinedReads DEF Got
<1>8. CASE EvSendsToKnown(ProfileInd, next, in.rest) /\ EvToIf(left = 1, "awaitAttenChar")
  <2>1. ProfileInd = Script(Sent + 1)
    BY <1>3, ScriptReads
  <2>2. /\ evVals' = next /\ toEv' = in.rest
        /\ Sent' = Sent + 1 => Follow(toSe', Got, Sent')
    BY <1>6, <1>8, <2>1, EvSendsNext, MessagesMade
  <2>3. CASE left = 1
    <3>1. EvTo("awaitAttenChar")
      BY <1>8, <2>3 DEF EvToIf
    <3>2. evSlac' = "awaitAttenChar"
      BY <3>1, EvToStates
    <3>3. Sent' = Sent + 1
      BY <1>3, <2>3, <3>2, JoinedReads DEF Sent
    <3> QED BY <1>1, <1>2, <1>5, <1>6, <1>7, <2>2, <3>2, <3>3 DEF EvJoins, EvEarly
  <2>4. CASE left # 1
    <3>1. EvTo("awaitSounding")
      BY <1>8, <2>4 DEF EvToIf
    <3>2. evSlac' = "awaitSounding" /\ evFresh' = FALSE
      BY <3>1, EvToStates
    <3>3. evVals'.sounds = left - 1 /\ left - 1 \in 1..NumSounds
      BY <1>3, <1>5, <2>2, <2>4, JoinedReads
    <3>4. Sent' = NumSounds + 1 - evVals'.sounds
      BY <3>2 DEF Sent
    <3>5. Sent' = Sent + 1
      BY <1>3, <3>3, <3>4, JoinedReads
    <3> QED BY <1>1, <1>2, <1>5, <1>6, <2>2, <3>2, <3>3, <3>5 DEF EvJoins, EvEarly
  <2> QED BY <2>3, <2>4
<1>9. CASE evFresh = FALSE /\ EvLeaves(in.vals, in.rest) /\ EvToIf(left = 0, "awaitAttenChar")
  <2>1. EvTo("awaitSounding")
    BY <1>3, <1>9 DEF EvToIf
  <2>2. evSlac' = "awaitSounding" /\ evFresh' = FALSE
    BY <2>1, EvToStates
  <2>3. evVals' = in.vals /\ toEv' = in.rest /\ toSe' = toSe
    BY <1>9 DEF EvLeaves
  <2>4. Sent' = NumSounds + 1 - evVals'.sounds
    BY <2>2 DEF Sent
  <2>5. Sent' = Sent /\ evVals'.sounds \in 1..NumSounds
    BY <1>3, <1>9, <2>3, <2>4
  <2>6. Follow(toSe', Got, Sent')
    BY <2>3, <2>5, JoinedReads
  <2> QED BY <1>1, <1>2, <2>2, <2>3, <2>5, <2>6 DEF EvJoins, EvEarly
<1> QED BY <1>4, <1>8, <1>9

LEMMA EvJoinsAttenChar ==
    ASSUME SlacInv, StepInv, Joined, evSlac = "awaitAttenChar", NEW take,
           NEW in, in = Arrived(take, toEv, evVals), EvAwaitAttenChar(in.last, in.vals, in.rest)
    PROVE  EvJoins
<1>1. evVals.run = "ev" /\ evVals.known = TRUE /\ Sent = NumSounds + 1
  BY DEF Joined, Sent
<1>2. /\ Result(AttenInd("ev"), evVals) = "CM_ATTEN_CHAR"
      /\ Keeps(evVals, Stored(AttenInd("ev"), evVals))
  BY <1>1, JoinedReads, StoredReply
<1>3. \/ /\ Keeps(evVals, in.vals) /\ in.last \notin Remote
         /\ seSlac = "awaitAttenChar" => OneReply(in.rest, AttenInd("ev"))
         /\ seSlac # "awaitAttenChar" => LocalOnly(in.rest)
      \/ /\ Keeps(evVals, in.vals) /\ in.last = "CM_ATTEN_CHAR"
         /\ LocalOnly(in.rest) /\ seSlac = "awaitAttenChar"
  <2>1. CASE seSlac = "awaitAttenChar"
    <3>1. \/ OneReply(in.rest, AttenInd("ev")) /\ Keeps(evVals, in.vals) /\ in.last \notin Remote
          \/ /\ LocalOnly(in.rest)
             /\ in.last = Result(AttenInd("ev"), evVals) /\ in.vals = Stored(AttenInd("ev"), evVals)
      BY <2>1, JoinedReads, EvHears DEF SlacInv
    <3> QED BY <1>2, <2>1, <3>1
  <2>2. CASE seSlac # "awaitAttenChar"
    BY <2>2, JoinedReads, EvHears DEF SlacInv
  <2> QED BY <2>1, <2>2
<1>4. in.vals.run = "ev" /\ in.vals.known = TRUE
  BY <1>1, <1>3 DEF Keeps
<1>5. CASE in.last \notin Remote
  <2>1. EvLeaves(in.vals, in.rest) /\ EvTo("awaitAttenChar")
    BY <1>5 DEF EvAwaitAttenChar, EvToIf, Remote
  <2>2. evSlac' = "awaitAttenChar"
    BY <2>1, EvToStates
  <2>3. evVals' = in.vals /\ toEv' = in.rest /\ toSe' = toSe
    BY <2>1 DEF EvLeaves
  <2>4. Sent' = Sent
    BY <1>1, <2>2 DEF Sent
  <2>5. Follow(toSe', Got, Sent')
    BY <2>3, <2>4, JoinedReads
  <2>6. /\ seSlac = "awaitAttenChar" => OneReply(in.rest, AttenInd("ev"))
        /\ seSlac # "awaitAttenChar" => LocalOnly(in.rest)
    BY <1>3, <1>5 DEF Remote
  <2> QED BY <1>4, <2>2, <2>3, <2>5, <2>6 DEF EvJoins, EvEarly
<1>6. CASE in.last = "CM_ATTEN_CHAR"
  <2>1. LocalOnly(in.rest) /\ seSlac = "awaitAttenChar"
    BY <1>3, <1>6 DEF Remote
  <2>2. EvSendsToKnown(AttenRsp("ev"), in.vals, in.rest) /\ EvTo("awaitMatch")
    BY <1>4, <1>6 DEF EvAwaitAttenChar, EvToIf
  <2>3. AttenRsp("ev") = Script(Sent + 1)
    BY <1>1, ScriptReads
  <2>4. evSlac' = "awaitMatch" /\ evFresh' = TRUE
    BY <2>2, EvEnters
  <2>5. Sent' = Sent + 1
    BY <1>1, <2>4, JoinedReads DEF Sent
  <2>6. evVals' = in.vals /\ toEv' = in.rest /\ Follow(toSe', Got, Sent')
    <3>1. AttenRsp("ev").msg # "CM_SLAC_PARAM"
      BY MessagesMade
    <3> QED BY <1>4, <2>2, <2>3, <2>5, <3>1, EvSendsNext, Zenon
  <2> QED BY <1>4, <2>1, <2>4, <2>6 DEF EvJoins, EvEarly
<1> QED BY <1>3, <1>5, <1>6

LEMMA EvJoinsMatch ==
    ASSUME SlacInv, StepInv, Joined, evSlac = "awaitMatch", NEW take,
           NEW in, in = Arrived(take, toEv, evVals), EvAwaitMatch(in.last, in.vals, in.rest)
    PROVE  EvJoins
<1>1. LocalOnly(in.rest) /\ Keeps(evVals, in.vals) /\ in.last \notin Remote
  BY JoinedReads, EvHears DEF SlacInv
<1>2. in.vals.known = TRUE /\ in.vals.run = "ev" /\ seSlac \in {"awaitAttenChar", "awaitMatch"}
  BY <1>1 DEF Joined, Keeps
<1>3. EvTo("awaitMatch")
  BY <1>1 DEF EvAwaitMatch, EvToIf, Remote
<1>4. evSlac' = "awaitMatch" /\ evFresh' = FALSE
  BY <1>3, EvToStates
<1>5. Sent' = NumSounds + 3
  BY <1>4 DEF Sent
<1>6. CASE evFresh = TRUE
  <2>1. EvSendsToKnown(MatchReq("ev"), in.vals, in.rest)
    <3>1. EvSendsToKnown(MatchReq(in.vals.run), in.vals, in.rest)
      BY <1>6, Zenon DEF EvAwaitMatch
    <3> QED BY <1>2, <3>1
  <2>2. Sent = NumSounds + 2 /\ MatchReq("ev") = Script(Sent + 1)
    BY <1>6, ScriptReads DEF Sent
  <2>3. Sent' = Sent + 1
    BY <1>5, <2>2, JoinedReads
  <2>4. evVals' = in.vals /\ toEv' = in.rest /\ Follow(toSe', Got, Sent')
    <3>1. MatchReq("ev").msg # "CM_SLAC_PARAM"
      BY MessagesMade
    <3> QED BY <1>2, <2>1, <2>2, <2>3, <3>1, EvSendsNext, Zenon
  <2> QED BY <1>1, <1>2, <1>4, <2>4 DEF EvJoins
<1>7. CASE evFresh = FALSE
  <2>1. EvLeaves(in.vals, in.rest)
    BY <1>7, Zenon DEF EvAwaitMatch
  <2>2. evVals' = in.vals /\ toEv' = in.rest /\ toSe' = toSe
    BY <2>1 DEF EvLeaves
  <2>3. Sent' = Sent
    BY <1>5, <1>7 DEF Sent
  <2>4. Follow(toSe', Got, Sent')
    BY <2>2, <2>3, JoinedReads
  <2> QED BY <1>1, <1>2, <1>4, <2>2, <2>4 DEF EvJoins
<1> QED BY <1>6, <1>7, JoinedReads

LEMMA EvGoesOn ==
    ASSUME NoFaults, SlacInv, StepInv, Joined,
           NEW take, NEW tick, NEW late, NEW due, EvCycle(take, tick, late, due)
    PROVE  StepInv' /\ Joined'
<1> DEFINE in == Arrived(take, toEv, evVals)
<1>1. /\ \/ EvAwaitEstablishing(evOp = "slac", in.last, in.vals, in.rest, tick)
         \/ EvAwaitStartAttenChar(in.vals, in.rest)
         \/ EvAwaitSounding(in.vals, in.rest, tick)
         \/ EvAwaitAttenChar(in.last, in.vals, in.rest)
         \/ EvAwaitMatch(in.last, in.vals, in.rest)
      /\ plugged' = plugged /\ seVals' = seVals /\ seSlac' = seSlac /\ seFresh' = seFresh
      /\ seOp' = seOp
  BY EvCycleReads
  DEF Joined, EvEarly, EvAwaitGetSwVer, EvSlacIdle, EvAwaitSetKey, EvAwaitSettleTime,
      EvFailedOrMatched
<1>2. evOp' = "slac" /\ session' = session
  <2>1. EvOpOutcome
    BY EvCycleMoves DEF EvMoves
  <2> QED BY <2>1 DEF EvOpOutcome, Joined, EvEarly
<1>3. EvJoins
  <2>1. CASE EvAwaitEstablishing(evOp = "slac", in.last, in.vals, in.rest, tick)
    BY <2>1, EvJoinsEstablishing DEF EvAwaitEstablishing
  <2>2. CASE EvAwaitStartAttenChar(in.vals, in.rest)
    BY <2>2, EvJoinsStart DEF EvAwaitStartAttenChar
  <2>3. CASE EvAwaitSounding(in.vals, in.rest, tick)
    <3>1. evSlac = "awaitSounding"
      BY <2>3, Zenon DEF EvAwaitSounding
    <3> QED BY <2>3, <3>1, EvJoinsSounding
  <2>4. CASE EvAwaitAttenChar(in.last, in.vals, in.rest)
    BY <2>4, EvJoinsAttenChar DEF EvAwaitAttenChar
  <2>5. CASE EvAwaitMatch(in.last, in.vals, in.rest)
    BY <2>5, EvJoinsMatch DEF EvAwaitMatch
  <2> QED BY <1>1, <2>1, <2>2, <2>3, <2>4, <2>5
<1> HIDE DEF in
<1>4. Got' = Got
  BY <1>1 DEF Got
<1>5. Joined'
  BY <1>1, <1>2, <1>3, <1>4 DEF Joined, EvJoins
<1> QED BY <1>1, <1>3, <1>5 DEF StepInv, EvJoins

(* The confirmed vehicle sets the key, waits, and goes to communication.   *)
LEMMA EvEnds ==
    ASSUME NoFaults, SlacInv, Together,
           NEW take, NEW tick, NEW late, NEW due, EvCycle(take, tick, late, due)
    PROVE  /\ toSe' = toSe
           /\ \/ /\ evSlac' = "awaitMatch" /\ evFresh' = FALSE /\ OneReply(toEv', MatchCnf("ev"))
                 /\ evOp = "slac"
              \/ /\ evSlac' \in {"awaitSetKey", "awaitSettleTime", "Matched"}
                 /\ LocalOnly(toEv') /\ evOp = "slac"
              \/ evSlac' = "Idle" /\ LocalOnly(toEv') /\ evOp = "communication"
<1> DEFINE in == Arrived(take, toEv, evVals)
<1>1. /\ in.rest \in Seq(Frames) /\ evFresh \in BOOLEAN /\ evOp \in EvOpStates
      /\ LocalOnly(toEv) => LocalOnly(in.rest)
      /\ OneReply(toEv, MatchCnf("ev")) =>
             \/ OneReply(in.rest, MatchCnf("ev")) /\ in.last \notin Remote
             \/ LocalOnly(in.rest) /\ in.last = "CM_SLAC_MATCH"
  <2>1. evVals \in Values /\ evFresh \in BOOLEAN /\ evOp \in EvOpStates /\ TypeInv
    BY DEF SlacInv, TypeInv, TypeOK, PlcTypeOK, EvSlacTypeOK
  <2>2. Result(MatchCnf("ev"), evVals) = "CM_SLAC_MATCH"
    BY <2>1, StoredReply
  <2> QED BY <2>1, <2>2, EvHears
<1>2. \/ EvSlacIdle(evOp = "slac", in.vals, in.rest)
      \/ EvAwaitMatch(in.last, in.vals, in.rest)
      \/ EvAwaitSetKey(in.last, in.vals, in.rest)
      \/ EvAwaitSettleTime(in.vals, in.rest, tick)
      \/ EvFailedOrMatched(evOp = "slac", in.vals, in.rest) /\ evSlac = "Matched"
  BY EvCycleReads
  DEF Together, EvAwaitGetSwVer, EvAwaitEstablishing, EvAwaitStartAttenChar, EvAwaitSounding,
      EvAwaitAttenChar, EvFailedOrMatched
<1> HIDE DEF in
<1>3. /\ evSlac \in {"awaitMatch", "awaitSetKey", "awaitSettleTime"} => evOp = "slac"
      /\ evSlac = "Matched" => evOp \in {"slac", "communication"}
  BY <1>1 DEF SlacInv, EvPlaceInv, EvOpStates
<1>4. CASE EvAwaitMatch(in.last, in.vals, in.rest)
  <2>1. evSlac = "awaitMatch"
    BY <1>4, Zenon DEF EvAwaitMatch
  <2>2. evFresh = FALSE /\ OneReply(toEv, MatchCnf("ev"))
    BY <2>1 DEF Together
  <2>3. EvLeaves(in.vals, in.rest)
    BY <1>4, <2>2, Zenon DEF EvAwaitMatch
  <2>4. toSe' = toSe /\ toEv' = in.rest
    BY <2>3 DEF EvLeaves
  <2>5. CASE in.last = "CM_SLAC_MATCH"
    <3>1. EvTo("awaitSetKey")
      BY <1>4, <2>5, Zenon DEF EvAwaitMatch, EvToIf
    <3>2. evSlac' = "awaitSetKey" /\ LocalOnly(in.rest)
      BY <1>1, <2>2, <2>5, <3>1, EvToStates DEF Remote
    <3> QED BY <1>3, <2>1, <2>4, <3>2
  <2>6. CASE in.last # "CM_SLAC_MATCH"
    <3>1. EvTo("awaitMatch")
      BY <1>4, <2>1, <2>6, Zenon DEF EvAwaitMatch, EvToIf
    <3>2. evSlac' = "awaitMatch" /\ evFresh' = FALSE /\ OneReply(in.rest, MatchCnf("ev"))
      BY <1>1, <2>1, <2>2, <2>6, <3>1, EvToStates
    <3> QED BY <1>3, <2>1, <2>4, <3>2
  <2> QED BY <2>5, <2>6
<1>5. ASSUME evSlac # "awaitMatch"
      PROVE  LocalOnly(in.rest)
  BY <1>1, <1>5 DEF Together
<1>6. CASE EvAwaitSetKey(in.last, in.vals, in.rest)
  <2>1. evSlac = "awaitSetKey" /\ (EvTo("awaitSetKey") \/ EvTo("awaitSettleTime"))
    BY <1>6, Zenon DEF EvAwaitSetKey, EvToIf
  <2>2. EvSetsKey(in.vals, in.rest) \/ EvLeaves(in.vals, in.rest)
    BY <1>6, Zenon DEF EvAwaitSetKey
  <2>3. LocalOnly(toEv') /\ toSe' = toSe
    BY <1>1, <1>5, <2>1, <2>2, KeySetLocal DEF EvLeaves
  <2> QED BY <1>3, <2>1, <2>3, EvToStates
<1>7. CASE EvAwaitSettleTime(in.vals, in.rest, tick)
  <2>1. evSlac = "awaitSettleTime" /\ (EvTo("awaitSettleTime") \/ EvTo("Matched"))
    BY <1>7, Zenon DEF EvAwaitSettleTime, EvToIf
  <2>2. LocalOnly(toEv') /\ toSe' = toSe
    BY <1>5, <1>7, <2>1 DEF EvAwaitSettleTime, EvLeaves
  <2> QED BY <1>3, <2>1, <2>2, EvToStates
<1>8. CASE EvFailedOrMatched(evOp = "slac", in.vals, in.rest) /\ evSlac = "Matched"
  <2>1. (evOp = "slac" /\ EvTo("Matched")) \/ (evOp # "slac" /\ EvTo("Idle"))
    BY <1>8, Zenon DEF EvFailedOrMatched, EvToIf
  <2>2. LocalOnly(toEv') /\ toSe' = toSe
    BY <1>5, <1>8 DEF EvFailedOrMatched, EvLeaves
  <2> QED BY <1>3, <1>8, <2>1, <2>2, EvToStates
<1>9. CASE EvSlacIdle(evOp = "slac", in.vals, in.rest)
  <2>1. evSlac = "Idle"
    BY <1>9, Zenon DEF EvSlacIdle
  <2>2. evOp = "communication"
    BY <2>1 DEF Together
  <2>3. EvTo("Idle")
    BY <1>9, <2>1, <2>2 DEF EvSlacIdle, EvToIf
  <2>4. EvSetsKey(InitVals(EvNmk), in.rest) \/ EvLeaves(in.vals, in.rest)
    BY <1>9, Zenon DEF EvSlacIdle
  <2>5. LocalOnly(toEv') /\ toSe' = toSe
    BY <1>1, <1>5, <2>1, <2>4, KeySetLocal DEF EvLeaves
  <2> QED BY <2>2, <2>3, <2>5, EvToStates
<1> QED BY <1>2, <1>4, <1>6, <1>7, <1>8, <1>9

LEMMA EvFollows ==
    ASSUME NoFaults, SlacInv, StepInv, Together,
           NEW take, NEW tick, NEW late, NEW due, EvCycle(take, tick, late, due)
    PROVE  StepInv' /\ (Apart' \/ Together')
<1>1. /\ toSe' = toSe
      /\ \/ /\ evSlac' = "awaitMatch" /\ evFresh' = FALSE /\ OneReply(toEv', MatchCnf("ev"))
            /\ evOp = "slac"
         \/ /\ evSlac' \in {"awaitSetKey", "awaitSettleTime", "Matched"}
            /\ LocalOnly(toEv') /\ evOp = "slac"
         \/ evSlac' = "Idle" /\ LocalOnly(toEv') /\ evOp = "communication"
  BY EvEnds
<1>2. EvOpOutcome
  BY EvCycleMoves DEF EvMoves
<1>3. /\ plugged' = plugged /\ seVals' = seVals /\ seSlac' = seSlac /\ seFresh' = seFresh
      /\ seOp' = seOp
  BY EvCycleReads
<1>4. CASE evOp' = "outOfOperation"
  <2>1. session = "open" /\ session' = "closed" /\ evOp = "communication"
    BY <1>1, <1>2, <1>4 DEF EvOpOutcome, Together
  <2>2. seOp = "communication" /\ seSlac \in {"Matched", "Idle"}
    BY <2>1 DEF SlacInv, SePlaceInv, Together
  <2>3. EarlyOnly(toSe) /\ LocalOnly(toSe)
    BY DEF Together, LocalOnly, EarlyOnly, Early
  <2>4. Apart'
    BY <1>1, <1>3, <1>4, <2>1, <2>2, <2>3 DEF Apart, Together
  <2> QED BY <1>1, <1>3, <2>1, <2>4 DEF StepInv
<1>5. CASE evOp' # "outOfOperation"
  <2>1. session' = session /\ (evSlac' = "Idle" => evOp' = "communication")
    BY <1>1, <1>2, <1>5 DEF EvOpOutcome
  <2>2. Together'
    BY <1>1, <1>3, <2>1 DEF Together
  <2> QED BY <1>1, <1>3, <2>2 DEF StepInv
<1> QED BY <1>4, <1>5

(* A cycle of the vehicle without faults.                                  *)
LEMMA EvKeepsStep ==
    ASSUME NoFaults, SlacInv, StepInv, Ev
    PROVE  StepInv'
<1>1. PICK take, tick, late, due \in BOOLEAN : EvCycle(take, tick, late, due)
  BY DEF Ev
<1> QED BY <1>1, EvAlone, EvGoesOn, EvFollows DEF StepInv

LEMMA EvRestartKeepsStep ==
    ASSUME NoFaults, SlacInv, StepInv, EvRestart
    PROVE  StepInv'
<1>1. /\ evOp = "outOfOperation" /\ evSlac' = "awaitGetSwVer" /\ toEv' = <<>>
      /\ evOp' = "initialization" /\ plugged' = plugged /\ toSe' = toSe /\ seVals' = seVals
      /\ seSlac' = seSlac /\ seFresh' = seFresh /\ seOp' = seOp
      /\ session' = IF EvIsoMayEnd THEN EvHangsUp ELSE session
  BY DEF NoFaults, EvRestart, seSlacVars
<1>2. session' = session
  BY <1>1 DEF SlacInv, SePlaceInv, EvIsoMayEnd
<1>3. evSlac = "Idle"
  BY <1>1 DEF SlacInv, EvPlaceInv
<1>4. Apart
  BY <1>1, <1>3 DEF StepInv, Joined, Together, EvEarly
<1>5. LocalOnly(toEv')
  BY <1>1 DEF LocalOnly
<1>6. Apart'
  BY <1>1, <1>2, <1>3, <1>4, <1>5 DEF Apart
<1> QED BY <1>1, <1>6 DEF StepInv

-----------------------------------------------------------------------------
(* The station's cycles without faults *)

LEMMA SeCycleReads ==
    ASSUME NoFaults, NEW take, NEW tick, NEW late, NEW due, SeCycle(take, tick, late, due),
           NEW in, in = Arrived(take, toSe, seVals)
    PROVE  /\ \/ SeAwaitGetSwVer(in.last, in.vals, in.rest)
              \/ SeSlacIdle(seOp = "slac" /\ ~SeReadyNow, in.vals, in.rest)
              \/ SeAwaitEstablishing(in.last, in.vals, in.rest)
              \/ SeAwaitStartAttenChar(in.last, in.vals, in.rest)
              \/ SeAwaitSounding(in.vals, in.rest, FALSE)
              \/ SeAwaitAttenChar(in.last, in.vals, in.rest)
              \/ SeAwaitMatch(in.last, in.vals, in.rest)
              \/ SeAwaitSetKey(in.last, in.vals, in.rest)
              \/ SeFailedOrMatched(seOp = "slac" /\ ~SeReadyNow, in.vals, in.rest)
           /\ plugged' = plugged /\ evVals' = evVals /\ evSlac' = evSlac /\ evFresh' = evFresh
           /\ evOp' = evOp
<1> DEFINE start == seOp = "slac" /\ ~SeReadyNow
           over == tick /\ Timeouts
<1>1. /\ SeOperate(start, in.last, in.vals, in.rest, over, late)
      /\ late => SeMayBeLate
      /\ UNCHANGED <<plugged, evChip, evVals, evSlacVars, evOp>>
  BY Zenon DEF SeCycle
<1>2. ~late /\ ~over
  BY <1>1, Zenon DEF SeMayBeLate, NoFaults
<1>3. plugged' = plugged /\ evVals' = evVals /\ evSlac' = evSlac /\ evFresh' = evFresh
      /\ evOp' = evOp
  BY <1>1 DEF evSlacVars
<1> HIDE DEF over
<1>4. SeAwaitSounding(in.vals, in.rest, over) => SeAwaitSounding(in.vals, in.rest, FALSE)
  BY <1>2, Zenon DEF SeAwaitSounding
<1> QED BY <1>1, <1>2, <1>3, <1>4, Zenon DEF SeOperate

(* The operation state and the session in the same cycle.                  *)
LEMMA SeOpReads ==
    ASSUME NoFaults, SlacInv, StepInv, NEW take, NEW tick, NEW late, NEW due,
           SeCycle(take, tick, late, due)
    PROVE  /\ seOp' \in {"stateBtimer", "slac", "communication"} => plugged' = TRUE
           /\ seOp # "communication" => session' = session
           /\ seOp = "slac" => seOp' = IF SeFinished THEN "communication" ELSE "slac"
           /\ seOp = "communication" =>
                  \/ seOp' = "communication" /\ session' = session
                  \/ seOp' = "plug" /\ session = "closed" /\ session' = "none"
           /\ seOp # "communication" /\ ~SeFinished => seOp' # "communication"
<1>1. /\ seOp' = SeOpNext(due)
      /\ session' = IF seOp = "communication" /\ seOp' # "communication"
                    THEN SeHangsUp ELSE session
      /\ due /\ seOp = "communication" => session = "closed"
      /\ plugged' = plugged
  BY Zenon DEF SeCycle, SeIsoEnds
<1>2. /\ seOp \in {"stateBtimer", "slac", "communication"} => plugged = TRUE
      /\ plugged \in BOOLEAN /\ seOp \in SeOpStates
  BY DEF StepInv, SlacInv, TypeInv, TypeOK, PlcTypeOK
<1>3. SeFinished => seOp \in {"slac", "communication"}
  BY DEF SeFinished, StepInv, Apart, Joined, Together
<1>4. seOp' \in {"stateBtimer", "slac", "communication"} => plugged' = TRUE
  <2>1. CASE plugged = TRUE
    BY <1>1, <2>1
  <2>2. CASE plugged = FALSE
    <3>1. seOp \in {"initialization", "plug"} /\ ~SeFinished
      BY <1>2, <1>3, <2>2 DEF SeOpStates
    <3>2. seOp' \in {"plug", seOp}
      BY <1>1, <2>2, <3>1, Zenon DEF SeOpNext
    <3> QED BY <3>1, <3>2
  <2> QED BY <1>2, <2>1, <2>2
<1>5. seOp # "communication" => session' = session
  BY <1>1
<1>6. ASSUME seOp = "slac"
      PROVE  seOp' = IF SeFinished THEN "communication" ELSE "slac"
  BY <1>1, <1>2, <1>6 DEF SeOpNext
<1>7. ASSUME seOp = "communication"
      PROVE  \/ seOp' = "communication" /\ session' = session
             \/ seOp' = "plug" /\ session = "closed" /\ session' = "none"
  <2>1. CASE due
    <3>1. seOp' = "plug" /\ session = "closed"
      BY <1>1, <1>2, <1>7, <2>1 DEF SeOpNext
    <3> QED BY <1>1, <1>7, <3>1 DEF SeHangsUp
  <2>2. CASE ~due
    <3>1. seOp' = "communication"
      BY <1>1, <1>2, <1>7, <2>2 DEF SeOpNext
    <3> QED BY <1>1, <3>1
  <2> QED BY <2>1, <2>2
<1>8. seOp # "communication" /\ ~SeFinished => seOp' # "communication"
  BY <1>1 DEF SeOpNext
<1> QED BY <1>4, <1>5, <1>6, <1>7, <1>8

LEMMA SeToStates ==
    ASSUME NEW s
    PROVE  SeTo(s) => seSlac' = s /\ (s # seSlac => seFresh' = TRUE)
  BY Zenon DEF SeTo

LEMMA SeEnters ==
    ASSUME NEW s, SeTo(s), s # seSlac
    PROVE  seSlac' = s /\ seFresh' = TRUE
  BY Zenon DEF SeTo

(* The answers of the station's modem.                                     *)
LEMMA SeKeyAsked ==
    ASSUME NEW rest \in Seq(Frames), NEW w, SeAsksKey(w, rest)
    PROVE  /\ seVals' = w
           /\ LocalOnly(rest) => LocalOnly(toSe')
           /\ EarlyOnly(rest) => EarlyOnly(toSe')
<1>1. PICK ok \in ModemAnswers : seVals' = w /\ toSe' = Append(rest, SetKeyCnf(ok))
  BY DEF SeAsksKey
<1>2. ok \in BOOLEAN
  BY SlacAssumption
<1>3. InitVals(EvNmk) \in Values
  BY InitValsTyped DEF Keys
<1>4. SetKeyCnf(ok) \in Frames /\ Local(SetKeyCnf(ok)) /\ Early(SetKeyCnf(ok))
  BY <1>2, <1>3, FramesMade, MessagesMade, FrameSubsets DEF Local, Early
<1>5. /\ LocalOnly(rest) => LocalOnly(Append(rest, SetKeyCnf(ok)))
      /\ EarlyOnly(rest) => EarlyOnly(Append(rest, SetKeyCnf(ok)))
  BY <1>4, PutLocal
<1> QED BY <1>1, <1>5

(* What the station says to its vehicle gets there.                        *)
LEMMA SaidFrame ==
    ASSUME plugged = TRUE, NEW f, NEW w, w.pev = "ev", SeTransmits(f, w),
           f.msg # "CM_SLAC_PARAM" \/ f.kind # "REQ"
    PROVE  toEv' = Append(toEv, f)
<1>1. toEv' = Transmit(toEv, f)
  BY DEF SeTransmits
<1>2. Transmit(toEv, f) = Append(toEv, f)
  BY Zenon DEF Transmit, Carry
<1> QED BY <1>1, <1>2

(* The station before its answer and after the end of a session.           *)
LEMMA SeAlone ==
    ASSUME NoFaults, SlacInv, StepInv, Apart,
           NEW take, NEW tick, NEW late, NEW due, SeCycle(take, tick, late, due)
    PROVE  StepInv' /\ (Apart' \/ Joined')
<1> DEFINE in == Arrived(take, toSe, seVals)
           start == seOp = "slac" /\ ~SeReadyNow
<1>1. /\ in.vals \in Values /\ in.rest \in Seq(Frames)
      /\ LocalOnly(toSe) => LocalOnly(in.rest) /\ in.last \notin Remote
      /\ EarlyOnly(in.rest) /\ in.vals.sounds = seVals.sounds
      /\ \/ in.last \notin Remote
         \/ in.last = "CM_SLAC_PARAM" /\ in.vals.run = "ev" /\ in.vals.pev = "ev"
  BY SeHears DEF SlacInv, Apart
<1>2. /\ \/ SeAwaitGetSwVer(in.last, in.vals, in.rest)
         \/ SeSlacIdle(start, in.vals, in.rest)
         \/ SeAwaitEstablishing(in.last, in.vals, in.rest)
         \/ SeFailedOrMatched(start, in.vals, in.rest) /\ seSlac = "Matched"
      /\ plugged' = plugged /\ evVals' = evVals /\ evSlac' = evSlac /\ evFresh' = evFresh
      /\ evOp' = evOp
  BY SeCycleReads
  DEF Apart, SeAwaitStartAttenChar, SeAwaitSounding, SeAwaitAttenChar, SeAwaitMatch,
      SeAwaitSetKey, SeFailedOrMatched
<1>3. /\ seOp' \in {"stateBtimer", "slac", "communication"} => plugged' = TRUE
      /\ seOp # "communication" => session' = session
      /\ seOp = "slac" => seOp' = IF SeFinished THEN "communication" ELSE "slac"
      /\ seOp = "communication" =>
             \/ seOp' = "communication" /\ session' = session
             \/ seOp' = "plug" /\ session = "closed" /\ session' = "none"
      /\ seOp # "communication" /\ ~SeFinished => seOp' # "communication"
  BY SeOpReads
<1>4. session' = IF seOp' = "communication" THEN "closed" ELSE "none"
  BY <1>3 DEF Apart, SeFinished
<1>5. start => seOp = "slac"
  OBVIOUS
<1>6. seFresh \in BOOLEAN /\ toEv \in Seq(Frames)
  BY FrameSubsets DEF SlacInv, TypeInv, TypeOK, SeSlacTypeOK
<1> HIDE DEF in, start
<1>7. ASSUME /\ seSlac' \in {"awaitGetSwVer", "Idle", "awaitEstablishing"}
             /\ seSlac' = "awaitEstablishing" => seOp' = "slac"
             /\ seSlac' = "awaitEstablishing" \/ (seSlac' = "Idle" /\ seFresh' = FALSE)
                    => seVals'.sounds = 0
             /\ EarlyOnly(toSe') /\ toEv' = toEv
             /\ evSlac = "awaitEstablishing" \/ LocalOnly(toSe')
      PROVE  StepInv' /\ Apart'
  <2>1. Apart'
    BY <1>2, <1>4, <1>7 DEF Apart
  <2> QED BY <1>2, <1>3, <2>1 DEF StepInv
<1>8. CASE SeAwaitGetSwVer(in.last, in.vals, in.rest)
  <2>1. seSlac = "awaitGetSwVer" /\ (SeTo("awaitGetSwVer") \/ SeTo("Idle"))
    BY <1>8, Zenon DEF SeAwaitGetSwVer, SeToIf
  <2>2. /\ toSe' = in.rest \/ toSe' = Append(in.rest, SwVerCnf)
        /\ toEv' = toEv
    BY <1>8, Zenon DEF SeAwaitGetSwVer, SeLeaves
  <2>3. SwVerCnf \in Frames /\ Local(SwVerCnf) /\ Early(SwVerCnf)
    BY EvFramesMade, FrameSubsets, MessagesMade DEF Local, Early
  <2>4. /\ EarlyOnly(Append(in.rest, SwVerCnf))
        /\ LocalOnly(in.rest) => LocalOnly(Append(in.rest, SwVerCnf))
    BY <1>1, <2>3, PutLocal
  <2>5. EarlyOnly(toSe') /\ (evSlac = "awaitEstablishing" \/ LocalOnly(toSe'))
    BY <1>1, <2>2, <2>4 DEF Apart
  <2>6. seSlac' = "awaitGetSwVer" \/ (seSlac' = "Idle" /\ seFresh' = TRUE)
    BY <2>1, SeToStates
  <2> QED BY <1>7, <2>2, <2>5, <2>6
<1>9. CASE SeSlacIdle(start, in.vals, in.rest)
  <2>1. seSlac = "Idle" /\ (SeTo("Idle") \/ (seOp = "slac" /\ SeTo("awaitEstablishing")))
    <3>1. seSlac = "Idle" /\ (SeTo("Idle") \/ (start /\ SeTo("awaitEstablishing")))
      BY <1>9, Zenon DEF SeSlacIdle, SeToIf
    <3> QED BY <1>5, <3>1
  <2>2. \/ SeAsksKey(InitVals(SeNmk), in.rest) /\ toEv' = toEv
        \/ seFresh = FALSE /\ SeLeaves(in.vals, in.rest)
    BY <1>6, <1>9, Zenon DEF SeSlacIdle
  <2>3. /\ EarlyOnly(toSe') /\ toEv' = toEv
        /\ LocalOnly(in.rest) => LocalOnly(toSe')
        /\ seVals' = InitVals(SeNmk) \/ (seFresh = FALSE /\ seVals' = in.vals)
    BY <1>1, <2>2, SeKeyAsked DEF SeLeaves
  <2>4. seVals'.sounds = 0
    BY <1>1, <2>1, <2>3 DEF InitVals, Apart
  <2>5. seSlac' = "Idle" \/ (seSlac' = "awaitEstablishing" /\ seOp' = "slac")
    BY <1>3, <2>1, SeToStates DEF SeFinished
  <2>6. evSlac = "awaitEstablishing" \/ LocalOnly(toSe')
    BY <1>1, <2>3 DEF Apart
  <2> QED BY <1>7, <2>3, <2>4, <2>5, <2>6
<1>10. CASE SeFailedOrMatched(start, in.vals, in.rest) /\ seSlac = "Matched"
  <2>1. SeTo("Idle")
    <3>1. ~start
      BY <1>5, <1>10 DEF Apart
    <3> QED BY <1>10, <3>1, Zenon DEF SeFailedOrMatched, SeToIf
  <2>2. seSlac' = "Idle" /\ seFresh' = TRUE
    BY <1>10, <2>1, SeEnters
  <2>3. toSe' = in.rest /\ toEv' = toEv
    BY <1>10 DEF SeFailedOrMatched, SeLeaves
  <2>4. evSlac = "awaitEstablishing" \/ LocalOnly(toSe')
    BY <1>1, <2>3 DEF Apart
  <2> QED BY <1>1, <1>7, <2>2, <2>3, <2>4
<1>11. CASE SeAwaitEstablishing(in.last, in.vals, in.rest) /\ in.last # "CM_SLAC_PARAM"
  <2>1. seSlac = "awaitEstablishing" /\ SeLeaves(in.vals, in.rest) /\ SeTo("awaitEstablishing")
    BY <1>11, Zenon DEF SeAwaitEstablishing, SeToIf
  <2>2. toSe' = in.rest /\ toEv' = toEv /\ seVals' = in.vals
    BY <2>1 DEF SeLeaves
  <2>3. seOp = "slac" /\ seOp' = "slac" /\ seVals.sounds = 0
    BY <1>3, <2>1 DEF Apart, SeFinished
  <2>4. evSlac = "awaitEstablishing" \/ LocalOnly(toSe')
    BY <1>1, <2>2 DEF Apart
  <2> QED BY <1>1, <1>7, <2>1, <2>2, <2>3, <2>4, SeToStates
<1>12. CASE SeAwaitEstablishing(in.last, in.vals, in.rest) /\ in.last = "CM_SLAC_PARAM"
  <2>1. /\ seSlac = "awaitEstablishing" /\ SeTo("awaitStartAttenChar")
        /\ SeSends(ParamCnf(in.vals.run), in.vals, in.rest)
    BY <1>12, Zenon DEF SeAwaitEstablishing, SeToIf
  <2>2. in.vals.run = "ev" /\ in.vals.pev = "ev"
    BY <1>1, <1>12 DEF Remote
  <2>3. evSlac = "awaitEstablishing" /\ LocalOnly(toEv)
    BY <1>1, <1>12 DEF Apart, Remote
  <2>4. seOp = "slac" /\ seOp' = "slac" /\ seVals.sounds = 0 /\ session' = "none" /\ plugged = TRUE
    BY <1>3, <1>4, <2>1 DEF Apart, SeFinished, StepInv
  <2>5. seVals' = in.vals /\ toSe' = in.rest /\ toEv' = Append(toEv, ParamCnf("ev"))
    <3>1. /\ seVals' = in.vals /\ toSe' = in.rest
          /\ SeTransmits(ParamCnf("ev"), in.vals)
      BY <2>1, <2>2 DEF SeSends
    <3>2. ParamCnf("ev").kind # "REQ"
      BY DEF ParamCnf, Frame
    <3> QED BY <2>2, <2>4, <3>1, <3>2, SaidFrame
  <2>6. OneReply(toEv', ParamCnf("ev"))
    <3>1. ParamCnf("ev") \in Frames
      BY EvFramesMade, FrameSubsets
    <3>2. OneReply(Append(toEv, ParamCnf("ev")), ParamCnf("ev"))
      BY <1>6, <2>3, <3>1, PutLocal
    <3> QED BY <2>5, <3>2
  <2>7. seSlac' = "awaitStartAttenChar"
    BY <2>1, SeToStates
  <2>8. Got' = 0 /\ Sent' = 0
    BY <1>2, <2>3, <2>7 DEF Got, Sent
  <2>9. Follow(toSe', Got', Sent')
    <3>1. Follow(in.rest, 0, 0)
      BY <1>1, FollowNone
    <3> QED BY <2>5, <2>8, <3>1
  <2>10. evOp = "slac"
    BY <2>3 DEF SlacInv, TypeInv, TypeOK, EvOpStates, EvPlaceInv
  <2>11. Joined'
    BY <1>1, <1>2, <2>2, <2>3, <2>4, <2>5, <2>6, <2>7, <2>9, <2>10 DEF Joined, EvEarly
  <2> QED BY <1>2, <1>3, <2>11 DEF StepInv
<1> QED BY <1>2, <1>8, <1>9, <1>10, <1>11, <1>12

(* The station after the confirmation.                                     *)
LEMMA SeFollows ==
    ASSUME NoFaults, SlacInv, StepInv, Together,
           NEW take, NEW tick, NEW late, NEW due, SeCycle(take, tick, late, due)
    PROVE  StepInv' /\ Together'
<1> DEFINE in == Arrived(take, toSe, seVals)
           start == seOp = "slac" /\ ~SeReadyNow
<1>1. /\ in.vals \in Values /\ in.rest \in Seq(Frames)
      /\ LocalOnly(in.rest) /\ in.last \notin Remote
      /\ Keeps(seVals, in.vals)
  BY SeHears DEF SlacInv, Together
<1>2. /\ \/ SeSlacIdle(start, in.vals, in.rest)
         \/ SeAwaitEstablishing(in.last, in.vals, in.rest)
         \/ SeAwaitSetKey(in.last, in.vals, in.rest)
         \/ SeFailedOrMatched(start, in.vals, in.rest) /\ seSlac = "Matched"
      /\ plugged' = plugged /\ evVals' = evVals /\ evSlac' = evSlac /\ evFresh' = evFresh
      /\ evOp' = evOp
  BY SeCycleReads
  DEF Together, SeAwaitGetSwVer, SeAwaitStartAttenChar, SeAwaitSounding, SeAwaitAttenChar,
      SeAwaitMatch, SeFailedOrMatched
<1>3. /\ seOp' \in {"stateBtimer", "slac", "communication"} => plugged' = TRUE
      /\ seOp # "communication" => session' = session
      /\ seOp = "slac" => seOp' = IF SeFinished THEN "communication" ELSE "slac"
      /\ seOp = "communication" =>
             \/ seOp' = "communication" /\ session' = session
             \/ seOp' = "plug" /\ session = "closed" /\ session' = "none"
  BY SeOpReads
<1>4. session' = session /\ seOp' = IF SeFinished THEN "communication" ELSE seOp
  BY <1>3 DEF Together
<1>5. start => seOp = "slac"
  OBVIOUS
<1>6. seFresh \in BOOLEAN
  BY DEF SlacInv, TypeInv, TypeOK, SeSlacTypeOK
<1> HIDE DEF in, start
<1>7. ASSUME /\ seSlac' \in {"awaitSetKey", "awaitEstablishing", "Matched", "Idle"}
             /\ seSlac' \in {"awaitSetKey", "awaitEstablishing"} =>
                    seSlac \in {"awaitSetKey", "awaitEstablishing"}
             /\ seSlac' = "Idle" => seSlac \in {"Matched", "Idle"}
             /\ seSlac' = "Idle" /\ seFresh' = FALSE => seVals'.sounds = 0
             /\ LocalOnly(toSe') /\ toEv' = toEv
      PROVE  StepInv' /\ Together'
  <2>1. Together'
    BY <1>2, <1>4, <1>7 DEF Together, SeFinished
  <2> QED BY <1>2, <1>3, <2>1 DEF StepInv, Together
<1>8. CASE SeAwaitSetKey(in.last, in.vals, in.rest)
  <2>1. /\ seSlac = "awaitSetKey" /\ SeLeaves(in.vals, in.rest)
        /\ SeTo("awaitSetKey") \/ SeTo("awaitEstablishing") \/ SeTo("Matched")
    BY <1>8, Zenon DEF SeAwaitSetKey, SeToIf
  <2>2. seSlac' \in {"awaitSetKey", "awaitEstablishing", "Matched"}
    BY <2>1, SeToStates
  <2>3. toSe' = in.rest /\ toEv' = toEv
    BY <2>1 DEF SeLeaves
  <2> QED BY <1>1, <1>7, <2>1, <2>2, <2>3
<1>9. CASE SeAwaitEstablishing(in.last, in.vals, in.rest)
  <2>1. in.last # "CM_SLAC_PARAM"
    BY <1>1 DEF Remote
  <2>2. seSlac = "awaitEstablishing" /\ SeLeaves(in.vals, in.rest) /\ SeTo("awaitEstablishing")
    BY <1>9, <2>1, Zenon DEF SeAwaitEstablishing, SeToIf
  <2>3. seSlac' = "awaitEstablishing" /\ toSe' = in.rest /\ toEv' = toEv
    BY <2>2, SeToStates DEF SeLeaves
  <2> QED BY <1>1, <1>7, <2>2, <2>3
<1>10. CASE SeFailedOrMatched(start, in.vals, in.rest) /\ seSlac = "Matched"
  <2>1. SeLeaves(in.vals, in.rest) /\ (SeTo("Matched") \/ SeTo("Idle"))
    BY <1>10, Zenon DEF SeFailedOrMatched, SeToIf
  <2>2. seSlac' = "Matched" \/ (seSlac' = "Idle" /\ seFresh' = TRUE)
    BY <1>10, <2>1, SeToStates
  <2>3. toSe' = in.rest /\ toEv' = toEv
    BY <2>1 DEF SeLeaves
  <2> QED BY <1>1, <1>7, <1>10, <2>2, <2>3
<1>11. CASE SeSlacIdle(start, in.vals, in.rest)
  <2>1. seSlac = "Idle" /\ ~start
    BY <1>5, <1>11 DEF SeSlacIdle, Together
  <2>2. SeTo("Idle")
    BY <1>11, <2>1, Zenon DEF SeSlacIdle, SeToIf
  <2>3. \/ SeAsksKey(InitVals(SeNmk), in.rest) /\ toEv' = toEv
        \/ seFresh = FALSE /\ SeLeaves(in.vals, in.rest)
    BY <1>6, <1>11, Zenon DEF SeSlacIdle
  <2>4. /\ LocalOnly(toSe') /\ toEv' = toEv
        /\ seVals' = InitVals(SeNmk) \/ (seFresh = FALSE /\ seVals' = in.vals)
    BY <1>1, <2>3, SeKeyAsked DEF SeLeaves
  <2>5. seVals'.sounds = 0
    BY <1>1, <2>1, <2>4 DEF InitVals, Together, Keeps
  <2>6. seSlac' = "Idle"
    BY <2>2, SeToStates
  <2> QED BY <1>7, <2>1, <2>4, <2>5, <2>6
<1> QED BY <1>2, <1>8, <1>9, <1>10, <1>11

(* What a cycle of a station in a run of the process leaves of Joined.     *)
SeJoins ==
    /\ seSlac' \in {"awaitStartAttenChar", "awaitSounding", "awaitAttenChar", "awaitMatch"}
    /\ seSlac' = "awaitStartAttenChar" => seVals'.sounds = 0
    /\ seSlac' = "awaitSounding" => seVals'.sounds < NumSounds
    /\ seVals'.run = "ev" /\ seVals'.pev = "ev"
    /\ evSlac = "awaitMatch" => seSlac' \in {"awaitAttenChar", "awaitMatch"}
    /\ Follow(toSe', Got', Sent)
    /\ \/ /\ toEv' = toEv
          /\ evSlac = "awaitAttenChar" =>
                 (seSlac' = "awaitAttenChar" <=> seSlac = "awaitAttenChar")
       \/ /\ OneReply(toEv', AttenInd("ev"))
          /\ seSlac' = "awaitAttenChar" /\ evSlac = "awaitAttenChar"

(* A station in a run of the process takes what is next in the script, or  *)
(* something that does not matter to it.                                   *)
LEMMA JoinedHears ==
    ASSUME SlacInv, StepInv, Joined, NEW take, NEW in, in = Arrived(take, toSe, seVals)
    PROVE  /\ in.vals \in Values /\ in.rest \in Seq(Frames)
           /\ \/ /\ Follow(in.rest, Got, Sent) /\ in.vals.sounds = seVals.sounds
                 /\ in.vals.run = "ev" /\ in.vals.pev = "ev"
                 /\ in.last \in Remote => in.last = "CM_SLAC_PARAM"
              \/ /\ Follow(in.rest, Got + 1, Sent) /\ Got < Sent
                 /\ in.last = Result(Script(Got + 1), seVals)
                 /\ in.vals = Stored(Script(Got + 1), seVals)
<1>1. Got \in Nat /\ Sent \in Nat /\ Follow(toSe, Got, Sent) /\ TypeInv
  BY JoinedReads DEF SlacInv
<1>2. seVals.run = "ev" /\ seVals.pev = "ev"
  BY DEF Joined
<1>3. \A got, sent \in Nat : Follow(toSe, got, sent) =>
          \/ /\ Follow(in.rest, got, sent) /\ in.vals.sounds = seVals.sounds
             /\ seVals.run = "ev" => in.vals.run = "ev"
             /\ seVals.pev = "ev" => in.vals.pev = "ev"
             /\ in.last \in Remote => in.last = "CM_SLAC_PARAM"
          \/ /\ Follow(in.rest, got + 1, sent) /\ got < sent
             /\ in.last = Result(Script(got + 1), seVals)
             /\ in.vals = Stored(Script(got + 1), seVals)
  BY <1>1, SeHears
<1>4. in.vals \in Values /\ in.rest \in Seq(Frames)
  BY <1>1, SeHears
<1> QED BY <1>1, <1>2, <1>3, <1>4

LEMMA SeJoinsStart ==
    ASSUME SlacInv, StepInv, Joined, seSlac = "awaitStartAttenChar", NEW take,
           NEW in, in = Arrived(take, toSe, seVals),
           SeAwaitStartAttenChar(in.last, in.vals, in.rest)
    PROVE  SeJoins
<1>1. /\ seVals.run = "ev" /\ seVals.pev = "ev" /\ seVals.sounds = 0 /\ seVals \in Values
      /\ evSlac # "awaitMatch"
  BY JoinedReads DEF Joined
<1>2. Got = 0
  BY DEF Got
<1>3. toSe' = in.rest /\ seVals' = in.vals /\ toEv' = toEv
  BY DEF SeAwaitStartAttenChar, SeLeaves
<1>4. \/ /\ Follow(in.rest, 0, Sent) /\ in.vals.sounds = 0
         /\ in.vals.run = "ev" /\ in.vals.pev = "ev"
         /\ in.last # "CM_START_ATTEN_CHAR"
      \/ /\ Follow(in.rest, 1, Sent) /\ in.vals.sounds = 0
         /\ in.vals.run = "ev" /\ in.vals.pev = "ev"
         /\ in.last = "CM_START_ATTEN_CHAR"
  <2>1. \/ /\ Follow(in.rest, 0, Sent) /\ in.vals.sounds = seVals.sounds
           /\ in.vals.run = "ev" /\ in.vals.pev = "ev"
           /\ in.last \in Remote => in.last = "CM_SLAC_PARAM"
        \/ /\ Follow(in.rest, 0 + 1, Sent)
           /\ in.last = Result(Script(0 + 1), seVals)
           /\ in.vals = Stored(Script(0 + 1), seVals)
    BY <1>2, JoinedHears
  <2>2. 0 + 1 = 1 /\ Script(1) = StartAttenInd("ev")
    BY ScriptReads
  <2> QED BY <1>1, <2>1, <2>2, StoredScript DEF Remote, Keeps
<1>5. CASE in.last = "CM_START_ATTEN_CHAR"
  <2>1. SeTo("awaitSounding")
    BY <1>5, Zenon DEF SeAwaitStartAttenChar, SeToIf
  <2>2. seSlac' = "awaitSounding"
    BY <2>1, SeToStates
  <2>3. Got' = 1
    BY <1>3, <1>4, <1>5, <2>2 DEF Got
  <2> QED BY <1>1, <1>3, <1>4, <1>5, <2>2, <2>3, ScriptReads DEF SeJoins
<1>6. CASE in.last # "CM_START_ATTEN_CHAR"
  <2>1. SeTo("awaitStartAttenChar")
    BY <1>6, Zenon DEF SeAwaitStartAttenChar, SeToIf
  <2>2. seSlac' = "awaitStartAttenChar"
    BY <2>1, SeToStates
  <2>3. Got' = 0
    BY <2>2 DEF Got
  <2> QED BY <1>1, <1>3, <1>4, <1>6, <2>2, <2>3 DEF SeJoins
<1> QED BY <1>5, <1>6

(* The station counts as many sounds as the vehicle sends.                 *)
LEMMA SeJoinsSounding ==
    ASSUME SlacInv, StepInv, Joined, seSlac = "awaitSounding", NEW take,
           NEW in, in = Arrived(take, toSe, seVals),
           SeAwaitSounding(in.vals, in.rest, FALSE)
    PROVE  SeJoins
<1>1. /\ seVals.run = "ev" /\ seVals.pev = "ev" /\ seVals.sounds < NumSounds
      /\ seVals \in Values /\ evSlac # "awaitMatch" /\ plugged = TRUE
      /\ NumSounds \in Nat /\ NumSounds >= 1 /\ seVals.sounds \in Nat
  <2>1. seVals \in Values /\ plugged = TRUE /\ NumSounds \in Nat /\ NumSounds >= 1
    BY JoinedReads
  <2> QED BY <2>1 DEF Joined, Values
<1>2. Got = 1 + seVals.sounds
  BY DEF Got
<1>3. \/ /\ Follow(in.rest, Got, Sent) /\ in.vals.sounds = seVals.sounds
      \/ /\ Follow(in.rest, Got + 1, Sent) /\ Got < Sent
         /\ in.vals.sounds = seVals.sounds + 1
  <2>1. \/ /\ Follow(in.rest, Got, Sent) /\ in.vals.sounds = seVals.sounds
        \/ /\ Follow(in.rest, Got + 1, Sent) /\ Got < Sent
           /\ in.vals = Stored(Script(Got + 1), seVals)
    BY JoinedHears
  <2>2. Script(Got + 1) = ProfileInd
    BY <1>1, <1>2, ScriptReads
  <2>3. Stored(ProfileInd, seVals).sounds = seVals.sounds + 1
    BY <1>1, StoredScript DEF CountSound
  <2> QED BY <2>1, <2>2, <2>3
<1>4. in.vals.run = "ev" /\ in.vals.pev = "ev"
  <2>1. \/ in.vals.run = "ev" /\ in.vals.pev = "ev"
        \/ in.vals = Stored(Script(Got + 1), seVals)
    BY JoinedHears
  <2>2. Script(Got + 1) = ProfileInd
    BY <1>1, <1>2, ScriptReads
  <2> QED BY <1>1, <2>1, <2>2, StoredScript
<1>5. CASE in.vals.sounds = NumSounds
  <2>1. Follow(in.rest, NumSounds + 1, Sent) /\ NumSounds < Sent
    <3>1. Follow(in.rest, Got + 1, Sent) /\ Got < Sent /\ Got + 1 = NumSounds + 1 /\ Got = NumSounds
      BY <1>1, <1>2, <1>3, <1>5
    <3> QED BY <3>1
  <2>2. evSlac = "awaitAttenChar"
    BY <1>1, <2>1 DEF Sent, Joined, EvEarly
  <2>3. SeTo("awaitAttenChar") /\ SeSends(AttenInd("ev"), in.vals, in.rest)
    BY <1>4, <1>5 DEF SeAwaitSounding, SeToIf
  <2>4. seSlac' = "awaitAttenChar" /\ toSe' = in.rest /\ seVals' = in.vals
    BY <2>3, SeToStates DEF SeSends
  <2>5. toEv' = Append(toEv, AttenInd("ev"))
    <3>1. SeTransmits(AttenInd("ev"), in.vals)
      BY <2>3 DEF SeSends
    <3>2. AttenInd("ev").msg # "CM_SLAC_PARAM"
      BY MessagesMade
    <3> QED BY <1>1, <1>4, <3>1, <3>2, SaidFrame
  <2>6. OneReply(toEv', AttenInd("ev"))
    <3>1. AttenInd("ev") \in Frames
      BY EvFramesMade, FrameSubsets
    <3>2. LocalOnly(toEv) /\ toEv \in Seq(Frames)
      BY <2>2, JoinedReads
    <3>3. OneReply(Append(toEv, AttenInd("ev")), AttenInd("ev"))
      BY <3>1, <3>2, PutLocal
    <3> QED BY <2>5, <3>3
  <2>7. Got' = NumSounds + 1
    BY <2>4 DEF Got
  <2> QED BY <1>4, <2>1, <2>2, <2>4, <2>6, <2>7 DEF SeJoins
<1>6. CASE in.vals.sounds # NumSounds
  <2>1. SeTo("awaitSounding") /\ SeLeaves(in.vals, in.rest)
    BY <1>6 DEF SeAwaitSounding, SeToIf
  <2>2. seSlac' = "awaitSounding" /\ toSe' = in.rest /\ seVals' = in.vals /\ toEv' = toEv
    BY <2>1, SeToStates DEF SeLeaves
  <2>3. Got' = 1 + in.vals.sounds
    BY <2>2 DEF Got
  <2>4. Follow(toSe', Got', Sent) /\ in.vals.sounds < NumSounds
    <3>1. CASE in.vals.sounds = seVals.sounds /\ Follow(in.rest, Got, Sent)
      <4>1. Got' = Got
        BY <1>2, <2>3, <3>1
      <4> QED BY <1>1, <2>2, <3>1, <4>1
    <3>2. CASE in.vals.sounds = seVals.sounds + 1 /\ Follow(in.rest, Got + 1, Sent)
      <4>1. Got' = Got + 1
        BY <1>1, <1>2, <2>3, <3>2
      <4> QED BY <1>1, <1>6, <2>2, <3>2, <4>1
    <3> QED BY <1>3, <3>1, <3>2
  <2> QED BY <1>1, <1>4, <2>2, <2>4 DEF SeJoins
<1> QED BY <1>5, <1>6

LEMMA SeJoinsAttenChar ==
    ASSUME SlacInv, StepInv, Joined, seSlac = "awaitAttenChar", NEW take,
           NEW in, in = Arrived(take, toSe, seVals),
           SeAwaitAttenChar(in.last, in.vals, in.rest)
    PROVE  SeJoins
<1>1. /\ seVals.run = "ev" /\ seVals.pev = "ev" /\ seVals \in Values
      /\ NumSounds \in Nat /\ NumSounds >= 1
  BY JoinedReads DEF Joined
<1>2. Got = NumSounds + 1
  BY DEF Got
<1>3. toSe' = in.rest /\ seVals' = in.vals /\ toEv' = toEv
  BY DEF SeAwaitAttenChar, SeLeaves
<1>4. \/ /\ Follow(in.rest, NumSounds + 1, Sent) /\ in.last # "CM_ATTEN_CHAR"
         /\ in.vals.run = "ev" /\ in.vals.pev = "ev"
      \/ /\ Follow(in.rest, NumSounds + 2, Sent) /\ in.last = "CM_ATTEN_CHAR"
         /\ in.vals.run = "ev" /\ in.vals.pev = "ev" /\ NumSounds + 1 < Sent
  <2>1. \/ /\ Follow(in.rest, Got, Sent)
           /\ in.vals.run = "ev" /\ in.vals.pev = "ev"
           /\ in.last \in Remote => in.last = "CM_SLAC_PARAM"
        \/ /\ Follow(in.rest, Got + 1, Sent) /\ Got < Sent
           /\ in.last = Result(Script(Got + 1), seVals)
           /\ in.vals = Stored(Script(Got + 1), seVals)
    BY JoinedHears
  <2>2. Got + 1 = NumSounds + 2 /\ Script(NumSounds + 2) = AttenRsp("ev")
    BY <1>1, <1>2, ScriptReads
  <2> QED BY <1>1, <1>2, <2>1, <2>2, StoredScript DEF Remote, Keeps
<1>5. CASE in.last = "CM_ATTEN_CHAR"
  <2>1. SeTo("awaitMatch")
    BY <1>5, Zenon DEF SeAwaitAttenChar, SeToIf
  <2>2. seSlac' = "awaitMatch"
    BY <2>1, SeToStates
  <2>3. Got' = NumSounds + 2
    BY <2>2 DEF Got
  <2>4. evSlac = "awaitMatch"
    BY <1>1, <1>4, <1>5 DEF Sent, Joined, EvEarly
  <2> QED BY <1>1, <1>3, <1>4, <1>5, <2>2, <2>3, <2>4 DEF SeJoins
<1>6. CASE in.last # "CM_ATTEN_CHAR"
  <2>1. SeTo("awaitAttenChar")
    BY <1>6, Zenon DEF SeAwaitAttenChar, SeToIf
  <2>2. seSlac' = "awaitAttenChar"
    BY <2>1, SeToStates
  <2>3. Got' = NumSounds + 1
    BY <2>2 DEF Got
  <2> QED BY <1>1, <1>3, <1>4, <1>6, <2>2, <2>3 DEF SeJoins
<1> QED BY <1>5, <1>6

(* The station confirms, or waits for the request.                         *)
LEMMA SeJoinsMatch ==
    ASSUME SlacInv, StepInv, Joined, seSlac = "awaitMatch", NEW take,
           NEW in, in = Arrived(take, toSe, seVals),
           SeAwaitMatch(in.last, in.vals, in.rest)
    PROVE  \/ SeJoins
           \/ /\ seSlac' = "awaitSetKey" /\ evSlac = "awaitMatch" /\ evFresh = FALSE
              /\ LocalOnly(toSe') /\ OneReply(toEv', MatchCnf("ev"))
<1>1. /\ seVals.run = "ev" /\ seVals.pev = "ev" /\ seVals \in Values /\ plugged = TRUE
      /\ NumSounds \in Nat /\ NumSounds >= 1 /\ evFresh \in BOOLEAN
      /\ in.rest \in Seq(Frames)
  BY JoinedReads, JoinedHears DEF Joined
<1>2. Got = NumSounds + 2
  BY DEF Got
<1>3. \/ /\ Follow(in.rest, NumSounds + 2, Sent) /\ in.last # "CM_SLAC_MATCH"
         /\ in.vals.run = "ev" /\ in.vals.pev = "ev"
      \/ /\ Follow(in.rest, NumSounds + 3, Sent) /\ in.last = "CM_SLAC_MATCH"
         /\ in.vals.run = "ev" /\ in.vals.pev = "ev" /\ NumSounds + 2 < Sent
  <2>1. \/ /\ Follow(in.rest, Got, Sent)
           /\ in.vals.run = "ev" /\ in.vals.pev = "ev"
           /\ in.last \in Remote => in.last = "CM_SLAC_PARAM"
        \/ /\ Follow(in.rest, Got + 1, Sent) /\ Got < Sent
           /\ in.last = Result(Script(Got + 1), seVals)
           /\ in.vals = Stored(Script(Got + 1), seVals)
    BY JoinedHears
  <2>2. Got + 1 = NumSounds + 3 /\ Script(NumSounds + 3) = MatchReq("ev")
    BY <1>1, <1>2, ScriptReads
  <2> QED BY <1>1, <1>2, <2>1, <2>2, StoredScript DEF Remote, Keeps
<1>4. CASE in.last # "CM_SLAC_MATCH"
  <2>1. SeTo("awaitMatch") /\ SeLeaves(in.vals, in.rest)
    BY <1>4, Zenon DEF SeAwaitMatch, SeToIf
  <2>2. seSlac' = "awaitMatch" /\ toSe' = in.rest /\ seVals' = in.vals /\ toEv' = toEv
    BY <2>1, SeToStates DEF SeLeaves
  <2>3. Got' = NumSounds + 2
    BY <2>2 DEF Got
  <2> QED BY <1>3, <1>4, <2>2, <2>3 DEF SeJoins
<1>5. CASE in.last = "CM_SLAC_MATCH"
  <2>1. /\ Follow(in.rest, NumSounds + 3, Sent) /\ NumSounds + 2 < Sent
        /\ in.vals.run = "ev" /\ in.vals.pev = "ev"
    BY <1>3, <1>5
  <2>2. evSlac = "awaitMatch" /\ evFresh = FALSE /\ Sent = NumSounds + 3
    BY <1>1, <2>1 DEF Sent, Joined, EvEarly
  <2>3. SeTo("awaitSetKey") /\ SeTransmits(MatchCnf("ev"), in.vals) /\ SeAsksKey(in.vals, in.rest)
    BY <1>5, <2>1 DEF SeAwaitMatch, SeToIf
  <2>4. seSlac' = "awaitSetKey"
    BY <2>3, SeToStates
  <2>5. LocalOnly(toSe')
    <3>1. LocalOnly(in.rest)
      BY <1>1, <2>1, <2>2, FollowEnd
    <3> QED BY <1>1, <2>3, <3>1, SeKeyAsked
  <2>6. toEv' = Append(toEv, MatchCnf("ev"))
    <3>1. MatchCnf("ev").msg # "CM_SLAC_PARAM"
      BY MessagesMade
    <3> QED BY <1>1, <2>1, <2>3, <3>1, SaidFrame
  <2>7. OneReply(toEv', MatchCnf("ev"))
    <3>1. MatchCnf("ev") \in Frames
      BY EvFramesMade, FrameSubsets
    <3>2. LocalOnly(toEv) /\ toEv \in Seq(Frames)
      BY <2>2, JoinedReads
    <3>3. OneReply(Append(toEv, MatchCnf("ev")), MatchCnf("ev"))
      BY <3>1, <3>2, PutLocal
    <3> QED BY <2>6, <3>3
  <2> QED BY <2>2, <2>4, <2>5, <2>7
<1> QED BY <1>4, <1>5

LEMMA SeGoesOn ==
    ASSUME NoFaults, SlacInv, StepInv, Joined,
           NEW take, NEW tick, NEW late, NEW due, SeCycle(take, tick, late, due)
    PROVE  StepInv' /\ (Joined' \/ Together')
<1> DEFINE in == Arrived(take, toSe, seVals)
<1>1. /\ \/ SeAwaitStartAttenChar(in.last, in.vals, in.rest)
         \/ SeAwaitSounding(in.vals, in.rest, FALSE)
         \/ SeAwaitAttenChar(in.last, in.vals, in.rest)
         \/ SeAwaitMatch(in.last, in.vals, in.rest)
      /\ plugged' = plugged /\ evVals' = evVals /\ evSlac' = evSlac /\ evFresh' = evFresh
      /\ evOp' = evOp
  BY SeCycleReads
  DEF Joined, SeAwaitGetSwVer, SeSlacIdle, SeAwaitEstablishing, SeAwaitSetKey,
      SeFailedOrMatched
<1>2. seOp' = "slac" /\ session' = "none" /\ plugged = TRUE
  BY SeOpReads DEF Joined, SeFinished, StepInv
<1>3. \/ SeJoins
      \/ /\ seSlac' = "awaitSetKey" /\ evSlac = "awaitMatch" /\ evFresh = FALSE
         /\ LocalOnly(toSe') /\ OneReply(toEv', MatchCnf("ev"))
  <2>1. CASE SeAwaitStartAttenChar(in.last, in.vals, in.rest)
    BY <2>1, SeJoinsStart DEF SeAwaitStartAttenChar
  <2>2. CASE SeAwaitSounding(in.vals, in.rest, FALSE)
    <3>1. seSlac = "awaitSounding"
      BY <2>2, Zenon DEF SeAwaitSounding
    <3> QED BY <2>2, <3>1, SeJoinsSounding
  <2>3. CASE SeAwaitAttenChar(in.last, in.vals, in.rest)
    BY <2>3, SeJoinsAttenChar DEF SeAwaitAttenChar
  <2>4. CASE SeAwaitMatch(in.last, in.vals, in.rest)
    <3>1. seSlac = "awaitMatch"
      BY <2>4, Zenon DEF SeAwaitMatch
    <3> QED BY <2>4, <3>1, SeJoinsMatch
  <2> QED BY <1>1, <2>1, <2>2, <2>3, <2>4
<1> HIDE DEF in
<1>4. Sent' = Sent
  BY <1>1 DEF Sent
<1>5. CASE SeJoins
  <2>1. IF evSlac = "awaitEstablishing" THEN OneReply(toEv', ParamCnf("ev"))
        ELSE IF evSlac = "awaitAttenChar" /\ seSlac' = "awaitAttenChar"
        THEN OneReply(toEv', AttenInd("ev"))
        ELSE LocalOnly(toEv')
    BY <1>5 DEF Joined, SeJoins
  <2>2. Joined'
    BY <1>1, <1>2, <1>4, <1>5, <2>1 DEF Joined, SeJoins
  <2> QED BY <1>1, <1>2, <2>2 DEF StepInv
<1>6. CASE /\ seSlac' = "awaitSetKey" /\ evSlac = "awaitMatch" /\ evFresh = FALSE
           /\ LocalOnly(toSe') /\ OneReply(toEv', MatchCnf("ev"))
  <2>1. Together'
    BY <1>1, <1>2, <1>6 DEF Together
  <2> QED BY <1>1, <1>2, <1>6, <2>1 DEF StepInv
<1> QED BY <1>3, <1>5, <1>6

(* A cycle of the station without faults.                                  *)
LEMMA SeKeepsStep ==
    ASSUME NoFaults, SlacInv, StepInv, Se
    PROVE  StepInv'
<1>1. PICK take, tick, late, due \in BOOLEAN : SeCycle(take, tick, late, due)
  BY DEF Se
<1> QED BY <1>1, SeAlone, SeGoesOn, SeFollows DEF StepInv

-----------------------------------------------------------------------------
(* The process without faults *)

LEMMA StepInvInit == Init => StepInv
<1> SUFFICES ASSUME Init PROVE StepInv
  OBVIOUS
<1>1. /\ seSlac = "awaitGetSwVer" /\ evSlac = "awaitGetSwVer" /\ seOp = "initialization"
      /\ evOp = "initialization" /\ session = "none" /\ toSe = <<>> /\ toEv = <<>>
  BY DEF Init, PlcInit, EvSlacInit, SeSlacInit
<1>2. EarlyOnly(toSe) /\ LocalOnly(toSe) /\ LocalOnly(toEv)
  BY <1>1 DEF EarlyOnly, LocalOnly
<1>3. Apart
  BY <1>1, <1>2 DEF Apart
<1> QED BY <1>1, <1>3 DEF StepInv

LEMMA StepInvStep ==
    ASSUME NoFaults, SlacInv, StepInv, [Next]_vars
    PROVE  StepInv'
<1>1. CASE Ev
  BY <1>1, EvKeepsStep
<1>2. CASE EvRestart
  BY <1>2, EvRestartKeepsStep
<1>3. CASE Se
  BY <1>3, SeKeepsStep
<1>4. CASE SeReset \/ Unplug \/ Lose \/ Crosstalk
  BY <1>4, Zenon DEF NoFaults, SeReset, Unplug, Lose, Crosstalk, Overhear
<1>5. CASE Plug
  <2>1. /\ plugged' = TRUE /\ toEv' = toEv /\ toSe' = toSe /\ evVals' = evVals
        /\ seVals' = seVals /\ evSlac' = evSlac /\ evFresh' = evFresh /\ seSlac' = seSlac
        /\ seFresh' = seFresh /\ evOp' = evOp /\ seOp' = seOp /\ session' = session
    BY <1>5 DEF Plug, evSlacVars, seSlacVars, opVars
  <2> QED BY <2>1 DEF StepInv, Apart, Joined, Together, Got, Sent
<1>6. CASE Connect
  <2>1. /\ evOp = "communication" /\ session = "none" /\ session' = "open"
        /\ plugged' = plugged /\ toEv' = toEv /\ toSe' = toSe /\ evVals' = evVals
        /\ seVals' = seVals /\ evSlac' = evSlac /\ evFresh' = evFresh /\ seSlac' = seSlac
        /\ seFresh' = seFresh /\ evOp' = evOp /\ seOp' = seOp
    BY <1>6 DEF Connect, plcVars, evSlacVars, seSlacVars
  <2>2. Together
    BY <2>1 DEF StepInv, Apart, Joined
  <2>3. Together'
    BY <2>1, <2>2 DEF Together
  <2> QED BY <2>1, <2>3 DEF StepInv
<1>7. CASE UNCHANGED vars
  <2>1. /\ plugged' = plugged /\ toEv' = toEv /\ toSe' = toSe /\ evVals' = evVals
        /\ seVals' = seVals /\ evSlac' = evSlac /\ evFresh' = evFresh /\ seSlac' = seSlac
        /\ seFresh' = seFresh /\ evOp' = evOp /\ seOp' = seOp /\ session' = session
    BY <1>7 DEF vars, plcVars, evSlacVars, seSlacVars, opVars
  <2> QED BY <2>1 DEF StepInv, Apart, Joined, Together, Got, Sent
<1> QED BY <1>1, <1>2, <1>3, <1>4, <1>5, <1>6, <1>7 DEF Next

(* Without faults the two are apart, joined in a run or together after it  *)
(* in every state of the program, and what is under way between them is    *)
(* what the one has sent and the other has yet to take.                    *)
THEOREM ProcessInStep ==
    ASSUME NoFaults
    PROVE  Spec => []StepInv
<1>1. SlacInv /\ StepInv /\ [Next]_vars => StepInv'
  BY StepInvStep
<1> QED BY <1>1, StepInvInit, SlacInvariant, PTL DEF Spec

(* What the vehicle finds first in its socket is expected ...              *)
LEMMA EvHeadExpected ==
    ASSUME SlacInv, StepInv, toEv # <<>>
    PROVE  EvExpects(Head(toEv))
<1>1. toEv \in Seq(Frames)
  BY FrameSubsets DEF SlacInv, TypeInv
<1>2. LocalOnly(toEv) => Local(Head(toEv))
  BY <1>1, TakeLocal
<1>3. \A g : OneReply(toEv, g) => Head(toEv) = g \/ Local(Head(toEv))
  BY <1>1, TakeLocal
<1>4. /\ ParamCnf("ev").msg = "CM_SLAC_PARAM" /\ AttenInd("ev").msg = "CM_ATTEN_CHAR"
      /\ MatchCnf("ev").msg = "CM_SLAC_MATCH"
  BY MessagesMade
<1>5. \/ LocalOnly(toEv)
      \/ evSlac = "awaitEstablishing" /\ OneReply(toEv, ParamCnf("ev"))
      \/ evSlac = "awaitAttenChar" /\ OneReply(toEv, AttenInd("ev"))
      \/ evSlac = "awaitMatch" /\ OneReply(toEv, MatchCnf("ev"))
  BY DEF StepInv, Apart, Joined, Together
<1> QED BY <1>2, <1>3, <1>4, <1>5 DEF EvExpects

(* ... and so is what the station finds first in its own.                  *)
LEMMA SeHeadExpected ==
    ASSUME SlacInv, StepInv, toSe # <<>>
    PROVE  SeExpects(Head(toSe))
<1>1. toSe \in Seq(Frames) /\ NumSounds \in Nat
  BY FrameSubsets, ScriptReads DEF SlacInv, TypeInv
<1>2. /\ ParamReq("ev").msg = "CM_SLAC_PARAM" /\ StartAttenInd("ev").msg = "CM_START_ATTEN_CHAR"
      /\ ProfileInd.msg = "CM_ATTEN_PROFILE" /\ AttenRsp("ev").msg = "CM_ATTEN_CHAR"
      /\ MatchReq("ev").msg = "CM_SLAC_MATCH"
  BY MessagesMade
<1>3. Early(Head(toSe)) => SeExpects(Head(toSe))
  BY <1>2 DEF Early, SeExpects
<1>4. CASE Apart \/ Together
  <2>1. EarlyOnly(toSe)
    BY <1>4 DEF Apart, Together, LocalOnly, EarlyOnly, Early
  <2> QED BY <1>1, <1>3, <2>1, TakeLocal
<1>5. CASE Joined
  <2>1. Got \in Nat /\ Sent \in Nat /\ Follow(toSe, Got, Sent)
    BY <1>5, JoinedReads
  <2>2. Early(Head(toSe)) \/ (Head(toSe) = Script(Got + 1) /\ Got < Sent)
    BY <1>1, <2>1, FollowTake
  <2>3. ASSUME Head(toSe) = Script(Got + 1), Got < Sent
        PROVE  SeExpects(Head(toSe))
    <3>1. CASE seSlac = "awaitStartAttenChar"
      <4>1. Got + 1 = 1
        BY <3>1 DEF Got
      <4> QED BY <1>2, <2>3, <3>1, <4>1, ScriptReads DEF SeExpects
    <3>2. CASE seSlac = "awaitSounding"
      <4>1. seVals.sounds \in Nat
        BY <1>1, <1>5, JoinedReads DEF Values
      <4>2. Got + 1 \in 2..NumSounds + 1
        BY <1>1, <1>5, <3>2, <4>1 DEF Got, Joined
      <4>3. Script(Got + 1) = ProfileInd
        BY <4>2, ScriptReads
      <4> QED BY <1>2, <2>3, <3>2, <4>3 DEF SeExpects
    <3>3. CASE seSlac = "awaitAttenChar"
      <4>1. Got + 1 = NumSounds + 2
        BY <1>1, <3>3 DEF Got
      <4> QED BY <1>2, <2>3, <3>3, <4>1, ScriptReads DEF SeExpects
    <3>4. CASE seSlac = "awaitMatch"
      <4>1. Got + 1 = NumSounds + 3
        BY <1>1, <3>4 DEF Got
      <4> QED BY <1>2, <2>3, <3>4, <4>1, ScriptReads DEF SeExpects
    <3> QED BY <1>5, <3>1, <3>2, <3>3, <3>4 DEF Joined
  <2> QED BY <1>3, <2>2, <2>3
<1> QED BY <1>4, <1>5 DEF StepInv

(* Without losses, timeouts, other vehicles and a hand on the cable no     *)
(* frame but a repeated request is thrown away: however many sounds there  *)
(* are, whatever the keys are and whether or not the modems take them, the *)
(* process that takes a frame is in the state that waits for it.           *)
THEOREM AlwaysMatchingInStep ==
    ASSUME NoFaults
    PROVE  Spec => []MatchingInStep
<1>1. SlacInv /\ StepInv => MatchingInStep
  BY EvHeadExpected, SeHeadExpected DEF MatchingInStep
<1> QED BY <1>1, SlacInvariant, ProcessInStep, PTL
=============================================================================
