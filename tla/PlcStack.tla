------------------------------ MODULE PlcStack ------------------------------
(***************************************************************************)
(* cPlcStackPub and the medium below it: the powerline frames of the SLAC  *)
(* process, the packet socket of each host, and the modem (the QCA chip)   *)
(* that each host talks to over Ethernet.  Both programs use the same      *)
(* class; evVals and seVals are its member `values`, reduced to what the   *)
(* processes branch on or what is transmitted.                             *)
(*                                                                         *)
(* A RunID is made of the vehicle's modem address and a session number     *)
(* that is the same in every run of its program (it is cleared exactly     *)
(* once before the first request), so it is represented by the vehicle.    *)
(***************************************************************************)
EXTENDS Integers, Sequences, FiniteSets

CONSTANTS
    NumSounds,  \* SLAC_MSOUNDS
    EvNmk,      \* EVSE_NMK of the vehicle's build: the key clear() restores
    SeNmk,      \* EVSE_NMK of the station's build
    ModemAnswers, \* to a key request: {TRUE}, or BOOLEAN if it may refuse
    Others,     \* vehicles at neighbouring stations, heard by crosstalk
    ReqCap      \* bound: CM_SLAC_PARAM.REQ waiting in one packet socket

ASSUME SlacAssumption ==
    /\ NumSounds \in Nat \ {0}
    /\ ReqCap \in Nat \ {0}
    /\ TRUE \in ModemAnswers /\ ModemAnswers \subseteq BOOLEAN
    /\ "ev" \notin Others /\ "none" \notin Others

VARIABLES
    plugged,    \* the charging cable connects the two
    toEv, toSe, \* frames on their way to, or waiting in, a packet socket
    evChip,     \* network key (NMK) the vehicle's modem uses
    evVals,     \* vehicle: pPlcStack->values
    seVals      \* station: pPlcStack->values

plcVars == <<plugged, toEv, toSe, evChip, evVals, seVals>>

Vehicles == {"ev"} \union Others
RunIds   == Vehicles \union {"none"}
Keys     == {EvNmk, SeNmk}

Frame(msg, kind, run) == [msg |-> msg, kind |-> kind, run |-> run, ok |-> TRUE]

ParamReq(run)       == Frame("CM_SLAC_PARAM", "REQ", run)
ParamCnf(run)       == Frame("CM_SLAC_PARAM", "CNF", run)
StartAttenInd(run)  == Frame("CM_START_ATTEN_CHAR", "IND", run)
AttenInd(run)       == Frame("CM_ATTEN_CHAR", "IND", run)
AttenRsp(run)       == Frame("CM_ATTEN_CHAR", "RSP", run)
MatchReq(run)       == Frame("CM_SLAC_MATCH", "REQ", run)
MatchCnf(run)       == Frame("CM_SLAC_MATCH", "CNF", run)

(* What a modem reports to its own host.  The receiving modem adds a       *)
(* profile to every sound; the sound itself is not used by the host.       *)
SwVerCnf     == Frame("VS_SW_VER", "CNF", "none")
SetKeyCnf(ok) == [Frame("CM_SET_KEY", "CNF", "none") EXCEPT !.ok = ok]
ProfileInd   == Frame("CM_ATTEN_PROFILE", "IND", "none")

Local(f) == f.msg \in {"VS_SW_VER", "CM_SET_KEY"}

(* initializeSession() *)
InitVals(nmk) ==
    [run |-> "none", pev |-> "none", known |-> FALSE, sounds |-> 0,
     nmk |-> nmk, refused |-> FALSE]

-----------------------------------------------------------------------------
(* evaluateMessage(): the result the SLAC process finds in its next cycle, *)
(* and what the message changes in `values`.                               *)

RunChecked ==
    {<<"CM_START_ATTEN_CHAR", "IND">>, <<"CM_ATTEN_CHAR", "IND">>,
     <<"CM_ATTEN_CHAR", "RSP">>, <<"CM_SLAC_MATCH", "REQ">>}

Accepted(f, v) == <<f.msg, f.kind>> \in RunChecked => f.run = v.run

Result(f, v) == IF Accepted(f, v) THEN f.msg ELSE "invalid"

(* The counter of sounds is only ever compared with NumSounds; it stays    *)
(* one above it here.                                                      *)
CountSound(n) == IF n > NumSounds THEN n ELSE n + 1

(* Mutant: the address of the requesting vehicle is not stored. *)
AskedWithoutMac(f, v) ==
    IF f.msg = "CM_SLAC_PARAM" THEN [v EXCEPT !.run = f.run]
    ELSE IF f.msg = "CM_ATTEN_PROFILE" THEN [v EXCEPT !.sounds = CountSound(@)]
    ELSE v

(* Requests and indications, most of them for the station. *)
Asked(f, v) ==
    IF f.msg = "CM_SLAC_PARAM" THEN [v EXCEPT !.run = f.run, !.pev = f.run]
    ELSE IF f.msg = "CM_ATTEN_PROFILE" THEN [v EXCEPT !.sounds = CountSound(@)]
    ELSE IF f.msg = "CM_SLAC_MATCH" /\ Accepted(f, v) THEN [v EXCEPT !.pev = "ev"]
    ELSE v

(* Mutant: the key of the confirmed match is not stored. *)
ConfirmedWithoutKey(f, v) ==
    IF f.msg = "CM_SLAC_PARAM" THEN [v EXCEPT !.known = TRUE]
    ELSE IF f.msg = "CM_SET_KEY" THEN [v EXCEPT !.refused = ~f.ok]
    ELSE v

(* Confirmations, of the station or of the own modem. *)
Confirmed(f, v) ==
    IF f.msg = "CM_SLAC_PARAM" THEN [v EXCEPT !.known = TRUE]
    ELSE IF f.msg = "CM_SLAC_MATCH" THEN [v EXCEPT !.nmk = SeNmk]
    ELSE IF f.msg = "CM_SET_KEY" THEN [v EXCEPT !.refused = ~f.ok]
    ELSE v

Stored(f, v) == IF f.kind = "CNF" THEN Confirmed(f, v) ELSE Asked(f, v)

(* onFrameReceive(): a cycle of the main loop takes at most one frame. *)
Arrived(take, q, v) ==
    IF take /\ q # <<>>
    THEN [last |-> Result(Head(q), v), vals |-> Stored(Head(q), v),
          rest |-> Tail(q)]
    ELSE [last |-> "none", vals |-> v, rest |-> q]

-----------------------------------------------------------------------------
(* The medium *)

Requests(q) == {i \in 1..Len(q) : q[i].msg = "CM_SLAC_PARAM" /\ q[i].kind = "REQ"}

(* Repeated parameter requests beyond ReqCap are not kept. *)
Carry(q, f) ==
    IF f.msg = "CM_SLAC_PARAM" /\ f.kind = "REQ" /\ Cardinality(Requests(q)) >= ReqCap
    THEN q ELSE Append(q, f)

(* Without a cable nothing gets through. *)
Transmit(q, f) == IF plugged THEN Carry(q, f) ELSE q

(* A frame is lost on the powerline, or drowned by noise. *)
LoseToEv ==
    /\ toEv # <<>> /\ ~Local(Head(toEv))
    /\ toEv' = Tail(toEv)
    /\ UNCHANGED <<plugged, toSe, evChip, evVals, seVals>>

LoseToSe ==
    /\ toSe # <<>> /\ ~Local(Head(toSe))
    /\ toSe' = Tail(toSe)
    /\ UNCHANGED <<plugged, toEv, evChip, evVals, seVals>>

(* A neighbouring vehicle broadcasts its request, which both hosts hear,   *)
(* or continues a run with the station: its frames and the profile of its  *)
(* sound arrive here too.  Bound: one such frame waits at a time.          *)
Quiet(q) == \A i \in 1..Len(q) : q[i].run \notin Others

Overhear ==
    \E o \in Others :
        /\ Quiet(toSe) /\ Quiet(toEv)
        /\ \/ /\ toEv' = Carry(toEv, ParamReq(o))
              /\ toSe' = Carry(toSe, ParamReq(o))
           \/ /\ \E f \in {StartAttenInd(o), [ProfileInd EXCEPT !.run = o], AttenRsp(o)} :
                     toSe' = Append(toSe, f)
              /\ UNCHANGED toEv
        /\ UNCHANGED <<plugged, evChip, evVals, seVals>>

PlcInit ==
    /\ plugged \in BOOLEAN
    /\ toEv = <<>> /\ toSe = <<>>
    /\ evChip \in Keys
    /\ evVals = InitVals(EvNmk)
    /\ seVals = InitVals(SeNmk)

Values ==
    [run : RunIds, pev : RunIds, known : BOOLEAN, sounds : 0..(NumSounds + 1),
     nmk : Keys, refused : BOOLEAN]

Frames ==
    [msg : {"VS_SW_VER", "CM_SET_KEY", "CM_SLAC_PARAM", "CM_START_ATTEN_CHAR",
            "CM_ATTEN_PROFILE", "CM_ATTEN_CHAR", "CM_SLAC_MATCH"},
     kind : {"REQ", "CNF", "IND", "RSP"}, run : RunIds, ok : BOOLEAN]

PlcTypeOK ==
    /\ plugged \in BOOLEAN
    /\ toEv \in Seq(Frames) /\ toSe \in Seq(Frames)
    /\ evChip \in Keys
    /\ evVals \in Values /\ seVals \in Values
=============================================================================
