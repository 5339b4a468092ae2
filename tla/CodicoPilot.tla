------------------------------ MODULE CodicoPilot ------------------------------
(***************************************************************************)
(* The control pilot: cCodicoPilot, which talks to a board in control      *)
(* frames, the board, and what the main loops do with the pilot: the       *)
(* operation states of mainSECC, and the states of the vehicle's session   *)
(* that ask for power.  The two sides meet on the pilot wire only; the     *)
(* model has one of them, and the wire as the other side leaves it.        *)
(*                                                                         *)
(* One field, value.state, holds the state asked for and the state last    *)
(* notified; a later value of the one overwrites the other.                *)
(***************************************************************************)
EXTENDS Naturals, Sequences, SequencesExt

CONSTANTS
    MaxCommands,    \* bound: commands under way to the board
    MaxWaiting      \* bound: frames that wait while the program takes none

ASSUME PilotAssumption ==
    /\ MaxCommands \in Nat \ {0}
    /\ MaxWaiting \in Nat

VARIABLES
    side,       \* stackType: "ev" or "se"
    known,      \* the address of the board is known (getQcaMAC())
    init,       \* initializationState
    rcv,        \* receiveState
    state,      \* value.state
    cmds,       \* control frames on their way to the board
    rsps,       \* control frames on their way to the program
    wrong,      \* board: it is of the other kind
    hasMode,    \* board: has accepted SetMode
    on,         \* board: its service has been started
    told,       \* board: the state it has notified last
    put,        \* board: what it puts on the wire, "B" or "C", "off" or "iso"
    plugged,    \* the charging cable
    evLevel,    \* what the vehicle puts on the wire
    op,         \* operation state of the program, see EvOps and SeOps
    entered     \* enteredOperationState, enteredV2gState

progVars  == <<known, init, rcv, state>>
boardVars == <<hasMode, on, told, put>>
wireVars  == <<plugged, evLevel>>
vars == <<side, progVars, cmds, rsps, wrong, boardVars, wireVars, op, entered>>

Levels == {"A", "B", "C"}
Demands == [ev |-> {"B", "C"}, se |-> {"off", "iso"}]
AtRest  == [ev |-> "B", se |-> "off"]

Commands == {"SetMode", "Start", "Stop"} \cup Demands[side]
Answers  == {"ok", "refused"} \cup Levels

(* The vehicle's program is down, away from the states of its session that *)
(* ask for power, or in them.                                              *)
EvOps == {"down", "away", "power"}
SeOps == {"initialization", "plug", "stateBtimer", "slac", "communication"}

Level == IF plugged THEN evLevel ELSE "A"

Init ==
    /\ side \in {"ev", "se"}
    /\ known = FALSE /\ init = 0 /\ rcv = 0 /\ state = "Offline"
    /\ cmds = <<>> /\ rsps = <<>>
    /\ wrong \in BOOLEAN /\ hasMode = FALSE /\ on = FALSE /\ told = "none"
    /\ put = AtRest[side]
    /\ plugged \in BOOLEAN /\ evLevel = "B"
    /\ op = IF side = "ev" THEN "away" ELSE "initialization"
    /\ entered = FALSE

-----------------------------------------------------------------------------
(* cCodicoPilot.  A cycle of the main loop takes one control frame or      *)
(* none, operates the pilot object, and then asks and sets it.             *)

Object == [init |-> init, rcv |-> rcv, state |-> state, cmds |-> cmds]

Evaluated(p, f) ==
    CASE f \in Levels -> [p EXCEPT !.state = f, !.init = 4]
      [] f = "ok"     -> [p EXCEPT !.rcv = p.init]
      [] OTHER        -> p

(* A frame that is sent before the address is known reaches no board.      *)
Send(p, c) == IF known THEN [p EXCEPT !.cmds = Append(@, c)] ELSE p

SetPwmForgets(p, d) == Send([p EXCEPT !.state = "Offline"], d)
SetPwmAsState(p, d) == Send(p, p.state)

(* setState() and setPwm(): a PWM is set with the state that is kept.      *)
SetState(p, l) == Send([p EXCEPT !.state = l], l)
SetPwm(p, d)   == Send(p, d)

InitStepNoStart(p) ==
    CASE p.init = 0 -> Send(p, "SetMode")
      [] p.init = 1 -> IF side = "se" THEN SetPwm(p, "off") ELSE SetState(p, "B")
      [] OTHER      -> p

InitStep(p) ==
    CASE p.init = 0 -> Send(p, "SetMode")
      [] p.init = 1 -> IF side = "se" THEN SetPwm(p, "off") ELSE SetState(p, "B")
      [] p.init = 2 -> Send(p, "Start")
      [] OTHER      -> p

Operated(p) ==
    IF p.init # 4 /\ known /\ p.rcv = p.init
    THEN [InitStep(p) EXCEPT !.init = @ + 1]
    ELSE p

Begun(take) == Operated(IF take THEN Evaluated(Object, Head(rsps)) ELSE Object)

Takes(take) == IF take THEN rsps # <<>> ELSE Len(rsps) <= MaxWaiting

Leaves(take, p) ==
    /\ Len(p.cmds) <= MaxCommands
    /\ init' = p.init /\ rcv' = p.rcv /\ state' = p.state /\ cmds' = p.cmds
    /\ rsps' = IF take THEN Tail(rsps) ELSE rsps
    /\ UNCHANGED <<side, known, wrong, boardVars, wireVars>>

(* SLAC has learnt the address of the modem. *)
LearnsAddress ==
    /\ ~known /\ op # "down"
    /\ known' = TRUE
    /\ UNCHANGED <<side, init, rcv, state, cmds, rsps, wrong, boardVars, wireVars, op, entered>>

-----------------------------------------------------------------------------
(* The vehicle: state C is asked for on entering awaitCableCheck and       *)
(* awaitPreCharge, and state B outside of the power states if C was.       *)

EvPilotOnce(p) ==
    CASE op = "power" /\ entered                 -> SetState(p, "C")
      [] op = "away" /\ entered /\ p.state = "C" -> SetState(p, "B")
      [] OTHER                                   -> p

EvPilot(p) ==
    CASE op = "power" /\ entered      -> SetState(p, "C")
      [] op = "away" /\ p.state = "C" -> SetState(p, "B")
      [] OTHER                        -> p

EvCycle(take, next, enters) ==
    /\ side = "ev" /\ op # "down" /\ Takes(take)
    /\ LET p == Begun(take) IN
       /\ next = "power" => p.init = 4
       /\ Leaves(take, EvPilot(p))
    /\ op' = next
    /\ entered' = (next # op \/ (next = "power" /\ enters))

(* The key q. *)
EvQuits ==
    /\ side = "ev" /\ op # "down" /\ Len(cmds) < MaxCommands
    /\ op' = "down" /\ entered' = FALSE
    /\ cmds' = IF known THEN Append(cmds, "Stop") ELSE cmds
    /\ UNCHANGED <<side, progVars, rsps, wrong, boardVars, wireVars>>

(* A restart takes longer than the board needs for what it has been told.  *)
EvRestarts ==
    /\ op = "down" /\ cmds = <<>>
    /\ op' = "away"
    /\ known' = FALSE /\ init' = 0 /\ rcv' = 0 /\ state' = "Offline" /\ rsps' = <<>>
    /\ UNCHANGED <<side, cmds, wrong, boardVars, wireVars, entered>>

-----------------------------------------------------------------------------
(* The station.  due: the timer of stateBtimer has elapsed.  matched, over: *)
(* the SLAC process or the session comes to its end in this cycle, also in *)
(* a later operation state than its own, if r was pressed or the cable     *)
(* pulled and plugged in again.  The later assignments win.                *)

SePilot(p) ==
    CASE entered /\ op = "plug" -> SetPwm(p, "off")
      [] entered /\ op = "slac" -> SetPwm(p, "iso")
      [] OTHER                  -> p

SeProgress(p, due, matched, over) ==
    IF over THEN "plug"
    ELSE IF matched THEN "communication"
    ELSE IF op = "plug" /\ p.state = "B" THEN "stateBtimer"
    ELSE IF op = "stateBtimer" /\ due /\ ~entered THEN "slac"
    ELSE op

SeLeavesInit(p) == IF p.init = 4 THEN "plug" ELSE op

(* Mutant: an unplugged vehicle is overlooked. *)
SeOpNextStays(p, due, matched, over) ==
    IF op = "initialization" THEN SeLeavesInit(p) ELSE SeProgress(p, due, matched, over)

SeOpNext(p, due, matched, over) ==
    IF op = "initialization" THEN SeLeavesInit(p)
    ELSE IF p.state \notin {"B", "C"} THEN "plug"
    ELSE SeProgress(p, due, matched, over)

SeCycle(take, due, matched, over) ==
    /\ side = "se" /\ Takes(take)
    /\ LET p == Begun(take) IN
       /\ Leaves(take, SePilot(p))
       /\ op' = SeOpNext(p, due, matched, over)
       /\ entered' = (op' # op)

(* Mutant: plug is not entered anew. *)
SeResetsOnly ==
    /\ side = "se"
    /\ op' = "plug" /\ entered' = FALSE
    /\ UNCHANGED <<side, progVars, cmds, rsps, wrong, boardVars, wireVars>>

(* The key r, whatever the operation state. *)
SeResets ==
    /\ side = "se"
    /\ op' = "plug" /\ entered' = TRUE
    /\ UNCHANGED <<side, progVars, cmds, rsps, wrong, boardVars, wireVars>>

-----------------------------------------------------------------------------
(* The board and the wire *)

(* A board takes a command and answers it.  A stopped service forgets what *)
(* it has notified, a started one notifies the state it finds.             *)
Obeys ==
    /\ cmds # <<>>
    /\ LET c == Head(cmds)
           refuses == c = "SetMode" /\ wrong IN
       /\ hasMode' = (hasMode \/ (c = "SetMode" /\ ~refuses))
       /\ on' = (c = "Start" \/ (on /\ c # "Stop"))
       /\ told' = IF c \in {"Start", "Stop"} THEN "none" ELSE told
       /\ put' = IF c \in Demands[side] THEN c ELSE put
       /\ evLevel' = IF c \in Demands["ev"] THEN c ELSE evLevel
       /\ rsps' = IF c = "Stop" THEN rsps
                  ELSE Append(rsps, IF refuses THEN "refused" ELSE "ok")
    /\ cmds' = Tail(cmds)
    /\ UNCHANGED <<side, progVars, wrong, plugged, op, entered>>

Notifies ==
    /\ on /\ told # Level /\ Len(rsps) <= MaxWaiting
    /\ told' = Level
    /\ rsps' = Append(rsps, Level)
    /\ UNCHANGED <<side, progVars, cmds, wrong, hasMode, on, put, wireVars, op, entered>>

Cable ==
    /\ plugged' = ~plugged
    /\ UNCHANGED <<side, progVars, cmds, rsps, wrong, boardVars, evLevel, op, entered>>

(* The vehicle at a station's cable asks for what it likes. *)
OtherSide ==
    /\ side = "se"
    /\ evLevel' \in Demands["ev"] \ {evLevel}
    /\ UNCHANGED <<side, progVars, cmds, rsps, wrong, boardVars, plugged, op, entered>>

-----------------------------------------------------------------------------
Ev == \E take, enters \in BOOLEAN, next \in {"away", "power"} : EvCycle(take, next, enters)
Se == \E take, due, matched, over \in BOOLEAN : SeCycle(take, due, matched, over)

Next ==
    \/ Ev \/ EvQuits \/ EvRestarts
    \/ Se \/ SeResets
    \/ LearnsAddress
    \/ Obeys \/ Notifies
    \/ Cable \/ OtherSide

(* The loops go round and take what has come, the modem tells its address, *)
(* the board obeys, and notifies a state that keeps changing sooner or     *)
(* later; no session, timer, key or cable needs to do anything.            *)
Eager ==
    LET take == rsps # <<>> IN
    EvCycle(take, op, FALSE) \/ SeCycle(take, FALSE, FALSE, FALSE)

Fairness ==
    /\ WF_vars(Eager) /\ WF_vars(LearnsAddress)
    /\ WF_vars(Obeys) /\ SF_vars(Notifies)

Spec == Init /\ [][Next]_vars /\ Fairness

-----------------------------------------------------------------------------
TypeOK ==
    /\ side \in {"ev", "se"} /\ {known, wrong, hasMode, on, plugged, entered} \subseteq BOOLEAN
    /\ init \in 0 .. 4 /\ rcv \in 0 .. 4 /\ state \in Levels \cup {"Offline"}
    /\ Range(cmds) \subseteq Commands /\ Len(cmds) <= MaxCommands
    /\ Range(rsps) \subseteq Answers
    /\ told \in Levels \cup {"none"}
    /\ put \in Demands[side] /\ evLevel \in Demands["ev"]
    /\ op \in IF side = "ev" THEN EvOps ELSE SeOps

(* The PWM goes with the operation state, however it was reached: by the   *)
(* key r in any state, over an unplugged cable, or by the end of a session *)
(* or a matching that belongs to an earlier state.  Once the board has     *)
(* obeyed, 5 % are on the wire in slac, and nothing is before it.          *)
PwmInStep ==
    side = "se" /\ cmds = <<>> /\ ~entered =>
        /\ op = "slac" => put = "iso"
        /\ op \in {"initialization", "plug", "stateBtimer"} => put = "off"

(* Demand and measurement share value.state, and a notification may arrive *)
(* after the demand that has outdated it.  Still, when nothing is under    *)
(* way between program and board, the program takes for the pilot state    *)
(* what is on the wire.                                                    *)
PilotKnown ==
    on /\ op # "down" /\ cmds = <<>> /\ rsps = <<>> /\ told = Level
    /\ (side = "ev" => plugged)
        => state = Level

(* Once the address is known the initialisation gets through, although its *)
(* steps are never repeated and each waits for the answer of the one       *)
(* before: with a board of the right kind that answers everything, be a    *)
(* command of the key r answered in between.                               *)
Initialised == (known /\ ~wrong) ~> (init = 4 \/ op = "down")

(* A vehicle that has left the power states takes state C back, also when  *)
(* a late notification has overwritten what it had asked for               *)
(* (getDemandState(), cIsoProcessEVCC::operate).                           *)
LevelReturns ==
    (side = "ev" /\ op = "away" /\ on) ~> (Level # "C" \/ op # "away")

(* Without a vehicle a station's PWM is switched off.                      *)
PwmWithdrawn == (side = "se" /\ ~plugged) ~> (plugged \/ put = "off")

=============================================================================
