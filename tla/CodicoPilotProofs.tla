--------------------------- MODULE CodicoPilotProofs ---------------------------
(***************************************************************************)
(* Proofs about CodicoPilot, for every value of its constants: what the    *)
(* program takes for the pilot state, and how the station's PWM goes with  *)
(* its operation state.                                                    *)
(***************************************************************************)
EXTENDS CodicoPilot, SequenceTheorems, TLAPS

-----------------------------------------------------------------------------
(* The last element of a queue that is in a set *)

NoneIn(q, S) == \A i \in DOMAIN q : q[i] \notin S

(* v is the last element of q that is in S, or d if there is none. *)
IsLast(q, S, d, v) ==
    \/ v = d /\ NoneIn(q, S)
    \/ v \in S /\ \E i \in DOMAIN q : q[i] = v /\ \A j \in DOMAIN q : j > i => q[j] \notin S

LEMMA TailElements ==
    ASSUME NEW T, NEW q \in Seq(T), q # <<>>
    PROVE  /\ Tail(q) \in Seq(T)
           /\ Len(q) \in Nat /\ Len(q) > 0 /\ DOMAIN q = 1 .. Len(q)
           /\ Len(Tail(q)) = Len(q) - 1 /\ DOMAIN Tail(q) = 1 .. Len(q) - 1
           /\ \A i \in DOMAIN Tail(q) : i + 1 \in DOMAIN q /\ Tail(q)[i] = q[i + 1]
           /\ Head(q) = q[1] /\ Head(q) \in T
  <1>1. Tail(q) \in Seq(T) /\ Head(q) = q[1] /\ Head(q) \in T /\ Len(Tail(q)) = Len(q) - 1
    BY HeadTailProperties
  <1>2. Len(q) \in Nat /\ Len(q) # 0 /\ DOMAIN q = 1 .. Len(q)
    BY LenProperties, EmptySeq
  <1>3. \A i \in 1 .. Len(Tail(q)) : Tail(q)[i] = q[i + 1]
    BY HeadTailProperties
  <1>4. DOMAIN Tail(q) = 1 .. Len(q) - 1
    BY <1>1, <1>2
  <1> QED  BY <1>1, <1>2, <1>3, <1>4

LEMMA AppendElements ==
    ASSUME NEW T, NEW q \in Seq(T), NEW x \in T
    PROVE  /\ Append(q, x) \in Seq(T) /\ Append(q, x) # <<>>
           /\ Len(q) \in Nat /\ Len(Append(q, x)) = Len(q) + 1
           /\ DOMAIN q = 1 .. Len(q) /\ DOMAIN Append(q, x) = 1 .. Len(q) + 1
           /\ \A i \in DOMAIN q : Append(q, x)[i] = q[i]
           /\ Append(q, x)[Len(q) + 1] = x
  BY AppendProperties, LenProperties

LEMMA ReadLast ==
    ASSUME NEW T, NEW q \in Seq(T), q # <<>>, Len(q) = 1
    PROVE  Tail(q) = <<>> /\ Head(q) = q[Len(q)]
  <1>1. Len(Tail(q)) = 0 /\ Tail(q) \in Seq(T)
    BY TailElements
  <1> QED  BY <1>1, EmptySeq, TailElements

LEMMA TailLast ==
    ASSUME NEW T, NEW q \in Seq(T), q # <<>>, Len(q) # 1
    PROVE  Tail(q) # <<>> /\ Tail(q)[Len(Tail(q))] = q[Len(q)]
  <1>1. Len(q) \in Nat /\ Len(q) > 0 /\ Len(Tail(q)) = Len(q) - 1 /\ Tail(q) \in Seq(T)
    BY TailElements
  <1>2. Len(q) - 1 \in 1 .. Len(q) - 1 /\ Len(Tail(q)) # 0 /\ Len(q) - 1 + 1 = Len(q)
    BY <1>1
  <1>3. Tail(q)[Len(q) - 1] = q[Len(q) - 1 + 1]
    BY <1>2, TailElements
  <1>4. Tail(q) # <<>>
    BY <1>1, <1>2, EmptySeq
  <1> QED  BY <1>1, <1>2, <1>3, <1>4

(* Taking the head of a queue leaves the last element what it was, with    *)
(* the head in place of the default if it was in the set.                  *)
LEMMA LastOfTail ==
    ASSUME NEW T, NEW q \in Seq(T), q # <<>>, NEW S, NEW d, NEW v
    PROVE  /\ NoneIn(q, S) => NoneIn(Tail(q), S) /\ Head(q) \notin S
           /\ IsLast(q, S, d, v) /\ Head(q) \in S => IsLast(Tail(q), S, Head(q), v)
           /\ IsLast(q, S, d, v) /\ Head(q) \notin S => IsLast(Tail(q), S, d, v)
  <1>1. NoneIn(q, S) => NoneIn(Tail(q), S) /\ Head(q) \notin S
    BY TailElements DEF NoneIn
  <1>2. ASSUME v \in S, NEW i \in DOMAIN q, q[i] = v, i # 1,
               \A j \in DOMAIN q : j > i => q[j] \notin S
        PROVE  \E k \in DOMAIN Tail(q) :
                  Tail(q)[k] = v /\ \A j \in DOMAIN Tail(q) : j > k => Tail(q)[j] \notin S
    <2>1. i - 1 \in DOMAIN Tail(q) /\ Tail(q)[i - 1] = v
      BY <1>2, TailElements
    <2>2. \A j \in DOMAIN Tail(q) : j > i - 1 => Tail(q)[j] \notin S
      BY <1>2, TailElements
    <2> QED  BY <2>1, <2>2
  <1>3. ASSUME \A j \in DOMAIN q : j > 1 => q[j] \notin S
        PROVE  NoneIn(Tail(q), S)
    BY <1>3, TailElements DEF NoneIn
  <1>4. Head(q) = q[1]
    BY TailElements
  <1>5. CASE v = d /\ NoneIn(q, S)
    BY <1>1, <1>5 DEF IsLast
  <1>6. ASSUME v \in S, NEW i \in DOMAIN q, q[i] = v,
               \A j \in DOMAIN q : j > i => q[j] \notin S
        PROVE  /\ Head(q) \in S => IsLast(Tail(q), S, Head(q), v)
               /\ Head(q) \notin S => IsLast(Tail(q), S, d, v)
    <2>1. CASE i = 1
      BY <2>1, <1>3, <1>4, <1>6 DEF IsLast
    <2>2. CASE i # 1
      BY <2>2, <1>2, <1>6 DEF IsLast
    <2> QED  BY <2>1, <2>2
  <1> QED  BY <1>1, <1>5, <1>6 DEF IsLast

(* Appending to a queue makes the new element the last one, if it is in    *)
(* the set, and leaves the last one what it was otherwise.                 *)
LEMMA LastOfAppend ==
    ASSUME NEW T, NEW q \in Seq(T), NEW x \in T, NEW S, NEW d, NEW v
    PROVE  /\ x \notin S /\ NoneIn(q, S) => NoneIn(Append(q, x), S)
           /\ x \in S => IsLast(Append(q, x), S, d, x)
           /\ x \notin S /\ IsLast(q, S, d, v) => IsLast(Append(q, x), S, d, v)
  <1>1. x \notin S /\ NoneIn(q, S) => NoneIn(Append(q, x), S)
    BY AppendElements DEF NoneIn
  <1>2. x \in S => IsLast(Append(q, x), S, d, x)
    <2>1. Len(q) + 1 \in DOMAIN Append(q, x) /\ Append(q, x)[Len(q) + 1] = x
      BY AppendElements
    <2>2. \A j \in DOMAIN Append(q, x) : ~(j > Len(q) + 1)
      BY AppendElements
    <2> QED  BY <2>1, <2>2 DEF IsLast
  <1>3. ASSUME x \notin S, v \in S, NEW i \in DOMAIN q, q[i] = v,
               \A j \in DOMAIN q : j > i => q[j] \notin S
        PROVE  IsLast(Append(q, x), S, d, v)
    <2>1. i \in DOMAIN Append(q, x) /\ Append(q, x)[i] = v
      BY <1>3, AppendElements
    <2>2. \A j \in DOMAIN Append(q, x) : j > i => Append(q, x)[j] \notin S
      BY <1>3, AppendElements
    <2> QED  BY <1>3, <2>1, <2>2 DEF IsLast
  <1> QED  BY <1>1, <1>2, <1>3 DEF IsLast

(* With no element of the set in the queue, what is last is the default. *)
LEMMA LastOfNone ==
    ASSUME NEW q, NEW S, NEW d, NEW v, NoneIn(q, S)
    PROVE  /\ IsLast(q, S, d, d)
           /\ IsLast(q, S, d, v) => v = d
  BY DEF IsLast, NoneIn

LEMMA LastInSome ==
    ASSUME NEW q, NEW S, NEW d, NEW e, NEW v, IsLast(q, S, d, v), ~NoneIn(q, S)
    PROVE  IsLast(q, S, e, v)
  BY DEF IsLast

LEMMA NoneOfAppend ==
    ASSUME NEW T, NEW q \in Seq(T), NEW x \in T, NEW S, x \notin S, NoneIn(q, S)
    PROVE  Append(q, x) \in Seq(T) /\ NoneIn(Append(q, x), S)
  BY LastOfAppend, AppendElements

LEMMA NoneInEmpty == \A S : NoneIn(<<>>, S)
  BY DEF NoneIn

-----------------------------------------------------------------------------
(* What a cycle of the main loop does to the pilot object *)

States  == Levels \cup {"Offline"}
Objects == [init : 0 .. 4, rcv : 0 .. 4, state : States, cmds : Seq(Commands)]

TypeInv ==
    /\ side \in {"ev", "se"} /\ known \in BOOLEAN /\ wrong \in BOOLEAN
    /\ hasMode \in BOOLEAN /\ on \in BOOLEAN /\ plugged \in BOOLEAN /\ entered \in BOOLEAN
    /\ init \in 0 .. 4 /\ rcv \in 0 .. 4 /\ state \in States
    /\ cmds \in Seq(Commands) /\ Len(cmds) <= MaxCommands
    /\ rsps \in Seq(Answers)
    /\ told \in Levels \cup {"none"}
    /\ put \in Demands[side] /\ evLevel \in Demands["ev"]
    /\ op \in IF side = "ev" THEN EvOps ELSE SeOps

(* The object after the control frame that is taken: a level ends the      *)
(* initialisation, an answer lets it go on.                                *)
Noticed(take)  == take /\ rsps # <<>> /\ Head(rsps) \in Levels
Answered(take) == take /\ rsps # <<>> /\ Head(rsps) = "ok"
TakenState(take) == IF Noticed(take) THEN Head(rsps) ELSE state
TakenInit(take)  == IF Noticed(take) THEN 4 ELSE init
TakenRcv(take)   == IF Answered(take) THEN init ELSE rcv

(* The initialisation takes its next step, with a command unless it is the *)
(* last one.                                                               *)
Steps(take) == known /\ TakenInit(take) # 4 /\ TakenRcv(take) = TakenInit(take)
InitCommand == IF init = 0 THEN "SetMode" ELSE IF init = 1 THEN AtRest[side] ELSE "Start"
Sends(take) == Steps(take) /\ init < 3

BegunState(take) == IF Steps(take) /\ init = 1 /\ side = "ev" THEN "B" ELSE TakenState(take)
BegunInit(take)  == IF Steps(take) THEN init + 1 ELSE TakenInit(take)
BegunCmds(take)  == IF Sends(take) THEN Append(cmds, InitCommand) ELSE cmds

LEMMA CommandTypes ==
    ASSUME side \in {"ev", "se"}
    PROVE  /\ {"SetMode", "Start", "Stop", AtRest[side]} \subseteq Commands
           /\ AtRest[side] \in Demands[side]
           /\ InitCommand \in Commands
           /\ side = "ev" => {"B", "C"} \subseteq Commands /\ AtRest[side] = "B"
           /\ side = "se" => {"off", "iso"} \subseteq Commands /\ AtRest[side] = "off"
           /\ Demands["ev"] = {"B", "C"} /\ Demands["se"] = {"off", "iso"}
           /\ side = "se" => Commands \cap Demands["ev"] = {}
  BY DEF Commands, Demands, AtRest, InitCommand

(* One step of the initialisation sends its command, and a vehicle's keeps *)
(* state B as what it has asked for.                                       *)
LEMMA InitSteps ==
    ASSUME side \in {"ev", "se"}, known, NEW p \in Objects
    PROVE  /\ InitStep(p) \in Objects
           /\ InitStep(p).init = p.init /\ InitStep(p).rcv = p.rcv
           /\ p.init = 0 => InitStep(p).cmds = Append(p.cmds, "SetMode")
           /\ p.init = 1 => InitStep(p).cmds = Append(p.cmds, AtRest[side])
           /\ p.init = 2 => InitStep(p).cmds = Append(p.cmds, "Start")
           /\ p.init >= 3 => InitStep(p).cmds = p.cmds
           /\ InitStep(p).state = IF p.init = 1 /\ side = "ev" THEN "B" ELSE p.state
  <1>1. ASSUME NEW c \in Commands
        PROVE  /\ Send(p, c) \in Objects
               /\ Send(p, c).init = p.init /\ Send(p, c).rcv = p.rcv
               /\ Send(p, c).state = p.state /\ Send(p, c).cmds = Append(p.cmds, c)
    BY AppendProperties DEF Send, Objects
  <1>2. ASSUME side = "ev"
        PROVE  /\ SetState(p, "B") \in Objects
               /\ SetState(p, "B").init = p.init /\ SetState(p, "B").rcv = p.rcv
               /\ SetState(p, "B").state = "B" /\ SetState(p, "B").cmds = Append(p.cmds, "B")
    BY <1>2, AppendProperties, CommandTypes DEF SetState, Send, Objects, States, Levels
  <1>3. p.init \in 0 .. 4
    BY DEF Objects
  <1>4. CASE p.init = 0
    BY <1>4, <1>1, CommandTypes DEF InitStep
  <1>5. CASE p.init = 1 /\ side = "ev"
    BY <1>5, <1>2, CommandTypes DEF InitStep
  <1>6. CASE p.init = 1 /\ side = "se"
    BY <1>6, <1>1, CommandTypes DEF InitStep, SetPwm
  <1>7. CASE p.init = 2
    BY <1>7, <1>1, CommandTypes DEF InitStep
  <1>8. CASE p.init >= 3
    <2>1. InitStep(p) = p
      BY <1>8, <1>3 DEF InitStep
    <2> QED  BY <2>1, <1>8
  <1> QED  BY <1>3, <1>4, <1>5, <1>6, <1>7, <1>8

LEMMA BegunObject ==
    ASSUME TypeInv, NEW take \in BOOLEAN, Takes(take)
    PROVE  /\ Begun(take).init = BegunInit(take)
           /\ Begun(take).rcv = TakenRcv(take)
           /\ Begun(take).state = BegunState(take)
           /\ Begun(take).cmds = BegunCmds(take)
           /\ Begun(take) \in Objects
  <1> DEFINE e == IF take THEN Evaluated(Object, Head(rsps)) ELSE Object
             t == [init |-> TakenInit(take), rcv |-> TakenRcv(take),
                   state |-> TakenState(take), cmds |-> cmds]
  <1>1. take => rsps # <<>> /\ Head(rsps) \in Answers
    BY TailElements DEF Takes, TypeInv
  <1>2. e = t
    BY <1>1 DEF Evaluated, Object, TakenInit, TakenRcv, TakenState, Noticed, Answered, Levels
  <1>3. t \in Objects
    BY <1>1 DEF Objects, TakenInit, TakenRcv, TakenState, Noticed, Answered, TypeInv, States
  <1>4. Begun(take) = Operated(t)
    BY <1>2 DEF Begun
  <1>5. CASE ~Steps(take)
    <2>1. Operated(t) = t
      BY <1>5 DEF Operated, Steps
    <2> QED
      BY <1>3, <1>4, <1>5, <2>1 DEF BegunInit, BegunState, BegunCmds, Sends
  <1>6. CASE Steps(take)
    <2>1. Operated(t) = [InitStep(t) EXCEPT !.init = @ + 1] /\ known /\ ~Noticed(take)
      BY <1>6 DEF Operated, Steps, TakenInit
    <2>2. init \in 0 .. 3 /\ TakenInit(take) = init /\ TakenState(take) = state
      BY <1>6, <2>1 DEF TypeInv, Steps, TakenInit, TakenState
    <2>3. /\ InitStep(t) \in Objects
          /\ InitStep(t).init = init /\ InitStep(t).rcv = TakenRcv(take)
          /\ InitStep(t).state = BegunState(take) /\ InitStep(t).cmds = BegunCmds(take)
      <3>1. t.init = init /\ t.rcv = TakenRcv(take) /\ t.state = state /\ t.cmds = cmds
        BY <2>2
      <3>2. side \in {"ev", "se"}
        BY DEF TypeInv
      <3> HIDE DEF t
      <3>3. /\ InitStep(t) \in Objects
            /\ InitStep(t).init = init /\ InitStep(t).rcv = TakenRcv(take)
            /\ init = 0 => InitStep(t).cmds = Append(cmds, "SetMode")
            /\ init = 1 => InitStep(t).cmds = Append(cmds, AtRest[side])
            /\ init = 2 => InitStep(t).cmds = Append(cmds, "Start")
            /\ init >= 3 => InitStep(t).cmds = cmds
            /\ InitStep(t).state = IF init = 1 /\ side = "ev" THEN "B" ELSE state
        <4>1. known
          BY <1>6 DEF Steps
        <4>2. /\ InitStep(t) \in Objects
              /\ InitStep(t).init = t.init /\ InitStep(t).rcv = t.rcv
              /\ t.init = 0 => InitStep(t).cmds = Append(t.cmds, "SetMode")
              /\ t.init = 1 => InitStep(t).cmds = Append(t.cmds, AtRest[side])
              /\ t.init = 2 => InitStep(t).cmds = Append(t.cmds, "Start")
              /\ t.init >= 3 => InitStep(t).cmds = t.cmds
              /\ InitStep(t).state = IF t.init = 1 /\ side = "ev" THEN "B" ELSE t.state
          BY <4>1, <3>2, <1>3, InitSteps
        <4> QED  BY <3>1, <4>2
      <3>4. InitStep(t).state = BegunState(take)
        BY <3>3, <2>2, <1>6 DEF BegunState
      <3>5. InitStep(t).cmds = BegunCmds(take)
        <4>1. CASE init \in 0 .. 2
          <5>1. BegunCmds(take) = Append(cmds, InitCommand)
            BY <4>1, <1>6 DEF BegunCmds, Sends
          <5>2. InitStep(t).cmds = Append(cmds, InitCommand)
            BY <3>3, <4>1 DEF InitCommand
          <5> QED  BY <5>1, <5>2
        <4>2. CASE init = 3
          BY <4>2, <3>3 DEF BegunCmds, Sends
        <4> QED  BY <4>1, <4>2, <2>2
      <3> QED  BY <3>3, <3>4, <3>5
    <2> HIDE DEF t
    <2> QED
      BY <1>4, <1>6, <2>1, <2>2, <2>3 DEF BegunInit, Objects
  <1> QED  BY <1>5, <1>6

(* What the main loop adds: nothing, or one command, with which a vehicle  *)
(* keeps the state it has asked for.                                       *)
Adds(p, q) ==
    \/ q.state = p.state /\ q.cmds = p.cmds
    \/ /\ side = "se" /\ op \in {"plug", "slac"} /\ q.state = p.state
       /\ \E c \in Demands["se"] : q.cmds = IF known THEN Append(p.cmds, c) ELSE p.cmds
    \/ /\ side = "ev" /\ (op = "power" \/ p.state = "C") /\ q.state \in Demands["ev"]
       /\ q.cmds = IF known THEN Append(p.cmds, q.state) ELSE p.cmds

LEMMA PilotAdds ==
    ASSUME TypeInv, NEW p \in Objects
    PROVE  /\ side = "ev" => EvPilot(p) \in Objects /\ EvPilot(p).init = p.init
                              /\ EvPilot(p).rcv = p.rcv /\ Adds(p, EvPilot(p))
           /\ side = "se" => SePilot(p) \in Objects /\ SePilot(p).init = p.init
                              /\ SePilot(p).rcv = p.rcv /\ Adds(p, SePilot(p))
  <1>1. ASSUME side = "ev"
        PROVE  EvPilot(p) \in Objects /\ EvPilot(p).init = p.init
               /\ EvPilot(p).rcv = p.rcv /\ Adds(p, EvPilot(p))
    <2>1. ASSUME NEW l \in {"B", "C"}
          PROVE  /\ SetState(p, l) \in Objects /\ SetState(p, l).init = p.init
                 /\ SetState(p, l).rcv = p.rcv /\ SetState(p, l).state = l
                 /\ SetState(p, l).cmds = IF known THEN Append(p.cmds, l) ELSE p.cmds
      BY <1>1, CommandTypes, AppendProperties DEF SetState, Send, Objects, States, Levels
    <2>2. CASE op = "power" /\ entered
      BY <1>1, <2>1, <2>2, CommandTypes DEF EvPilot, Adds
    <2>3. CASE op = "away" /\ p.state = "C"
      BY <1>1, <2>1, <2>3, CommandTypes DEF EvPilot, Adds
    <2>4. CASE ~(op = "power" /\ entered) /\ ~(op = "away" /\ p.state = "C")
      BY <2>4 DEF EvPilot, Adds
    <2> QED  BY <2>2, <2>3, <2>4
  <1>2. ASSUME side = "se"
        PROVE  SePilot(p) \in Objects /\ SePilot(p).init = p.init
               /\ SePilot(p).rcv = p.rcv /\ Adds(p, SePilot(p))
    <2>1. ASSUME NEW l \in {"off", "iso"}
          PROVE  /\ SetPwm(p, l) \in Objects /\ SetPwm(p, l).init = p.init
                 /\ SetPwm(p, l).rcv = p.rcv /\ SetPwm(p, l).state = p.state
                 /\ SetPwm(p, l).cmds = IF known THEN Append(p.cmds, l) ELSE p.cmds
      BY <1>2, CommandTypes, AppendProperties DEF SetPwm, Send, Objects
    <2>2. CASE op = "plug" /\ entered
      BY <1>2, <2>1, <2>2, CommandTypes DEF SePilot, Adds
    <2>3. CASE op = "slac" /\ entered
      BY <1>2, <2>1, <2>3, CommandTypes DEF SePilot, Adds
    <2>4. CASE ~(op = "plug" /\ entered) /\ ~(op = "slac" /\ entered)
      BY <2>4 DEF SePilot, Adds
    <2> QED  BY <2>2, <2>3, <2>4
  <1> QED  BY <1>1, <1>2

(* A cycle of either main loop, with the calls of the loop in one place.   *)
PilotCalls(take) ==
    \/ state' = BegunState(take) /\ cmds' = BegunCmds(take)
    \/ /\ side = "se" /\ op \in {"plug", "slac"} /\ state' = BegunState(take)
       /\ \E c \in Demands["se"] :
             cmds' = IF known THEN Append(BegunCmds(take), c) ELSE BegunCmds(take)
    \/ /\ side = "ev" /\ (op = "power" \/ BegunState(take) = "C") /\ state' \in Demands["ev"]
       /\ cmds' = IF known THEN Append(BegunCmds(take), state') ELSE BegunCmds(take)

Cycle(take) ==
    /\ op # "down"
    /\ IF take THEN rsps # <<>> ELSE Len(rsps) <= MaxWaiting
    /\ init' = BegunInit(take) /\ rcv' = TakenRcv(take) /\ PilotCalls(take)
    /\ init' \in 0 .. 4 /\ rcv' \in 0 .. 4 /\ state' \in States
    /\ cmds' \in Seq(Commands) /\ Len(cmds') <= MaxCommands
    /\ rsps' = IF take THEN Tail(rsps) ELSE rsps
    /\ UNCHANGED <<side, known, wrong, boardVars, wireVars>>
    /\ entered' \in BOOLEAN
    /\ op' # "down" /\ op' \in IF side = "ev" THEN EvOps ELSE SeOps

LEMMA EvCycles ==
    ASSUME TypeInv, NEW take \in BOOLEAN, NEW enters \in BOOLEAN, NEW next \in {"away", "power"},
           EvCycle(take, next, enters)
    PROVE  Cycle(take)
  <1> DEFINE p == Begun(take)
             q == EvPilot(p)
  <1>1. side = "ev" /\ op # "down" /\ Takes(take) /\ op' = next
        /\ (next = "power" => p.init = 4) /\ entered' = (next # op \/ (next = "power" /\ enters))
    BY DEF EvCycle
  <1>2. /\ Len(q.cmds) <= MaxCommands
        /\ init' = q.init /\ rcv' = q.rcv /\ state' = q.state /\ cmds' = q.cmds
        /\ rsps' = IF take THEN Tail(rsps) ELSE rsps
        /\ UNCHANGED <<side, known, wrong, boardVars, wireVars>>
    BY DEF EvCycle, Leaves
  <1>3. p.init = BegunInit(take) /\ p.rcv = TakenRcv(take) /\ p.state = BegunState(take)
        /\ p.cmds = BegunCmds(take) /\ p \in Objects
    BY <1>1, BegunObject
  <1>4. q \in Objects /\ q.init = p.init /\ q.rcv = p.rcv /\ Adds(p, q)
    BY <1>1, <1>3, PilotAdds
  <1>5. init' \in 0 .. 4 /\ rcv' \in 0 .. 4 /\ state' \in States
        /\ cmds' \in Seq(Commands) /\ Len(cmds') <= MaxCommands
    BY <1>2, <1>4 DEF Objects
  <1> HIDE DEF p, q
  <1>6. PilotCalls(take)
    BY <1>1, <1>2, <1>3, <1>4 DEF PilotCalls, Adds
  <1>7. op' # "down" /\ op' \in EvOps /\ entered' \in BOOLEAN
    BY <1>1 DEF EvOps
  <1>8. IF take THEN rsps # <<>> ELSE Len(rsps) <= MaxWaiting
    BY <1>1 DEF Takes
  <1> QED
    BY <1>1, <1>2, <1>3, <1>4, <1>5, <1>6, <1>7, <1>8 DEF Cycle

LEMMA SeCycles ==
    ASSUME TypeInv, NEW take \in BOOLEAN, NEW due \in BOOLEAN, NEW matched \in BOOLEAN,
           NEW over \in BOOLEAN, SeCycle(take, due, matched, over)
    PROVE  Cycle(take)
  <1> DEFINE p == Begun(take)
             q == SePilot(p)
  <1>1. side = "se" /\ Takes(take) /\ op' = SeOpNext(p, due, matched, over) /\ entered' = (op' # op)
    BY DEF SeCycle
  <1>2. /\ Len(q.cmds) <= MaxCommands
        /\ init' = q.init /\ rcv' = q.rcv /\ state' = q.state /\ cmds' = q.cmds
        /\ rsps' = IF take THEN Tail(rsps) ELSE rsps
        /\ UNCHANGED <<side, known, wrong, boardVars, wireVars>>
    BY DEF SeCycle, Leaves
  <1>3. p.init = BegunInit(take) /\ p.rcv = TakenRcv(take) /\ p.state = BegunState(take)
        /\ p.cmds = BegunCmds(take) /\ p \in Objects
    BY <1>1, BegunObject
  <1>4. q \in Objects /\ q.init = p.init /\ q.rcv = p.rcv /\ Adds(p, q)
    BY <1>1, <1>3, PilotAdds
  <1>5. init' \in 0 .. 4 /\ rcv' \in 0 .. 4 /\ state' \in States
        /\ cmds' \in Seq(Commands) /\ Len(cmds') <= MaxCommands
    BY <1>2, <1>4 DEF Objects
  <1>6. SeOpNext(p, due, matched, over) \in SeOps /\ op \in SeOps /\ "down" \notin SeOps
    BY <1>1 DEF SeOpNext, SeLeavesInit, SeProgress, SeOps, TypeInv
  <1> HIDE DEF p, q
  <1>8. PilotCalls(take)
    BY <1>1, <1>2, <1>3, <1>4 DEF PilotCalls, Adds
  <1>9. IF take THEN rsps # <<>> ELSE Len(rsps) <= MaxWaiting
    BY <1>1 DEF Takes
  <1>10. op # "down" /\ op' # "down" /\ op' \in SeOps /\ entered' \in BOOLEAN
    BY <1>1, <1>6
  <1> QED
    BY <1>1, <1>2, <1>3, <1>4, <1>5, <1>8, <1>9, <1>10 DEF Cycle

-----------------------------------------------------------------------------
(* The types, and what program and board know of each other *)

(* A stop is the last command of a program that is quit.                   *)
Stopping == cmds # <<>> /\ cmds[Len(cmds)] = "Stop"

(* A board whose address is not known has been told nothing; a board that  *)
(* is not started, or is to be stopped, has no program that trusts it.     *)
BoardInv ==
    /\ ~known => ~on /\ init = 0 /\ rcv = 0 /\ cmds = <<>> /\ rsps = <<>>
    /\ ~on => told = "none"
    /\ op = "down" /\ (on \/ cmds # <<>>) => Stopping
    /\ \A i \in DOMAIN cmds : cmds[i] = "Stop" => op = "down" /\ i = Len(cmds)

(* What the program will take for the pilot state when it has read all     *)
(* that is under way: what the board has notified last, or, on the         *)
(* vehicle's side, the demand that the board has yet to put on the wire.   *)
Follows(st, cs, rs) ==
    \/ IsLast(rs, Levels, st, told)
    \/ side = "ev" /\ NoneIn(rs, Levels) /\ IsLast(cs, Demands["ev"], evLevel, st)

KnownInv == op # "down" /\ told # "none" => Follows(state, cmds, rsps)

LEMMA InitTypes == Init => TypeInv /\ BoardInv /\ KnownInv
  <1> SUFFICES ASSUME Init PROVE TypeInv /\ BoardInv /\ KnownInv
    OBVIOUS
  <1>1. /\ side \in {"ev", "se"} /\ put \in Demands[side] /\ evLevel \in Demands["ev"]
        /\ op \in IF side = "ev" THEN EvOps ELSE SeOps
    BY DEF Init, AtRest, Demands, EvOps, SeOps
  <1>2. cmds \in Seq(Commands) /\ Len(cmds) <= MaxCommands /\ rsps \in Seq(Answers)
    BY PilotAssumption DEF Init
  <1>3. TypeInv
    <2>1. /\ known \in BOOLEAN /\ wrong \in BOOLEAN /\ hasMode \in BOOLEAN /\ on \in BOOLEAN
          /\ plugged \in BOOLEAN /\ entered \in BOOLEAN
      BY DEF Init
    <2>2. init \in 0 .. 4 /\ rcv \in 0 .. 4 /\ state \in States /\ told \in Levels \cup {"none"}
      BY DEF Init, States
    <2> QED  BY <1>1, <1>2, <2>1, <2>2, Zenon DEF TypeInv
  <1>4. BoardInv
    BY DEF Init, BoardInv
  <1> QED  BY <1>3, <1>4 DEF Init, KnownInv

(* A cycle leaves the queue of commands as it was, or adds commands other  *)
(* than Stop to it.                                                        *)
LEMMA CycleCommands ==
    ASSUME TypeInv, BoardInv, NEW take \in BOOLEAN, Cycle(take)
    PROVE  /\ BegunCmds(take) \in Seq(Commands)
           /\ NoneIn(BegunCmds(take), {"Stop"}) /\ NoneIn(cmds', {"Stop"})
           /\ ~known => cmds' = cmds
  <1>1. NoneIn(cmds, {"Stop"})
    BY DEF Cycle, BoardInv, NoneIn
  <1>2. InitCommand \in Commands /\ InitCommand # "Stop"
    BY CommandTypes DEF InitCommand, TypeInv, AtRest
  <1>3. BegunCmds(take) \in Seq(Commands) /\ NoneIn(BegunCmds(take), {"Stop"})
    <2>1. CASE Sends(take)
      <3>1. cmds \in Seq(Commands) /\ InitCommand \notin {"Stop"}
        BY <1>2 DEF TypeInv
      <3> QED  BY <2>1, <3>1, <1>1, <1>2, NoneOfAppend DEF BegunCmds
    <2>2. CASE ~Sends(take)
      BY <2>2, <1>1 DEF BegunCmds, TypeInv
    <2> QED  BY <2>1, <2>2
  <1>4. ~known => BegunCmds(take) = cmds
    BY DEF BegunCmds, Sends, Steps
  <1>5. \A c \in Commands : c # "Stop" => NoneIn(Append(BegunCmds(take), c), {"Stop"})
    BY <1>3, NoneOfAppend
  <1>6. CASE state' = BegunState(take) /\ cmds' = BegunCmds(take)
    BY <1>3, <1>4, <1>6
  <1>7. CASE /\ side = "se" /\ op \in {"plug", "slac"} /\ state' = BegunState(take)
             /\ \E c \in Demands["se"] :
                   cmds' = IF known THEN Append(BegunCmds(take), c) ELSE BegunCmds(take)
    <2>1. PICK c \in Demands["se"] :
              cmds' = IF known THEN Append(BegunCmds(take), c) ELSE BegunCmds(take)
      BY <1>7
    <2>2. c \in Commands /\ c # "Stop"
      BY <1>7, CommandTypes
    <2> QED  BY <1>3, <1>4, <1>5, <2>1, <2>2
  <1>8. CASE /\ side = "ev" /\ (op = "power" \/ BegunState(take) = "C") /\ state' \in Demands["ev"]
             /\ cmds' = IF known THEN Append(BegunCmds(take), state') ELSE BegunCmds(take)
    <2>1. state' \in Commands /\ state' # "Stop"
      BY <1>8, CommandTypes
    <2> QED  BY <1>3, <1>4, <1>5, <1>8, <2>1
  <1> QED  BY <1>6, <1>7, <1>8 DEF Cycle, PilotCalls

LEMMA CycleTypes ==
    ASSUME TypeInv, BoardInv, NEW take \in BOOLEAN, Cycle(take)
    PROVE  TypeInv' /\ BoardInv'
  <1>1. rsps' \in Seq(Answers)
    BY TailElements DEF Cycle, TypeInv
  <1>2. TypeInv'
    BY <1>1 DEF Cycle, TypeInv, boardVars, wireVars, Commands
  <1>3. ~known => ~take /\ init' = 0 /\ rcv' = 0 /\ cmds' = <<>> /\ rsps' = <<>>
    <2> SUFFICES ASSUME ~known
                 PROVE  ~take /\ init' = 0 /\ rcv' = 0 /\ cmds' = <<>> /\ rsps' = <<>>
      OBVIOUS
    <2>1. init = 0 /\ rcv = 0 /\ cmds = <<>> /\ rsps = <<>>
      BY DEF BoardInv
    <2>2. ~take
      BY <2>1 DEF Cycle
    <2>3. ~Noticed(take) /\ ~Answered(take) /\ ~Steps(take)
      BY <2>2 DEF Noticed, Answered, Steps
    <2> QED
      BY <2>1, <2>2, <2>3, CycleCommands DEF Cycle, BegunInit, TakenInit, TakenRcv
  <1>4. \A i \in DOMAIN cmds' : cmds'[i] # "Stop"
    BY CycleCommands DEF NoneIn
  <1>5. on' = on /\ told' = told /\ known' = known /\ op # "down" /\ op' # "down"
    BY DEF Cycle, boardVars
  <1>6. BoardInv'
    BY <1>3, <1>4, <1>5 DEF BoardInv
  <1> QED  BY <1>2, <1>6

-----------------------------------------------------------------------------
(* The state the program knows: a frame that is taken, a command that is   *)
(* sent, a demand that takes the place of the state.                       *)

LEMMA FollowsTaken ==
    ASSUME TypeInv, rsps # <<>>, Follows(state, cmds, rsps)
    PROVE  Follows(TakenState(TRUE), cmds, Tail(rsps))
  <1>1. rsps \in Seq(Answers)
    BY DEF TypeInv
  <1>2. CASE IsLast(rsps, Levels, state, told)
    BY <1>1, <1>2, LastOfTail DEF Follows, TakenState, Noticed
  <1>3. CASE side = "ev" /\ NoneIn(rsps, Levels) /\ IsLast(cmds, Demands["ev"], evLevel, state)
    BY <1>1, <1>3, LastOfTail DEF Follows, TakenState, Noticed
  <1> QED  BY <1>2, <1>3 DEF Follows

LEMMA FollowsSent ==
    ASSUME NEW st, NEW cs \in Seq(Commands), NEW rs, NEW c \in Commands, Follows(st, cs, rs),
           side = "ev" => c \notin Demands["ev"]
    PROVE  Follows(st, Append(cs, c), rs)
  BY LastOfAppend DEF Follows

LEMMA FollowsDemand ==
    ASSUME NEW st, NEW cs \in Seq(Commands), NEW rs, NEW c \in Commands, Follows(st, cs, rs),
           side = "ev", c \in Demands["ev"]
    PROVE  Follows(c, Append(cs, c), rs)
  <1>1. IsLast(Append(cs, c), Demands["ev"], evLevel, c)
    BY LastOfAppend
  <1>2. CASE NoneIn(rs, Levels)
    BY <1>1, <1>2 DEF Follows
  <1>3. CASE ~NoneIn(rs, Levels)
    BY <1>3, LastInSome DEF Follows
  <1> QED  BY <1>2, <1>3

LEMMA CycleKnown ==
    ASSUME TypeInv, BoardInv, KnownInv, NEW take \in BOOLEAN, Cycle(take)
    PROVE  KnownInv'
  <1> SUFFICES ASSUME told' # "none"
               PROVE  Follows(state, cmds, rsps)'
    BY DEF KnownInv
  <1>1. /\ side' = side /\ told' = told /\ evLevel' = evLevel /\ told # "none" /\ known
        /\ side \in {"ev", "se"}
    BY DEF Cycle, boardVars, wireVars, BoardInv, TypeInv
  <1>2. Follows(state, cmds, rsps)
    BY <1>1 DEF KnownInv, Cycle
  <1>3. Follows(TakenState(take), cmds, rsps')
    <2>1. CASE take
      <3>1. take = TRUE /\ rsps # <<>> /\ rsps' = Tail(rsps)
        BY <2>1 DEF Cycle
      <3> QED  BY <3>1, <1>2, FollowsTaken
    <2>2. CASE ~take
      <3>1. rsps' = rsps /\ TakenState(take) = state
        BY <2>2 DEF Cycle, TakenState, Noticed
      <3> QED  BY <3>1, <1>2
    <2> QED  BY <2>1, <2>2
  <1>4. Follows(BegunState(take), BegunCmds(take), rsps')
    <2>1. CASE ~Sends(take)
      <3>1. BegunState(take) = TakenState(take) /\ BegunCmds(take) = cmds
        BY <2>1 DEF Sends, BegunState, BegunCmds
      <3> QED  BY <3>1, <1>3
    <2>2. CASE Sends(take)
      <3>1. BegunCmds(take) = Append(cmds, InitCommand) /\ InitCommand \in Commands
            /\ cmds \in Seq(Commands)
        BY <2>2, <1>1, CommandTypes DEF BegunCmds, TypeInv
      <3>2. CASE init = 1 /\ side = "ev"
        <4>1. InitCommand = "B" /\ BegunState(take) = "B" /\ "B" \in Demands["ev"]
          BY <3>2, <2>2, CommandTypes DEF InitCommand, BegunState, Sends
        <4> QED  BY <4>1, <3>1, <3>2, <1>3, FollowsDemand
      <3>3. CASE ~(init = 1 /\ side = "ev")
        <4>1. BegunState(take) = TakenState(take)
          BY <3>3 DEF BegunState
        <4>2. side = "ev" => InitCommand \notin Demands["ev"]
          BY <3>3, CommandTypes DEF InitCommand
        <4> QED  BY <4>1, <4>2, <3>1, <1>3, FollowsSent
      <3> QED  BY <3>2, <3>3
    <2> QED  BY <2>1, <2>2
  <1>5. BegunCmds(take) \in Seq(Commands)
    BY CycleCommands
  <1>6. Follows(state', cmds', rsps')
    <2>1. CASE state' = BegunState(take) /\ cmds' = BegunCmds(take)
      BY <2>1, <1>4
    <2>2. CASE /\ side = "se" /\ op \in {"plug", "slac"} /\ state' = BegunState(take)
               /\ \E c \in Demands["se"] :
                     cmds' = IF known THEN Append(BegunCmds(take), c) ELSE BegunCmds(take)
      <3>1. PICK c \in Demands["se"] : cmds' = Append(BegunCmds(take), c)
        BY <2>2, <1>1
      <3>2. c \in Commands /\ side # "ev"
        BY <2>2, CommandTypes
      <3> QED  BY <2>2, <3>1, <3>2, <1>4, <1>5, FollowsSent
    <2>3. CASE /\ side = "ev" /\ (op = "power" \/ BegunState(take) = "C") /\ state' \in Demands["ev"]
               /\ cmds' = IF known THEN Append(BegunCmds(take), state') ELSE BegunCmds(take)
      <3>1. cmds' = Append(BegunCmds(take), state') /\ state' \in Commands
        BY <2>3, <1>1, CommandTypes
      <3> QED  BY <2>3, <3>1, <1>4, <1>5, FollowsDemand
    <2> QED  BY <2>1, <2>2, <2>3 DEF Cycle, PilotCalls
  <1> QED  BY <1>1, <1>6 DEF Follows

-----------------------------------------------------------------------------
(* The other steps *)

BaseInv == TypeInv /\ BoardInv /\ KnownInv

LEMMA QuitsBase == BaseInv /\ EvQuits => BaseInv'
  <1> SUFFICES ASSUME BaseInv, EvQuits PROVE BaseInv'
    OBVIOUS
  <1>1. /\ side = "ev" /\ op # "down" /\ op' = "down" /\ entered' = FALSE /\ Len(cmds) < MaxCommands
        /\ cmds' = IF known THEN Append(cmds, "Stop") ELSE cmds
        /\ UNCHANGED <<side, progVars, rsps, wrong, boardVars, wireVars>>
    BY DEF EvQuits
  <1>2. TypeInv /\ BoardInv /\ cmds \in Seq(Commands) /\ "Stop" \in Commands
    BY CommandTypes DEF BaseInv, TypeInv
  <1>3. cmds' \in Seq(Commands) /\ Len(cmds') <= MaxCommands
    BY <1>1, <1>2, AppendElements, PilotAssumption DEF TypeInv
  <1>4. TypeInv'
    BY <1>1, <1>2, <1>3 DEF TypeInv, progVars, boardVars, wireVars, Commands, EvOps
  <1>5. CASE ~known
    <2>1. ~on /\ told = "none" /\ init = 0 /\ rcv = 0 /\ cmds' = <<>> /\ rsps = <<>>
      BY <1>1, <1>2, <1>5 DEF BoardInv
    <2>2. ~on' /\ told' = "none" /\ init' = 0 /\ rcv' = 0 /\ rsps' = <<>>
      BY <1>1, <2>1 DEF progVars, boardVars
    <2>3. BoardInv'
      BY <1>1, <2>1, <2>2 DEF BoardInv
    <2> QED  BY <1>1, <1>4, <2>3 DEF BaseInv, KnownInv
  <1>6. CASE known
    <2>1. cmds' = Append(cmds, "Stop")
      BY <1>1, <1>6
    <2>2. Stopping'
      BY <1>2, <2>1, AppendElements DEF Stopping
    <2>3. \A i \in DOMAIN cmds' : cmds'[i] = "Stop" => i = Len(cmds')
      <3> SUFFICES ASSUME NEW i \in DOMAIN cmds', cmds'[i] = "Stop", i # Len(cmds') PROVE FALSE
        OBVIOUS
      <3>1. i \in DOMAIN cmds /\ cmds[i] = "Stop"
        BY <1>2, <2>1, AppendElements
      <3> QED  BY <3>1, <1>1, <1>2 DEF BoardInv
    <2>4. BoardInv'
      BY <1>1, <1>2, <1>6, <2>2, <2>3 DEF BoardInv, progVars, boardVars
    <2> QED  BY <1>1, <1>4, <2>4 DEF BaseInv, KnownInv
  <1> QED  BY <1>5, <1>6

(* A stopped program starts anew when the board has taken its last command *)
(* and has therefore been stopped.                                         *)
LEMMA RestartsBase == BaseInv /\ EvRestarts => BaseInv'
  <1> SUFFICES ASSUME BaseInv, EvRestarts PROVE BaseInv'
    OBVIOUS
  <1>1. /\ op = "down" /\ cmds = <<>> /\ op' = "away" /\ known' = FALSE /\ init' = 0 /\ rcv' = 0
        /\ state' = "Offline" /\ rsps' = <<>>
        /\ UNCHANGED <<side, cmds, wrong, boardVars, wireVars, entered>>
    BY DEF EvRestarts
  <1>2. TypeInv /\ ~on /\ told = "none"
    BY <1>1 DEF BaseInv, BoardInv, Stopping
  <1>3. side = "ev"
    BY <1>1, <1>2 DEF TypeInv, SeOps
  <1>4. TypeInv'
    <2>1. rsps' \in Seq(Answers) /\ init' \in 0 .. 4 /\ rcv' \in 0 .. 4 /\ state' \in States
          /\ op' \in EvOps
      BY <1>1 DEF States, EvOps
    <2>2. known' \in BOOLEAN
      BY <1>1
    <2> QED  BY <1>1, <1>2, <1>3, <2>1, <2>2 DEF TypeInv, boardVars, wireVars, Commands
  <1>5. ~on' /\ told' = "none" /\ cmds' = <<>> /\ op' # "down"
    BY <1>1, <1>2 DEF boardVars
  <1>6. BoardInv'
    BY <1>1, <1>5 DEF BoardInv
  <1> QED  BY <1>4, <1>5, <1>6 DEF BaseInv, KnownInv

LEMMA ObeysBase == BaseInv /\ Obeys => BaseInv'
  <1> SUFFICES ASSUME BaseInv, Obeys PROVE BaseInv'
    OBVIOUS
  <1> DEFINE c == Head(cmds)
             refuses == c = "SetMode" /\ wrong
             answer == IF refuses THEN "refused" ELSE "ok"
  <1>1. /\ cmds # <<>> /\ cmds' = Tail(cmds)
        /\ hasMode' = (hasMode \/ (c = "SetMode" /\ ~refuses))
        /\ on' = (c = "Start" \/ (on /\ c # "Stop"))
        /\ told' = IF c \in {"Start", "Stop"} THEN "none" ELSE told
        /\ put' = IF c \in Demands[side] THEN c ELSE put
        /\ evLevel' = IF c \in Demands["ev"] THEN c ELSE evLevel
        /\ rsps' = IF c = "Stop" THEN rsps ELSE Append(rsps, answer)
        /\ UNCHANGED <<side, progVars, wrong, plugged, op, entered>>
    BY DEF Obeys
  <1>2. TypeInv /\ BoardInv /\ cmds \in Seq(Commands) /\ rsps \in Seq(Answers) /\ known
    BY <1>1 DEF BaseInv, TypeInv, BoardInv
  <1>3. answer \in Answers /\ answer \notin Levels
    BY DEF Answers, Levels
  <1>4. c = cmds[1] /\ c \in Commands /\ 1 \in DOMAIN cmds
    BY <1>1, <1>2, TailElements
  <1> HIDE DEF answer, c
  <1>5. rsps' \in Seq(Answers)
    BY <1>1, <1>2, <1>3, AppendElements
  <1>6. cmds' \in Seq(Commands) /\ Len(cmds') <= MaxCommands
    <2>1. Len(cmds) \in Nat /\ Len(cmds') = Len(cmds) - 1 /\ cmds' \in Seq(Commands)
      BY <1>1, <1>2, TailElements
    <2> QED  BY <1>2, <2>1, PilotAssumption DEF TypeInv
  <1>7. hasMode' \in BOOLEAN /\ on' \in BOOLEAN
    BY <1>1, Zenon
  <1>8. TypeInv'
    <2>1. told' \in Levels \cup {"none"} /\ put' \in Demands[side] /\ evLevel' \in Demands["ev"]
      BY <1>1, <1>2 DEF TypeInv
    <2>2. side' = side /\ Commands' = Commands
      BY <1>1 DEF Commands
    <2> QED
      BY <1>1, <1>2, <1>5, <1>6, <1>7, <2>1, <2>2 DEF TypeInv, progVars
  <1>9. ~on' => told' = "none"
    <2>1. ~on' => c # "Start" /\ (on => c = "Stop")
      BY <1>1, Zenon
    <2>2. ~on => told = "none"
      BY <1>2 DEF BoardInv
    <2>3. c = "Stop" => told' = "none"
      BY <1>1
    <2>4. c # "Start" /\ c # "Stop" => told' = told
      BY <1>1
    <2> QED  BY <2>1, <2>2, <2>3, <2>4, Zenon
  <1>10. op = "down" /\ (on' \/ cmds' # <<>>) => Stopping'
    <2> SUFFICES ASSUME op = "down", on' \/ cmds' # <<>>
                 PROVE  Stopping'
      OBVIOUS
    <2>1. Stopping
      BY <1>1, <1>2 DEF BoardInv
    <2>2. c = "Stop" => ~on'
      BY <1>1, Zenon
    <2>3. c = "Stop" => Len(cmds) = 1
      BY <1>2, <1>4 DEF BoardInv
    <2>4. Len(cmds) = 1 => c = "Stop" /\ cmds' = <<>>
      BY <1>1, <1>2, <1>4, <2>1, ReadLast DEF Stopping
    <2>5. Len(cmds) # 1
      BY <2>2, <2>3, <2>4
    <2>6. Tail(cmds) # <<>> /\ Tail(cmds)[Len(Tail(cmds))] = cmds[Len(cmds)]
      BY <1>1, <1>2, <2>5, TailLast
    <2> QED  BY <1>1, <2>1, <2>6 DEF Stopping
  <1>11. \A i \in DOMAIN cmds' : cmds'[i] = "Stop" => op = "down" /\ i = Len(cmds')
    BY <1>1, <1>2, TailElements DEF BoardInv
  <1>12. BoardInv'
    BY <1>1, <1>2, <1>9, <1>10, <1>11 DEF BoardInv, progVars
  <1>13. ASSUME op # "down", told' # "none"
         PROVE  Follows(state, cmds, rsps)'
    <2>1. told' = told /\ told # "none" /\ c # "Stop" /\ rsps' = Append(rsps, answer)
      BY <1>1, <1>13
    <2>2. Follows(state, cmds, rsps)
      BY <1>13, <2>1 DEF BaseInv, KnownInv
    <2>3. CASE IsLast(rsps, Levels, state, told)
      <3>1. IsLast(Append(rsps, answer), Levels, state, told)
        BY <1>2, <1>3, <2>3, LastOfAppend
      <3> QED  BY <1>1, <2>1, <3>1 DEF Follows, progVars
    <2>4. CASE side = "ev" /\ NoneIn(rsps, Levels) /\ IsLast(cmds, Demands["ev"], evLevel, state)
      <3>1. NoneIn(Append(rsps, answer), Levels)
        BY <1>2, <1>3, <2>4, NoneOfAppend
      <3>2. IsLast(Tail(cmds), Demands["ev"], IF c \in Demands["ev"] THEN c ELSE evLevel, state)
        BY <1>1, <1>2, <2>4, LastOfTail DEF c
      <3> QED  BY <1>1, <2>1, <2>4, <3>1, <3>2 DEF Follows, progVars
    <2> QED  BY <2>2, <2>3, <2>4 DEF Follows
  <1>14. KnownInv'
    BY <1>1, <1>13 DEF KnownInv
  <1> QED  BY <1>8, <1>12, <1>14 DEF BaseInv

LEMMA NotifiesBase == BaseInv /\ Notifies => BaseInv'
  <1> SUFFICES ASSUME BaseInv, Notifies PROVE BaseInv'
    OBVIOUS
  <1>1. /\ on /\ told' = Level /\ rsps' = Append(rsps, Level)
        /\ UNCHANGED <<side, progVars, cmds, wrong, hasMode, on, put, wireVars, op, entered>>
    BY DEF Notifies
  <1>2. TypeInv /\ BoardInv /\ rsps \in Seq(Answers) /\ known
    BY <1>1 DEF BaseInv, TypeInv, BoardInv
  <1>3. Level \in Levels /\ Level \in Answers
    BY <1>2 DEF Level, Levels, Answers, TypeInv, Demands
  <1>4. rsps' \in Seq(Answers)
    BY <1>1, <1>2, <1>3, AppendElements
  <1>5. TypeInv'
    BY <1>1, <1>2, <1>3, <1>4 DEF TypeInv, progVars, wireVars, Commands
  <1>6. BoardInv'
    BY <1>1, <1>2 DEF BoardInv, progVars, Stopping
  <1>7. IsLast(rsps', Levels, state, told')
    BY <1>1, <1>2, <1>3, LastOfAppend
  <1>8. KnownInv'
    BY <1>1, <1>7 DEF KnownInv, Follows, progVars
  <1> QED  BY <1>5, <1>6, <1>8 DEF BaseInv

LEMMA QuietBase ==
    BaseInv /\ (SeResets \/ LearnsAddress \/ Cable \/ OtherSide \/ UNCHANGED vars) => BaseInv'
  <1> SUFFICES ASSUME BaseInv, SeResets \/ LearnsAddress \/ Cable \/ OtherSide \/ UNCHANGED vars
               PROVE  BaseInv'
    OBVIOUS
  <1>1. TypeInv /\ BoardInv /\ KnownInv
    BY DEF BaseInv
  <1>2. CASE SeResets
    <2>1. side = "se" /\ op \in SeOps /\ op' = "plug" /\ op' \in SeOps /\ entered' \in BOOLEAN
          /\ op # "down"
          /\ UNCHANGED <<side, progVars, cmds, rsps, wrong, boardVars, wireVars>>
      BY <1>1, <1>2 DEF SeResets, TypeInv, SeOps
    <2>2. TypeInv'
      BY <1>1, <2>1 DEF TypeInv, progVars, boardVars, wireVars, Commands
    <2>3. BoardInv'
      BY <1>1, <2>1 DEF BoardInv, progVars, boardVars
    <2>4. KnownInv'
      BY <1>1, <2>1 DEF KnownInv, Follows, progVars, boardVars, wireVars
    <2> QED  BY <2>2, <2>3, <2>4 DEF BaseInv
  <1>3. CASE LearnsAddress
    <2>1. known' = TRUE /\ known' \in BOOLEAN
          /\ UNCHANGED <<side, init, rcv, state, cmds, rsps, wrong, boardVars, wireVars, op, entered>>
      BY <1>3 DEF LearnsAddress
    <2>2. TypeInv'
      BY <1>1, <2>1 DEF TypeInv, boardVars, wireVars, Commands
    <2>3. BoardInv'
      BY <1>1, <2>1 DEF BoardInv, boardVars, Stopping
    <2>4. KnownInv'
      BY <1>1, <2>1 DEF KnownInv, Follows, boardVars, wireVars
    <2> QED  BY <2>2, <2>3, <2>4 DEF BaseInv
  <1>4. CASE Cable
    <2>1. plugged' \in BOOLEAN
          /\ UNCHANGED <<side, progVars, cmds, rsps, wrong, boardVars, evLevel, op, entered>>
      BY <1>4 DEF Cable
    <2>2. TypeInv'
      BY <1>1, <2>1 DEF TypeInv, progVars, boardVars, Commands
    <2>3. BoardInv'
      BY <1>1, <2>1 DEF BoardInv, progVars, boardVars, Stopping
    <2>4. KnownInv'
      BY <1>1, <2>1 DEF KnownInv, Follows, progVars, boardVars
    <2> QED  BY <2>2, <2>3, <2>4 DEF BaseInv
  <1>5. CASE OtherSide
    <2>1. side = "se" /\ evLevel' \in Demands["ev"]
          /\ UNCHANGED <<side, progVars, cmds, rsps, wrong, boardVars, plugged, op, entered>>
      BY <1>5 DEF OtherSide
    <2>2. TypeInv'
      BY <1>1, <2>1 DEF TypeInv, progVars, boardVars, Commands
    <2>3. BoardInv'
      BY <1>1, <2>1 DEF BoardInv, progVars, boardVars, Stopping
    <2>4. KnownInv'
      BY <1>1, <2>1 DEF KnownInv, Follows, progVars, boardVars
    <2> QED  BY <2>2, <2>3, <2>4 DEF BaseInv
  <1>6. CASE UNCHANGED vars
    BY <1>1, <1>6 DEF vars, progVars, boardVars, wireVars, BaseInv, TypeInv, BoardInv, KnownInv,
                      Follows, Stopping, Commands
  <1> QED  BY <1>2, <1>3, <1>4, <1>5, <1>6

LEMMA NextBase == BaseInv /\ [Next]_vars => BaseInv'
  <1> SUFFICES ASSUME BaseInv, [Next]_vars PROVE BaseInv'
    OBVIOUS
  <1>1. ASSUME Ev PROVE BaseInv'
    <2>1. PICK take \in BOOLEAN, enters \in BOOLEAN, next \in {"away", "power"} :
              EvCycle(take, next, enters)
      BY <1>1 DEF Ev
    <2> QED  BY <2>1, EvCycles, CycleTypes, CycleKnown DEF BaseInv
  <1>2. ASSUME Se PROVE BaseInv'
    <2>1. PICK take \in BOOLEAN, due \in BOOLEAN, matched \in BOOLEAN, over \in BOOLEAN :
              SeCycle(take, due, matched, over)
      BY <1>2 DEF Se
    <2> QED  BY <2>1, SeCycles, CycleTypes, CycleKnown DEF BaseInv
  <1> QED
    BY <1>1, <1>2, QuitsBase, RestartsBase, ObeysBase, NotifiesBase, QuietBase DEF Next

(* Whatever is under way between a pilot and its board, and however key r, *)
(* restarts and the cable interfere: types, what the board has been told,  *)
(* and where the level of the wire is known.                               *)
THEOREM PilotInvariant == Spec => []BaseInv
  <1>1. Init => BaseInv
    BY InitTypes DEF BaseInv
  <1> QED  BY <1>1, NextBase, PTL DEF Spec

(* When nothing is under way, the program takes for the pilot state what   *)
(* is on the wire.                                                         *)
THEOREM AlwaysPilotKnown == Spec => []PilotKnown
  <1>1. BaseInv => PilotKnown
    <2> SUFFICES ASSUME BaseInv, on, op # "down", cmds = <<>>, rsps = <<>>, told = Level,
                        side = "ev" => plugged
                 PROVE  state = Level
      BY DEF PilotKnown
    <2>1. told # "none"
      BY DEF BaseInv, TypeInv, Level, Demands
    <2>2. NoneIn(rsps, Levels) /\ NoneIn(cmds, Demands["ev"])
      BY NoneInEmpty
    <2>3. IsLast(rsps, Levels, state, told) => told = state
      BY <2>2, LastOfNone
    <2>4. IsLast(cmds, Demands["ev"], evLevel, state) => state = evLevel
      BY <2>2, LastOfNone
    <2> QED  BY <2>1, <2>3, <2>4 DEF BaseInv, KnownInv, Follows, Level
  <1> QED  BY <1>1, PilotInvariant, PTL

(* Pilot, board, main loop and what is under way keep their types, and the *)
(* commands their bound.                                                   *)
THEOREM PilotTypeCorrect == Spec => []TypeOK
  <1>1. BaseInv => TypeOK
    <2> SUFFICES ASSUME TypeInv PROVE TypeOK
      BY DEF BaseInv
    <2>1. Range(cmds) \subseteq Commands /\ Range(rsps) \subseteq Answers
      BY DEF Range, TypeInv
    <2> QED  BY <2>1 DEF TypeOK, TypeInv, States
  <1> QED  BY <1>1, PilotInvariant, PTL

-----------------------------------------------------------------------------
(* The station's PWM and its operation state *)

(* What the board will put on the wire when it has obeyed all commands.    *)
LastPwm(v) == IsLast(cmds, Demands["se"], put, v)

(* Past plug a level has been notified, which ends the initialisation and  *)
(* with it the only commands that do not come from an operation state.     *)
PastInit ==
    side = "se" =>
        /\ state \in Levels => init = 4 /\ known
        /\ op \in {"stateBtimer", "slac", "communication"} => init = 4 /\ known

PwmInv ==
    side = "se" =>
        /\ ~known => put = "off"
        /\ op \in {"initialization", "stateBtimer"} => LastPwm("off")
        /\ op = "plug" /\ ~entered => LastPwm("off")
        /\ op = "slac" /\ ~entered => LastPwm("iso")

(* What a cycle of the station sends and where it goes.                    *)
LEMMA SeCalls ==
    ASSUME TypeInv, NEW take \in BOOLEAN, NEW due \in BOOLEAN, NEW matched \in BOOLEAN,
           NEW over \in BOOLEAN, SeCycle(take, due, matched, over)
    PROVE  /\ side = "se" /\ side' = side /\ known' = known /\ put' = put
           /\ state' = BegunState(take) /\ init' = BegunInit(take)
           /\ entered /\ op = "plug" =>
                  cmds' = IF known THEN Append(BegunCmds(take), "off") ELSE BegunCmds(take)
           /\ entered /\ op = "slac" =>
                  cmds' = IF known THEN Append(BegunCmds(take), "iso") ELSE BegunCmds(take)
           /\ ~(entered /\ op \in {"plug", "slac"}) => cmds' = BegunCmds(take)
           /\ op' \in {"stateBtimer", "slac", "communication"} => state' \in {"B", "C"}
           /\ op' = "initialization" => op = "initialization"
           /\ op' = "stateBtimer" => op \in {"plug", "stateBtimer"}
           /\ op' \in {"plug", "slac"} /\ ~entered' => op = op'
  <1> DEFINE p == Begun(take)
             q == SePilot(p)
  <1>1. side = "se" /\ Takes(take) /\ op' = SeOpNext(p, due, matched, over) /\ entered' = (op' # op)
    BY DEF SeCycle
  <1>2. /\ init' = q.init /\ state' = q.state /\ cmds' = q.cmds
        /\ UNCHANGED <<side, known, wrong, boardVars, wireVars>>
    BY DEF SeCycle, Leaves
  <1>3. p.init = BegunInit(take) /\ p.state = BegunState(take)
        /\ p.cmds = BegunCmds(take) /\ p \in Objects
    BY <1>1, BegunObject
  <1>4. ASSUME NEW l \in {"off", "iso"}
        PROVE  /\ SetPwm(p, l).init = p.init /\ SetPwm(p, l).state = p.state
               /\ SetPwm(p, l).cmds = IF known THEN Append(p.cmds, l) ELSE p.cmds
    BY <1>3 DEF SetPwm, Send, Objects
  <1>5. /\ op' \in {"stateBtimer", "slac", "communication"} => p.state \in {"B", "C"}
        /\ op' = "initialization" => op = "initialization"
        /\ op' = "stateBtimer" => op \in {"plug", "stateBtimer"}
    BY <1>1 DEF SeOpNext, SeLeavesInit, SeProgress, TypeInv, SeOps
  <1>6. CASE entered /\ op = "plug"
    <2>1. q = SetPwm(p, "off")
      BY <1>6 DEF SePilot
    <2> HIDE DEF p, q
    <2> QED  BY <1>1, <1>2, <1>3, <1>4, <1>5, <1>6, <2>1 DEF boardVars
  <1>7. CASE entered /\ op = "slac"
    <2>1. q = SetPwm(p, "iso")
      BY <1>7 DEF SePilot
    <2> HIDE DEF p, q
    <2> QED  BY <1>1, <1>2, <1>3, <1>4, <1>5, <1>7, <2>1 DEF boardVars
  <1>8. CASE ~(entered /\ op \in {"plug", "slac"})
    <2>1. q = p
      BY <1>8 DEF SePilot
    <2> HIDE DEF p, q
    <2> QED  BY <1>1, <1>2, <1>3, <1>5, <1>8, <2>1 DEF boardVars
  <1> QED  BY <1>6, <1>7, <1>8

LEMMA SePwm ==
    ASSUME BaseInv, PastInit, PwmInv, Se
    PROVE  PastInit' /\ PwmInv'
  <1>1. PICK take \in BOOLEAN, due \in BOOLEAN, matched \in BOOLEAN, over \in BOOLEAN :
            SeCycle(take, due, matched, over)
    BY DEF Se
  <1>2. TypeInv /\ BoardInv /\ Cycle(take)
    BY <1>1, SeCycles DEF BaseInv
  <1>3. /\ side = "se" /\ side' = side /\ known' = known /\ put' = put
        /\ state' = BegunState(take) /\ init' = BegunInit(take)
        /\ entered /\ op = "plug" =>
               cmds' = IF known THEN Append(BegunCmds(take), "off") ELSE BegunCmds(take)
        /\ entered /\ op = "slac" =>
               cmds' = IF known THEN Append(BegunCmds(take), "iso") ELSE BegunCmds(take)
        /\ ~(entered /\ op \in {"plug", "slac"}) => cmds' = BegunCmds(take)
        /\ op' \in {"stateBtimer", "slac", "communication"} => state' \in {"B", "C"}
        /\ op' = "initialization" => op = "initialization"
        /\ op' = "stateBtimer" => op \in {"plug", "stateBtimer"}
        /\ op' \in {"plug", "slac"} /\ ~entered' => op = op'
    BY <1>1, <1>2, SeCalls
  <1>4. BegunCmds(take) \in Seq(Commands) /\ {"off", "iso"} \subseteq Commands
        /\ Demands["se"] = {"off", "iso"}
    BY <1>2, <1>3, CycleCommands, CommandTypes
  <1>5. state' \in Levels => init' = 4 /\ known
    <2>1. CASE Noticed(take)
      <3>1. known /\ TakenInit(take) = 4
        BY <1>2, <2>1 DEF Noticed, TakenInit, BoardInv
      <3> QED  BY <1>3, <3>1 DEF BegunInit, Steps
    <2>2. CASE ~Noticed(take)
      <3>1. BegunState(take) = state
        BY <1>3, <2>2 DEF BegunState, TakenState
      <3>2. state \in Levels => TakenInit(take) = 4 /\ known
        BY <1>3, <2>2 DEF PastInit, TakenInit
      <3> QED  BY <1>3, <3>1, <3>2 DEF BegunInit, Steps
    <2> QED  BY <2>1, <2>2
  <1>6. PastInit'
    BY <1>3, <1>5 DEF PastInit, Levels
  (* The initialisation sends nothing past plug, and until then it sends   *)
  (* nothing that is not at rest.                                          *)
  <1>7. init = 4 => BegunCmds(take) = cmds
    BY DEF BegunCmds, Sends, Steps, TakenInit
  <1>8. LastPwm("off") => IsLast(BegunCmds(take), Demands["se"], put, "off")
    <2>1. CASE ~Sends(take)
      BY <2>1 DEF BegunCmds, LastPwm
    <2>2. CASE Sends(take)
      <3>1. BegunCmds(take) = Append(cmds, InitCommand) /\ cmds \in Seq(Commands)
            /\ InitCommand \in Commands
        BY <1>2, <2>2, CommandTypes DEF BegunCmds, TypeInv
      <3>2. InitCommand = "off" \/ InitCommand \notin Demands["se"]
        BY <1>3, <1>4, CommandTypes DEF InitCommand, TypeInv
      <3> QED  BY <1>4, <3>1, <3>2, LastOfAppend DEF LastPwm
    <2> QED  BY <2>1, <2>2
  <1>9. \A v \in {"off", "iso"} : IsLast(Append(BegunCmds(take), v), Demands["se"], put, v)
    BY <1>4, LastOfAppend
  <1>10. ~known => put' = "off" /\ cmds' = <<>> /\ LastPwm("off")'
    <2> SUFFICES ASSUME ~known PROVE put' = "off" /\ cmds' = <<>> /\ LastPwm("off")'
      OBVIOUS
    <2>1. put' = "off" /\ cmds' = <<>>
      BY <1>2, <1>3, CycleCommands DEF PwmInv, BoardInv
    <2> QED  BY <2>1, NoneInEmpty DEF LastPwm, IsLast
  <1>11. op \in {"initialization", "stateBtimer"} => LastPwm("off")'
    BY <1>3, <1>8 DEF PwmInv, LastPwm
  <1>12. op = "plug" => LastPwm("off")'
    <2>1. CASE entered /\ known
      BY <1>3, <1>9, <2>1 DEF LastPwm
    <2>2. CASE ~entered
      BY <1>3, <1>8, <2>2 DEF PwmInv, LastPwm
    <2> QED  BY <1>10, <2>1, <2>2
  <1>13. op = "slac" => LastPwm("iso")'
    <2> SUFFICES ASSUME op = "slac" PROVE LastPwm("iso")'
      OBVIOUS
    <2>1. init = 4 /\ known
      BY <1>3 DEF PastInit
    <2>2. CASE entered
      BY <1>3, <1>9, <2>1, <2>2 DEF LastPwm
    <2>3. CASE ~entered
      BY <1>3, <1>7, <2>1, <2>3 DEF PwmInv, LastPwm
    <2> QED  BY <2>2, <2>3
  <1>14. PwmInv'
    BY <1>3, <1>10, <1>11, <1>12, <1>13 DEF PwmInv
  <1> QED  BY <1>6, <1>14

LEMMA ObeysPwm ==
    ASSUME BaseInv, PastInit, PwmInv, Obeys
    PROVE  PastInit' /\ PwmInv'
  <1>1. /\ cmds # <<>> /\ cmds' = Tail(cmds)
        /\ put' = IF Head(cmds) \in Demands[side] THEN Head(cmds) ELSE put
        /\ UNCHANGED <<side, progVars, op, entered>>
    BY DEF Obeys
  <1>2. PastInit'
    BY <1>1 DEF PastInit, progVars
  <1>3. known /\ cmds \in Seq(Commands)
    BY <1>1 DEF BaseInv, BoardInv, TypeInv
  <1>4. ASSUME side = "se", NEW v, LastPwm(v)
        PROVE  LastPwm(v)'
    BY <1>1, <1>3, <1>4, LastOfTail DEF LastPwm
  <1>5. PwmInv'
    BY <1>1, <1>3, <1>4 DEF PwmInv, progVars
  <1> QED  BY <1>2, <1>5

LEMMA OtherPwm ==
    ASSUME BaseInv, PastInit, PwmInv,
           Ev \/ EvQuits \/ EvRestarts \/ SeResets \/ LearnsAddress \/ Notifies \/ Cable
           \/ OtherSide \/ UNCHANGED vars
    PROVE  PastInit' /\ PwmInv'
  <1>1. side = "ev" /\ side' = side => PastInit' /\ PwmInv'
    BY DEF PastInit, PwmInv
  <1>2. CASE Ev
    BY <1>1, <1>2 DEF Ev, EvCycle, Leaves
  <1>3. CASE EvQuits
    BY <1>1, <1>3 DEF EvQuits
  <1>4. CASE EvRestarts
    <2>1. side = "ev" /\ side' = side
      BY <1>4 DEF EvRestarts, BaseInv, TypeInv, SeOps
    <2> QED  BY <1>1, <2>1
  <1>5. CASE SeResets
    BY <1>5 DEF SeResets, PastInit, PwmInv, LastPwm, progVars, boardVars
  <1>6. CASE LearnsAddress
    BY <1>6 DEF LearnsAddress, PastInit, PwmInv, LastPwm, boardVars
  <1>7. CASE Notifies
    BY <1>7 DEF Notifies, PastInit, PwmInv, LastPwm, progVars
  <1>8. CASE Cable
    BY <1>8 DEF Cable, PastInit, PwmInv, LastPwm, progVars, boardVars
  <1>9. CASE OtherSide
    BY <1>9 DEF OtherSide, PastInit, PwmInv, LastPwm, progVars, boardVars
  <1>10. CASE UNCHANGED vars
    BY <1>10 DEF vars, PastInit, PwmInv, LastPwm, progVars, boardVars
  <1> QED  BY <1>2, <1>3, <1>4, <1>5, <1>6, <1>7, <1>8, <1>9, <1>10

(* In whatever operation state key r was pressed, the cable was pulled, or *)
(* a session or a matching came to its end: when the board has obeyed, the *)
(* PWM on the wire is the one of the operation state, 5 % in slac and none *)
(* before it.                                                              *)
THEOREM AlwaysPwmInStep == Spec => []PwmInStep
  <1> DEFINE IInv == BaseInv /\ PastInit /\ PwmInv
  <1>1. Init => IInv
    <2> SUFFICES ASSUME Init PROVE PastInit /\ PwmInv
      BY InitTypes DEF BaseInv
    <2>1. PastInit
      BY DEF Init, PastInit, Levels
    <2>2. side = "se" => put = "off" /\ cmds = <<>> /\ op = "initialization"
      BY DEF Init, AtRest
    <2>3. PwmInv
      BY <2>2, NoneInEmpty DEF PwmInv, LastPwm, IsLast
    <2> QED  BY <2>1, <2>3
  <1>2. IInv /\ [Next]_vars => IInv'
    BY NextBase, SePwm, ObeysPwm, OtherPwm DEF Next
  <1>3. IInv => PwmInStep
    BY LastOfNone, NoneInEmpty DEF PwmInv, PwmInStep, LastPwm
  <1> QED  BY <1>1, <1>2, <1>3, PTL DEF Spec

=============================================================================
