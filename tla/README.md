# Verification of the KEA publicV2G charging stack

publicV2G is a C++ stack for the communication between an electric vehicle and
a charging station: ISO 15118-2 (and an EXI codec for DIN 70121), SLAC matching
over powerline, the control pilot, and sample programs for both sides. This
directory holds TLA+ models of it, the TLC configurations that check them, and
proofs of the main results in the TLA+ proof system.

Line numbers refer to the files under `src/`; `PROJECT.json` maps every
definition that models code to its lines and lists the hazards line by line.

## 1. Inventory

| part | state it keeps | operations | correct when |
|---|---|---|---|
| `cIsoProcessEVCC` (vehicle) | protocol state, `enteredV2gState`, repeat timers, session id, transfer mode, demanded pilot state, socket contactor, measured current | `operate(run)`, `onFrameReceive`, `evaluate`, `send`, `clear` | one request outstanding at a time, only requests the station accepts; contactor closed before current is demanded and opened only without load; `enable = false` always ends the session |
| `cIsoProcessSECC` (station) | protocol state, the single `pClient`, schema, session id, transfer mode, power source, main contactor | `operate(run)`, `onFrameReceive`, `evaluate`, `send`, `clear`, `restart` | source enabled only in a session's power states and withdrawn when the vehicle is gone; ready for the next vehicle after every session |
| messages (`isoTypes`) | `stV2gMessage` and the process data structures | `clear`, `toString`, conversions | `clear` and field copies leave nothing of the message before |
| ports `cTcpClient`, `cTcpServer`, `cUdpSocket` | one frame buffer per port (`messageLen`), socket handle, thread flags | `open`, `close`, `send`, `operate`, socket threads | a frame is delivered once, in order, and never overwritten; a closed connection is noticed by both sides |
| message level programs (`LxDemoMessage`) | `enableCharging`, keys | main loop | `operate(isOperational() && enable)` restarts the machines |
| signal level programs (`LxPrjPub`) | `operationState`, `slacReady`, timers | main loop around pilot, SLAC, ISO stack | plugging and unplugging at any time leads back to a fresh matching and session |
| SLAC (`cSlacProcessEVCC/SECCPub`, `cPlcStackPub`) | matching state, RunID, sound counter, key, `lastEvaluationResult` | `operate(start)`, `evaluateMessage`, `send_...` | both sides match in the same run or both give up and can start again |
| pilot (`cCodicoPilot`) | demanded and measured PWM and state in one field, initialisation step | `operate`, `evaluateMessage`, `set...`, `get...` | the board is initialised and its PWM goes with the operation state; a measured state is not overwritten by a demanded one |
| EXI codec, V2GTP header | none | `encode`, `decode` | decode after encode is the identity on the fields used |
| `cDinSpecProcess` | an earlier copy of the station's machine | – | not part of any build (no file includes it, its header `iso15118.h` is missing) |
| power electronics, `Lab` drivers, Modbus, CAN, serial, TLS, Xml, Time | device handles | I/O | below the behaviour modelled here |

The parts of one program run in one thread, the main loop; callbacks
(`onFrameReceive`) run inside `udp.operate()` and `pClient->operate()`. Only the
sockets have threads of their own, which hand single frames and connections to
the main loop through flags. Vehicle and station interact by UDP (SDP discovery),
by one TCP connection (everything else), by the control pilot wire and by the
power lines. What is hard: two state machines of 18 and 19 states that must agree
after every loop and early exit; a user who toggles `enable` between any two
steps; lost SDP frames, refused connections, programs that are quit and started
again in the middle of a session; a pilot state that is seen late; a source and
two contactors that must switch in a safe order.

## 2. Modules

| module | models |
|---|---|
| `V2gLink` | messages, UDP frames in flight, the TCP connection's life cycle: `connecting`/`open`/`lost` on the vehicle's side, `backlog` (kernel), `queued` (accept thread), `open` (`pClient`) on the station's |
| `IsoProcessEVCC` | `cIsoProcessEVCC::operate`: one operator per state (`EvIdle`, `EvAwaitSdp`, ... in the order of the function), the common tail (`EvGoto`, `EvDepowers`), `EvCycleWith` = one pass of the main loop |
| `IsoProcessSECC` | `cIsoProcessSECC::operate`: the edge table (`Successors`, `Answers`), the two-pass loop (`SeAnswer`: edge and entry of the new state), power source, main contactor, client acceptance, the null client |
| `V2gSession` | both machines, the pilot wire, the network, the user, program restarts; the fairness; all properties |
| `MCV2gSession` | instances for TLC |
| `V2gSessionProofs`, `V2gPowerProofs`, `V2gDialogueProofs`, `V2gForeignProofs`, `TcpPortsProofs`, `SlacMatchingProofs`, `CodicoPilotProofs`, `ArithmeticProofs` | theorems |
| `PlcStack` | `cPlcStackPub`: the values both SLAC processes keep, `evaluateMessage` (`Result`, `Asked`, `Confirmed`), the frames; the packet sockets, the powerline, a neighbour's crosstalk, the modem's answers |
| `SlacProcessEVCC`, `SlacProcessSECC` | the two `operate(start)` functions: one operator per state, and the total timeout that is looked at before it |
| `V2gDialogue` | the abstract session: its phases, and in which of them the source may be on; `V2gSession` implements it |
| `V2gForeign` | either ISO machine, as it is, against a peer that is not this stack and may send what it likes, be silent or leave |
| `TcpLink` | what both ISO machines take a TCP connection for: one step per call of a port, on the variables of `V2gLink` |
| `TcpPorts` | `cLxTcpClient`, `cLxTcpServer`, `cLxConnectedClient`: main loops, receiving and accepting threads, the variables they share; implements `TcpLink` |
| `CodicoPilot` | `cCodicoPilot` with its board, the pilot wire and what the main loop of either side does with the pilot |
| `PhysicalValue`, `Timer` | operators: a float in a message (`stExiPysicalValue`), `cTimer`; theorems in `ArithmeticProofs` |
| `SlacMatching` | `mainEVCC` and `mainSECC` of the signal level programs around both processes (`evOp`, `seOp`, `slacReady`), cable, key `r`, the vehicle's restart, and an ISO session reduced to its connection |
| `MCV2gForeign`, `MCSlacMatching` | instances for TLC |

Correspondence. One step of `Ev` or `Se` is one cycle of a main loop: at most one
UDP and one TCP frame are delivered (`udp`, `tcp`), the later one overwriting the
single `receivedMessage`, then `operate()` runs to its end. `tick` says that the
running repeat timer has elapsed, `fin` that the station finds the connection
closed. Which frames have arrived and whether a timer has elapsed is chosen freely
in every cycle, so every delay is covered. The station's loop takes an edge in
its first pass and executes the new state's entry in the second; both are one
step, as nothing can come between them. `seEntered` and `evEntered` are the
`enteredV2gState` flags left for the next cycle.

Data is abstracted to what is branched on: a request is a type and one argument
(transfer mode, start/stop, current or none, schema known or not), a response
carries also its code and the session id. Currents are "zero" or "flow"
(at least `I_OFF`); voltages are reduced to whether pre-charge has reached its
target, a free choice if the vehicle measures itself (`EvMeasures`) and always
true for the simulated ADC, which returns what the station reported. Session ids
are numbers modulo `SidMod` (2^64 in the code).

In `SlacMatching` a step of `Ev` or `Se` is again one cycle of a main loop: the
packet socket hands over at most one frame (`take`), whose message type is
`lastEvaluationResult`, the SLAC process runs, then the operation state follows,
later assignments overriding earlier ones as in the source. `tick` is the short
timer of the state (repeat, pause, sounds, settle), `late` the total timeout,
`due` what the operation state waits for. A RunID is the vehicle it belongs to:
it is the modem's address and a session number, and the latter is the same in every
run of the vehicle's program (`sessionIdentNumber` is advanced by the constructor
and by the one `clear()` before the first request). `awaitSetup` of both processes
and the station's `awaitSettleTime` are not reachable and have no operator. The control
pilot is reduced to `plugged`; the modems' keys decide whether an ISO connection
is possible (`Connect`), and SLAC frames, which are not encrypted, pass regardless.

In `TcpPorts` a step is one access to a variable that a thread and a main loop share,
or one call into the kernel: `EvReceives` is `recv()`, `EvHandsOver` the assignment to
`messageLen` behind it, `EvOperates` the look of the main loop at it, `EvEvaluates` the
callback, `EvFrees` the assignment after the callback, `EvJoins` the loop in `close()`
that waits for the thread. Assignments that follow each other without a change that
another thread could see are one step: of the first three of the vehicle's thread
(`EvStarts`) only `threadEnabled = true` changes anything, and of those after a refused
connection (`EvGivesUp`) only the last is looked at. `messageLen` has the values -2, -1, 0 and 1 (a frame). The
program above the ports sends, opens and closes when it likes, except that the
station answers as many requests as it has received and that the vehicle notices with
`client.operate()` a closed port before it sends, as the main loops are ordered.

In `CodicoPilot` one of the two sides is modelled at a time (`side`), as they share
nothing but the wire. A step of `EvCycle` or `SeCycle` is one cycle of a main loop:
`Begun` is the packet socket's callback with at most one control frame and
`controlPilot.operate()`, `EvPilot` and `SePilot` are the `setState()` and `setPwm()`
calls that follow. `init`, `rcv` and `state` are `initializationState`, `receiveState`
and `value.state`. The board takes commands in order, answers each, and notifies the
level of the wire when it differs from the one notified last.

## 3. What is checked

Passing runs (`MCV2gSession`):

- `session` — vehicle and station with lost SDP frames, refused connections, a user
  who toggles `enable` and restarts the vehicle's program at any moment.
  `InStep`: the dialogue is in step: when connected, the vehicle is about to send a
  request the station accepts, or that request is the one on its way, or its
  response is, never two of these. `OneConnection`: the station's single client
  pointer never meets a second client. `SafeToDisconnect`: when the vehicle ends
  the session the source is off. `CurrentIntoClosedContactor`: in the charging
  loop current flows only into a closed contactor. `SourceConfined`: the source
  is on only in the power states, or one cycle after the connection broke there.
  `ImplementsDialogue`: every step of the two machines is a step of the abstract session
  of `V2gDialogue` or leaves it alone: the phases follow each other in the same order on
  both sides, none is entered with the source in the wrong state, and a session that breaks
  off is cleared before the next. The phase is computed from both machines' states: it
  is the vehicle's while they are connected and "broken" from its end to the station's.
  `ModesAgree`: from ChargeParameterDiscovery on both sides charge in the same
  mode. `SessionNeverFails`: a connected vehicle never ends in `failure`.
- `session_live` — without faults: `StopEndsSession` (disabling charging ends the
  session, whatever state it is in and however the switch was toggled before),
  `SessionCharges` (a session gets to its charging loop, and in the DC loop the
  current flows, however late the station sees pilot state C),
  `StationReleased` (after SessionStop the station waits for the next vehicle).
- `session_restarts` — both programs may be quit and started again, direct current
  only (AC has no source): `SafeToDisconnect`, and `PowerWithdrawn`: a vehicle that
  is gone, however it went, leaves no enabled source.

- `foreign` — one of the machines with a peer that sends any message of the protocol at any
  moment, positive or negative, of the right or a wrong session, or nothing.
  `SourceOnlyForPower`: whatever a vehicle asks for in whatever order, the source is on in
  the power states only, or in the one cycle in which they are left.
  `PilotInPowerStates`: whatever a station answers, the vehicle shows state C only in a DC
  session that wants power. `NoCurrentThroughOpenContactor`: as long as the session has not
  failed, a vehicle with a request for current under way has its contactor closed.
  `PilotWithdrawn`, `StationFreed`: when the peer leaves, the vehicle goes back to state B
  and the station to where it can serve the next vehicle.

Passing run (`TcpPorts`):

- `ports` — `BufferOwned`: no thread receives into a buffer whose frame is being
  evaluated. `ImplementsLink`: the ports implement `TcpLink`, that is, frames are evaluated
  once and in order, none is lost between thread and main loop, none is left over from an
  earlier connection, and the station never has two clients. `CloseReturns`: `close()` and the
  destructor come back. `EndNoticed`: either side learns that the other has left.
  `FrameEvaluated`: a frame gets to the program or the connection ends.

Passing run (`CodicoPilot`):

- `pilot` — key `r` is possible in every operation state, and the ISO and the SLAC process may
  come to their end in any of them. `PwmInStep`: the PWM goes with the operation state all the
  same: once the board has obeyed, 5 % are on the wire in `slac` and nothing before it.
  `PilotKnown`: demand and measurement share one field, and a
  notification may overtake the demand that outdates it; when nothing is under way the
  field holds what is on the wire. `Initialised`: the initialisation gets
  through with a board of the right kind that answers every command.
  `LevelReturns`: a vehicle that has left the power states takes state C back, also when
  a late notification has overwritten the demand. `PwmWithdrawn`: without a vehicle the
  station's PWM is switched off.

Passing runs (`MCSlacMatching`):

- `slac` — lost frames, timeouts, modems that refuse a key, a cable that is pulled
  and key `r` at any moment, a vehicle's program that is quit (key `q`) and started again
  at any moment, also in the middle of the matching; different keys in the two builds. `KeyAgreed`: a
  vehicle that takes itself for matched has the station's key, unless its modem
  refused it. `MacKnown`: the station knows the vehicle's address whenever it goes
  to communication. `SessionUndisturbed`: while a session's connection stands neither side
  is in a matching, from which it would go on to change its key. `ReadyAgain`: without a
  cable the station gets ready for the next vehicle, wherever in the process it was.
- `slac_crosstalk` — a neighbouring vehicle's requests, sounds and responses are heard
  at any moment, and the program may be back before the station has read what it had sent:
  `KeyAgreed`, and `OrdersAnswered`: the answer of a modem that ends `awaitSetKey` is the
  one to the key of the match, and none to another order is still to come.
- `slac_live` — without faults: `MatchingInStep` (no frame but a repeated request is
  taken in a state that does not wait for it), `Served` (every vehicle that is started
  while plugged in gets its session, the first time and after every session).

Runs that find a disagreement between the documentation and the code:

- `session_first` — `README.md:153` says the station need not be started first. An
  SDP request that waits in the socket when the station's loop starts is
  acknowledged on a null `pClient` (`cIsoProcessSECC.cpp:100-103`).
- `session_stuck` — `README.md:219` says to restart the vehicle's program for a
  further charging process. Quit after the SDP response and before the first TCP
  request, it leaves a station in `answeredSdp` that answers no SDP request again.
- `session_ac` — `README.md:25` says the stack is suitable for AC charging. No
  state of an AC session requests pilot state C, on which the station's
  main contactor depends: the session runs and power never comes.

Observed with TLC while the models were written, and not kept as runs:

- The vehicle opens its contactor under load: `I_OFF` is the "maximum current to open the
  charging inlet contactor" (`cIsoProcessEVCC.cpp:3`), but the vehicle decides on the current
  reported last, which lags the set-point by one exchange (804).
- The status message of the station carries a zero address of the vehicle's modem during a
  session (`mainSECC.cpp:197`; `IsoStackCtrlProtocol.h:159` promises the one it is using):
  the SLAC process has zeroed the values when communication starts.
- With equipment whose key is not the vehicle's built-in one, the vehicle leaves the network
  it has just matched: SLAC `Idle`, entered when communication starts, restores the built-in
  key (`cSlacProcessEVCCPub.cpp:79`).
- With `SlowStart` both main loops of `TcpPorts` can get stuck: a receiving thread begins with
  `threadEnabled = true` (`cLxTcpClient.cpp:475`, `cLxTcpServer.cpp:359`); if it gets its first
  time slice only after `close()` or the destructor has cleared the flag, the join never
  returns. The run leaves this scheduling out, as cycles of 10 ms make it rare.
- Key `r` during the initialisation (`mainSECC.cpp:287` accepts it in every state): the answer
  to the PWM command of `plug` stands in for the one the initialisation waits for, and a board
  of the wrong kind is started although it has refused its mode.
- Key `r` in the middle of a matching: when the matching ends the station goes from `plug` or
  `stateBtimer` to `communication` with the PWM off (`mainSECC.cpp:149-155`), as only the
  entry to `slac` switches it on.
- A vehicle whose program is quit in the middle of a matching and started again is not
  served: the station waits in the middle of the process, where a new CM_SLAC_PARAM.REQ is not
  answered, gives up after its timeout and goes to `communication` (`mainSECC.cpp:149-155`)
  until the cable is pulled or `r` is pressed (`Served` does not hold with `Quits`).
- A vehicle's program that is quit behind its CM_SLAC_MATCH.REQ and started again at once
  finds a station that confirms the match of the last run: the station sets its key for a
  vehicle that has not asked for it since.
- `getDemand()` "retrieves the last set desired state" (`cCodicoPilot.cpp:367`): a notification
  overwrites it.
- `enable` (`isoTypes.h:327`) does not end a session with a station that never gets ready or
  is silent: the loops of Authorization, CableCheck and PreCharge do not look at it and no
  exchange has a timeout (`StopEndsSession` does not hold in `V2gForeign`).
- A foreign vehicle that changes from DC to AC in the middle of a session makes the main
  contactor and the DC source overlap for one cycle; one that changes from AC to DC leaves the
  main contactor closed (`cIsoProcessSECC.cpp:707-717` switches it in AC mode only).
- The vehicle whose station refuses CurrentDemand opens its contactor in `failure` with that
  request still in the air, and one whose station dies while it reports a current keeps
  its contactor closed (it opens below `I_OFF` of the last report only).

Bounds. `UdpCap` (SDP frames in flight per direction) is 2 where frames may be lost
or a restarted vehicle finds old ones, 1 elsewhere: the machines consume one per
cycle and the count only matters as none, one, more. `SidMod` is 3 (2 for
`session_restarts`): enough for the id of this, the last and an unused session. One
TCP connection exists at a time (`ConnectSucceeds` waits until the station has noticed
the end of the last), so a second simultaneous client is not covered. The modes
are one AC mode and `DC_core` against a station that offers `AC_three_phase` and
`DC_extended`, so that the vehicle adopts another mode than its own.
TCP queues need no bound: `InStep` shows they hold one frame.

For SLAC, `NumSounds` is 1 with all faults, 2 with crosstalk and 3 without (10 in the
code): only "all counted", "fewer" and "one more" are told apart. `ReqCap` bounds
repeated requests in a socket, `MaxWaiting` the frames that may wait while a host
takes none: cycles last 10 ms and answers of the modem less, so frames do not pile
up. With `MaxWaiting` 0 (`slac_crosstalk`) a cycle takes a frame that has arrived, as the
code does; frames still queue up behind the one a cycle takes. With `Quits` the vehicle's
program may be quit and started again at any moment. Without `Prompt` it is back only when
the station has read its frames: a start takes longer than the few cycles of 10 ms that
needs. `slac_crosstalk` does without this assumption. One frame of a neighbour waits at a time. Timeouts may come at any moment while
a frame is awaited when `Timeouts` holds; without it (`slac_live`) the 1.5, 10 and 60
seconds never pass in a matching in which nothing is lost.

In `foreign` `MaxForeign` is 1: the peer has one frame under way, as the machines take one
frame per cycle and answer before they take the next; what it sends after it may still be
anything. In `ports` there are two different frames and up to three under way or unanswered,
one in each buffer on the way and one more; one connection after the other without limit.
In `pilot` `MaxCommands` is 3, `Start`, a demand and the one that withdraws it; `MaxWaiting`
is 2, two notifications that wait for a slow loop. The program of `pilot` is
restarted only after the board has taken what it was told: a restart takes longer than a frame.

Fairness (`FairSpec`). Both programs are endless loops, so their cycles are fair;
`EvEager`/`SeEager` say that sooner or later a cycle finds what has arrived and
its elapsed timer, as the sockets and the clock do not wait for the loop. The station's
loop is strongly fair, because the vehicle's user could otherwise disable the
eager cycle for ever by restarting at the right moments. The socket threads and the
pilot hardware are weakly fair. No fairness is assumed of the user, of losses and
of restarts. In `SlacMatching` likewise: cycles that find what has arrived and elapsed
timers, cycles that find the total timeout elapsed (`EvLate`, `SeLate`), and the
connection of two programs in the same network are weakly fair; the driver, the cable
and the powerline are not, nor is the end of a session.

In `foreign` the cycles of the modelled program are fair, the peer is not. In `ports` every
thread is scheduled, the main loops call `operate()` in every cycle (mainEVCC.cpp:48-49) and
`connect()` comes to a result. In `pilot` the loops take what has arrived, SLAC learns the
modem's address, the board obeys, and its notification of a level that keeps differing is
strongly fair, as the wire may change and change back before it; no session, timer, key or
cable has to do anything.

## 4. What is proved

The theorems about `V2gSession` hold for every choice of modes, bounds and faults, with
`~SeQuits` (the station's program is not quit and restarted) and, for the last one,
`CompatibleModes` (the station offers each mode the vehicle may be configured for).
The argument has three layers, each an inductive invariant on top of the last:

1. `SessionInv` (`V2gSessionProofs`) = `OneConnection`, `InStep`, and what they need:
   `SdpFollowed` (at most one SDP response, a connecting socket only in `awaitSdp`),
   `FreshConnection` (a connection not yet used is known to a station in
   `answeredSdp`) and `IsoOffered`. `InStep` alone is not inductive: the first request
   is accepted only because the new connection finds the station in `answeredSdp`.
   Theorems `TypeCorrect`, `SessionInvariant`, `AlwaysInStep`, `AlwaysOneConnection`.
2. `PowerInv` (`V2gPowerProofs`): `SourceConfined` and `SafeToDisconnect` need that
   a request on its way while the source is on keeps the station in its power states
   or switches the source off (`PowerRequested`), that the vehicle's state is one
   of a DC session (`EvPowered`), and that nothing is sent after SessionStop.
   `ContactorFirst` carries the order "contactor, then current". Theorems
   `PowerInvariant`, `AlwaysSourceConfined`, `AlwaysSafeToDisconnect`,
   `AlwaysIntoClosedContactor`.
3. `IdentityInv` (also in `V2gPowerProofs`): every response on its way is positive and of
   the vehicle's session, every ChargeParameterDiscovery request carries the
   vehicle's mode. Theorems `IdentityInvariant`, `AlwaysModesAgree`,
   `SessionsNeverFail`.

On these rests the refinement (`V2gDialogueProofs`): `DialogueImplemented` proves
`Spec => ImplementsDialogue`, for any modes and faults with `~SeQuits`. Each operator of the
vehicle's machine is shown to be one step of `V2gDialogue` or none (`EvDialogue`); those of the
station do nothing but switch the source on (`SeSwitchesOn`, `SeDialogue`); the network and the
user part the two or do nothing. The invariants are what a step of the abstract session needs
beyond its own guard: that an open connection belongs to a session and not to the backlog of
the next (`ConnectionUsed`), and that the source is off whenever the two meet, conclude, part
or clear (`SourceConfined`, `SafeToDisconnect`). The mapping `PhaseBar` is a definition by
cases over both machines; `PhaseRead` and `SupplyRead` state each case once.

The control pilot (`CodicoPilotProofs`), for either side and any bounds:

- `BaseInv` is inductive. `BoardInv`: a board whose address is not known has been told nothing,
  and one that is not started or is to be stopped has no program that relies on it. `KnownInv`:
  what the program will hold when it has read all that is under way is the level notified last,
  or, on the vehicle's side, the last demand the board has yet to put on the wire (`Follows`).
  Theorems `PilotInvariant`, `PilotTypeCorrect`, `AlwaysPilotKnown`.
- `PwmInv`: behind the entry to `plug` and `slac` the last PWM under way, or the one on the wire
  if none is, is that of the operation state (`LastPwm`); `PastInit` keeps the initialisation,
  whose own command for the wire at rest comes before, out of the later states. Theorem
  `AlwaysPwmInStep`.

Operators (`ArithmeticProofs`), without a state machine:

- `PhysicalValue`: `fromFloat` computes an exponent for values that do not fit 16 bits but
  scales by its parameter (`isoTypes.cpp:485-487`). `SmallValuesKept`: below 2^15 a whole
  number survives; `LargeValuesLost`: from 2^15 on none does, as 10^e - 1 is odd and the
  conversion to `int16_t` changes the value by a multiple of 2^16; `LargeValuesNegative`,
  `VoltagesKept`. The battery capacity of ChargeParameterDiscoveryReq (Wh) is such a value.
- `Timer`: `FiresWhenDue`, `StoppedSilent`, and `FiresWhenSetBack`: the timers run on the system
  clock, and a running timer fires at once when it is set back.

The TCP ports (`TcpPortsProofs`), for any frames, any `MaxFrames` and either `SlowStart`:

- `PortsInv` is inductive. `EvInv` and `SeInv` say whose turn the buffer is: `messageLen` is 1
  only while the thread waits, or, once `close()` has cleared `threadEnabled`, while it leaves;
  a main loop that evaluates a frame has one, whose thread therefore waits. `QuietInv` covers
  the one call back that frees a buffer without looking: the -2 of an earlier `close()` may be
  told when the new connection is already open, but then nothing has been sent on it.
  `Pending` counts what is queued, held and unanswered. Theorems `PortsInvariant`,
  `TypeCorrect`, `BufferAlwaysOwned`.
- `PortsImplementLink`: every step of the ports is a step of `TcpLink` or leaves `LinkState`
  as it is. `UnseenSteps` is the heart of it: a thread that receives a frame and hands it over
  moves it from the kernel's queue to the buffer, where it counts as the queue's head.

The foreign peers (`V2gForeignProofs`), for any modes and faults and any `MaxForeign`:

- `ForeignInv` is inductive and assumes nothing of the peer but the types of its messages.
  `SourceOnlyForPower` is inductive by itself. `PilotInv` adds that only a DC session gets to the
  states of direct current. `CurrentInv` follows the frames: a request for current that the
  station has not read is left behind when the vehicle goes on to PowerDelivery, so the contactor
  is safe only because an answer to PowerDelivery is then a later frame than the last answer to
  CurrentDemand (`AnswersInOrder`), and the station had read what was there before it answered.
  Theorems `ForeignInvariant`, `AnyVehicleSource`, `AnyStationPilot`, `AnyStationContactor`.

SLAC (`SlacMatchingProofs`), for any keys, number of sounds, other vehicles and waiting frames,
with losses, timeouts, a pulled cable, a modem that refuses and a vehicle's program that is quit:

- `SlacInv` is inductive without any assumption. `EvPlaceInv`, `SePlaceInv`: which SLAC states
  go with which operation state and with a session, wherever the program was quit. Theorems
  `SlacInvariant`, `SlacTypeCorrect`, `AddressKnown`, `AlwaysSessionUndisturbed`.
- `NetInv` is inductive on top of it under `~(Quits /\ Prompt)`: a program that is quit in the
  middle of a matching is not back before the station has read its frames. `MatchInv`: each run
  of the program sends one CM_SLAC_MATCH.REQ; either it or its confirmation is under way, and
  only while the vehicle waits for it or after it has failed for good, so that a program that is
  started again finds neither. `KeyInv`: the modem's answer to the built-in key is ahead of the
  match confirmation in the queue, so that in `awaitSetKey` the answer is the one to the
  station's key. Theorems `MatchInvariant`, `MatchedInNetwork`. With a prompt restart `MatchInv`
  is false and `KeyAgreed` stays with TLC (`slac_crosstalk`).
- Without faults (`NoFaults`: no loss, no timeout, no other vehicle, a cable that is not pulled,
  no key `r` and no key `q` but after a session, as in `slac_live`; the modems may still refuse keys) `StepInv` is inductive
  relative to `SlacInv`. The two are `Apart` (not answered yet, or a session is over and the
  station may not know), `Joined` in one run of the process, or `Together` after the
  confirmation. The vehicle's frames from CM_START_ATTEN_CHAR.IND on are a `Script`; while they
  are joined the station's socket holds at most repeated requests and then exactly the script
  from `Got + 1` to `Sent` (`Follow`), so that the station counts as many sounds as are sent,
  and the other direction holds at most one reply (`OneReply`) next to what the modem confirms.
  An end of session takes a plugged pair from `Together` back to `Apart`, which is why the
  argument covers every further session. Theorems `ProcessInStep`, `AlwaysMatchingInStep`.
- The frames that are overheard need no assumption but that they do not carry the vehicle's
  address; that CM_SLAC_MATCH.CNF is not checked for its RunID does no harm by this argument.

Only model-checked: the liveness properties, which are out of the prover's reach;
`SafeToDisconnect` when the station restarts (the proofs assume `~SeQuits`); `KeyAgreed` after a
prompt restart; `OrdersAnswered`, whose vehicle's half is part of `KeyInv`.

## 5. Not modelled

The proprietary V2s message and TLS (off by default); the contents of EXI documents, whose
codec is generated (openV2G) and field copies around it; voltages, power limits, energy
counters; what `toString` and the logs print; the UDP socket's thread; a second vehicle at the
same station; answers and notifications that get lost between program and pilot board;
attenuation values, link status, network info and peer ping of SLAC, which no process waits
for; a station whose program is quit on signal level, before, during or after SLAC; `cDinSpecProcess`, which no build
contains; device drivers, Modbus, CAN, serial, Xml, Time. The Windows sources repeat the
Linux ones on another socket API.

## 6. Plan

Done, in this order: the link, the two ISO machines, their composition and its theorems,
SLAC with the operation states of the signal level programs, the abstract session, the TCP
ports and their theorems, the foreign peers, the control pilot, physical values and timers,
the theorems about SLAC and about the foreign peers, the refinement of the abstract session and
the control pilot. Next:

1. Theorems about the safety parts of the liveness properties.
2. `SignalLevel`: `SlacMatching` with the pilot of `CodicoPilot` instead of `plugged`; a failed
   matching on either side; the station's program quit on signal level.
3. The UDP port's thread with its inverted acknowledge; TLS hand-shake; two clients.
4. V2GTP framing and payload dispatch; pre-charge with voltages.
5. Proofs with `SeQuits`.

Runs: one for each question above, small enough for TLC to finish in a few minutes; a new
question is added to a run there is, or replaces one.
