# Verification of the switching-charge system

TLA+ models of the controller in this repository: a Raspberry Pi server that makes an
RP2040 switch an H-bridge of four FETs, so that a battery cell is pulsed by a cycler; a
terminal client that controls it and collects its recordings; and a laptop dashboard
that looks after a fleet of such Pis.  TLC checks the models on small instances; TLAPS
proves for every instance the main results about both firmwares, the serial link, the mode
control, the recorder, the dashboard, the detector, the knob, the boot and button flips, and
the client's connection, panel, recordings and search.

Paths are relative to the repository (`src/...` below is the repository root).
`PROJECT.json` maps each definition to the lines it stands for.

## 1. The system

```
 terminal client --TCP--> CommandServer --> ModeController --> SequenceEngine --> GPIODriver --USB--> RP2040
  PiClient, panel,        1 thread per       |       ^                             |  ^ reader         main loop
  DataLogger, dialogs     connection,        v       | set_mode                    |  | thread         + timer ISR
     |   |                broadcast loop   AutoFollow+ (own thread)                v  |
     |   +--ssh, scp-->   files on the Pi <--- writer thread <--------------- PiRecorder
     |                    rotary knob (main thread), power button, boot service --> NetworkManager
     +-- discovery, Wi-Fi joins
 fleet web app --HTTP--> store <-- APCycler --Wi-Fi join, TCP--> CommandServer of each Pi
```

| component | state it keeps | operations | what is hard | what makes it correct |
|---|---|---|---|---|
| **RP2040 switching core** `firmware-c/src/switching.c`, `cmd_parser.c` | pins, cycle buffer, length, index, period, timer armed, running | S Y C E F G H K X, `tick_isr` | the timer interrupt preempts every handler and shares the index, the buffer and the pins | halted means dark, a direct state stays, the index stays in the cycle, handlers look atomic to the host |
| **Streaming front end** `streaming.c`, `ina226.c`, `usb_cdc.c` | emit counter, schedule, burst buffers, corrections | emit D line, set rate, burst, profile, W | a long command blocks the input; lines are dropped when USB is full | the counter tells lost lines from a restart; a correction is applied to what is measured |
| **MicroPython firmware** `firmware/main.py` | as above, in one script | S C F G H K X, T A V Z N R B BD | the timer callback runs between any two bytecodes; the ALERT line is shared by all chips | no mixed state outlives switching; the stream neither repeats a row nor stops |
| **ModeController** `server/mode_controller.py` | mode, debug step, lock | `set_mode`, `set_fet`, `debug_step`, auto-follow calls | holds its lock over several serial commands and a dead time; called by every connection and by auto-follow | reported mode = what the bridge does; interlock; seamless charge/discharge |
| **SequenceEngine** `server/sequence_engine.py` | paused, pulse mode, sequence, period, pending change, flush timer, anchor of the step estimate | `pause`, `pause_silent`, `resume`, `set_*`, `_flush` | debounced flush in a `Timer` thread; locked decision, unlocked sending | what runs is what is set; step labels agree with the firmware |
| **AutoFollow** `server/auto_follow.py` | enabled, active, target, hold-off | `set_enabled`, `set_target_mode`, `_tick` | decides under its lock, changes the mode after it | low current ends in pass-through |
| **GPIODriver** `server/gpio_driver.py` | serial lock, response queue, cached FETs, latest sensors | `_send`, reader loop, callback per frame | time-outs, stray replies, the reader runs callbacks that take other locks | a caller gets its own reply or none; no deadlock |
| **PiRecorder** `server/recorder.py` | active, path, queue, gate, counters, writer | `start`, `stop`, `record`, writer loop | starts, stops, limits and late frames race; join may time out | a file holds exactly the accepted frames of its session; the writer ends |
| **CommandServer** `server/command_server.py` | connections, subscriptions | dispatch, sensor callback, broadcast loop | two threads write one socket and change its time-out | whoever is connected and subscribed is fed; dead subscribers go |
| **CyclerDetector, Schedule, ScheduleMonitor** `server/cycler_detector.py`, `schedule*.py` | verdict with its debounce; plan, start time | `update`; load, restart, stop, poll | noise and feedback of the verdict; boundaries of the steps | no change without evidence; the plan is on time |
| **Server process** `server/__main__.py` | the knob's bases and modes | poll, press, release, long press | callbacks on other threads wait for the mode lock halfway through | the frequency follows the dial |
| **Network mode, AP fallback, power button** `server/network_mode.py`, `ap_fallback.py`, `power_button.py` | the active profile, the LED | `set_mode`, double press, boot check | nothing keeps two flips apart | the LED ends as it was |
| **PiClient** `tui/client.py`, `tui/app.py` | state, stop event, socket, subscription, send queue, last values | connect, reconnect, retry, receive, request, send | threads without a lock among them; several ways to connect; a queue that outlives the connection | who comes to rest connected is fed; commands in order, to their Pi; the panel ends up true |
| **DataLogger, offload** `tui/data_logger.py`, `tui/app.py` | tier, writer queues, files on both sides | start, row, stop on an executor, offload | the stop runs beside the stream of rows; copies fail half-way; other clients record too | nothing is deleted that is not whole here; no accepted row is lost |
| **Discovery and Wi-Fi joins** `tui/discovery.py`, `wifi_scan.py`, `widgets/pi_picker.py` | cache, dialogs, searches, joins | probe chain, scan, associate, confirm | every access point has one address; results arrive after newer ones | a search misses no server |
| **Calibration wizard** `tui/widgets/calibration_screen.py` | step, samples, means | open, capture, back, confirm, reset | a live stream, the user, faults | what is saved corrects both channels |
| **Fleet** `fleet/*.py` | command list, status and state of each Pi, `_polled_once`, repoll event | web calls; scan, join, poll, send, verify | every Pi has the same address; Pis come and go; replies get lost | no command twice or out of order; a confirmation is deserved; refreshes are honoured |
| Legacy controller, measurement tools, board design | - | - | superseded, off-line, or no run-time behaviour | - |

`PROJECT.json` lists the hazards line by line, with the properties that cover each or the
reason why none does.

## 2. Modules

| module | models | abstraction |
|---|---|---|
| `SwitchOps` | the firmware core, each command and each interrupt as one operation on a record | the specification that `SwitchIsr` and `MicroSwitch` are measured against, and the far end of `ModeCore` |
| `SwitchIsr` | the same core, one action per machine-level step of a handler, `tick_isr` between any two | a state of the bridge is the set of FETs that conduct |
| `MicroSwitch` | the switching half of the MicroPython firmware: pins written one by one, the timer callback between any two writes, ctrl-C | the same; a command is a list of steps that are still to do |
| `MicroStream` | its sensor half: D rows behind the rate gate and the ALERT gate with their watchdog, bursts, profile, T A V Z N R B BD | a chip has or has not a new conversion; time is not due, due, or past the watchdog |
| `BridgeConfig` | `STATE_DEFS`, `SEQUENCES`, modes of `config.py` | |
| `ModeCore` | ModeController, SequenceEngine, AutoFollow, their driver calls and the atomic firmware (EXTENDS `BridgeConfig`, which EXTENDS `SwitchOps`) | the averaged current is one of three levels against the thresholds; a step time is a number; a command has taken effect when its action is over |
| `Recorder` | PiRecorder, the reader thread's callback, the writer threads, the emit counter | a row is the frame it was made from; a path is its session |
| `SerialLink` | `_send`, reader thread, response queue, callback, the locks they take, a firmware that answers in order | a command is its verb; time is what may stall |
| `CycleWatch` | CyclerDetector, Schedule, ScheduleMonitor | a snapshot is its level, the number of signs of constant voltage and whether the current rises; durations are whole units |
| `PiNetwork` | the flips at boot, for a client and for a double press, over one radio and one LED | NetworkManager is the profile that is active |
| `Knob` | RotaryController and the main loop that polls it, with the callbacks of the button | tenths of a hertz; the engine is its frequency and sequence |
| `TuiLink` | the connection: the threads of PiClient and the flows that start them; accept, client and broadcast threads of the server | of the stream only that a line is there; one host per network |
| `Panel` | key handlers, send queue and send thread, the server's handlers, state frames | small numbers for the settings; the connection is up, closed or being made |
| `LogTransfer` | DataLogger with two tiers and its writers, the stop on an executor thread, the offload | a file is the number of its rows; ssh and scp work or fail |
| `PiFinder` | search chain, cache, Wi-Fi joins, the two dialogs, the application that acts on their results | a connection is the Pi it reaches |
| `Calibration` | the wizard, the W commands, the corrections in the firmware | currents, gains and offsets modulo a small prime, where sums, products and quotients are exact |
| `Fleet` | store, cycler, web calls, Pis and the air between them | the state of a Pi is the commands it executed |
| `CommandDelivery` | what the dashboard promises: a command is taken up once, carried out at most once, then confirmed or failed for good | the abstract specification `Fleet` implements |
| `Parts` | `Fleet` (EXTENDS) and seven parts as instances, side by side | section 3; theorems and runs name the same properties |
| `Client` | `SwitchIsr` (EXTENDS), `TuiLink` and `Panel` side by side: the two ends of the system | section 3 |
| `Service` | `SerialLink` (EXTENDS), `MicroStream`, `ModeCore` and `Fleet` side by side: the two sides of the USB cable, the mode control and the dashboard | section 3; it takes the last two as instances of their proof modules, so that their theorems come along |
| `ClientProofs`, `ModeProofs`, `ModeBridgeProofs`, `RecorderProofs`, `ServiceProofs`, `FleetProofs`, `PartsProofs`, `DataProofs` | proofs | section 5 |
| `MCModeCore`, `MCRecorder`, `MCSerialLink`, `MCFleet` | instances of one module for TLC | |
| `MCParts`, `MCClient`, `MCService` | small instances of `Parts`, of `Client`, and of `Service`; `MCClient` and `MCService` add the fairness under which liveness is checked | section 3 |

### How the models correspond to the code

*Grain.*  In the C firmware an action is what the interrupt cannot split: a `gpio_put`, a
section between `save_and_disable_interrupts` and `restore_interrupts`, or a run of writes
made while no timer is armed.  In the MicroPython firmware it is one pin write, one
assignment, or one access to a chip.  In the Python server an action is one section
under a lock, or one serial command, or one unlocked read that is used later.  The
ModeController's lock is held from `Acquire` to `Commit` and so is a variable; so are the
locks of `SerialLink`.  In the client, whose threads share their fields without a lock, a
step runs from one blocking call (socket, wait, executor, `call_from_thread`) to the next.

*SwitchIsr.*  `pc` names the place in the handler of `op`.  `cmd_C` is `CancelTimer`,
`ClearRunning`, `PinsOff`, `SwapCycle`; `cmd_E` is `SwapCycle` only; `cmd_G` and a
re-arming `cmd_F` are `BeginStart`, four `DrivePin`, `Disarm`, `Arm`, `FlagRunning`;
`cmd_K` is `ReadIndex`, `StoreIndex`, four `DrivePin`.  `Arm` may fail, as
`add_repeating_timer_us` may.  `spec` and `view` are history variables: `spec` is the
`SwitchOps` record to which each command is applied at its commit step and each
interrupt as it fires; `view` is `exact`, `cycle` (the pins may differ: F, G or Y came in
under an armed timer) or `lost` (K under an armed timer, or a failed alarm).  C and X
take it back to `exact`; H and S take `cycle` back to `exact`.

*MicroSwitch, MicroStream.*  `todo` is the rest of the command or sweep under way, the
first element is the next step; `TimerTick` and `Convert` come in between.  `ops` in
`MicroSwitch` is a history variable, the `SwitchOps` record with every command atomic.  In
`MicroStream` a chip pulls ALERT low until its register is read, and only a falling edge
of the line sets `ready`; `newer` is a history variable.  A Z command is at `profile` until it
has emitted its `rows`, each like any other row, and looks at no input meanwhile.

*ModeCore.*  `Acquire` is the head of `_set_mode_internal`, which chooses between the
seamless and the interlocked path; `ProgramAllOn`, `AllOnNoHalt`, `PauseSilent` are the
seamless path into DISCHARGE; `Pause`, `StopSwitching`, `AllOffDeadTime`, `AllOnDirect`,
`SetPulseMode`, `Resume` the others; `Commit` stores the mode and releases the lock.
`ReadCycle`, `ProgramSequence` or `ProgramSequenceLive`, `SetStepPeriod`,
`StartSwitching`, `Anchor` are `_program_and_go`, for a mode change and for a flush.
`dark`, `rewound` and `raced` are history variables; `raced`: a flush was sending while
a mode change or another flush could send.

*Recorder.*  `StartCall` is the unlocked look at `_active`, `StopSection` the locked part
of `stop` (called by `StopCall` or, within `start`, `StopInStart`), `Join` the join with
its 5-second time-out, `Setup` the locked part of `start`.  `SensorTick`,
`RecordInactive`, `RecordWaits`, `Record` are the callback and `record`; `OpenFile`,
`TakeItem` the writer.  `offered` and `accepted` are history variables.

*SerialLink.*  `BeginCall` to `Commit` is a mode change; `Send`, `Respond`, `GiveUp` are
`_send`, which holds the serial lock from the drain to the reply or time-out.
`ReadLine` and `RecordFrame` are the reader thread.  A reply may be late only if the
reader is held up at the mode lock or the firmware is busy with a profile run.

*CycleWatch.*  `Feed` is one snapshot through classification, debounce and the CV flag;
`Load`, `Restart`, `Stop` and `Clock` move the plan, `Plan` is what the monitor derives
from the elapsed time, `Publish` what it hands on.  `recent` is a history variable.

*PiNetwork.*  A worker is a thread or process that runs `set_mode`; a double press puts a
blink before it (`BlinkBegins`, `BlinkEnds`).  `mixed` is a history variable.  *Knob.*
`Poll` is one pass of the main loop; a press, a release and a long press are the
callbacks, the last in two steps (`HoldBegins`, `HoldEnds`) around the mode lock.

*TuiLink.*  A thread is of a kind (`worker`, `orphan`, `auto`, `retry`, `recv`) and at a
label: `BeginConnect`, `Connected`, `ConnectFails` are `connect`; `Request`, `Reply`,
`NoReply` the profile request and the subscription after it; `RecvLoop`, `RecvLine`,
`RecvFails` the receiving thread; `LostAgain`, `Cancelled` the retry loops.  `Dispatch`,
`ClientGone` and `Broadcast` are the server's side: the broadcast loop sets its short
time-out on the socket it shares with the client thread.

*Panel.*  `KeyMode` to `KeyCc` are the key handlers; `Put` and `EnsureThread` are
`send_async`, `Look`, `Take`, `Transmit`, `GiveUp`, `Leave` are `_send_drain`; `Set` is what the
server does with a command, `Broadcast` and `ApplyState` the frame on its way back.
`carried` is a history variable.

*LogTransfer.*  `AskStop`, `StopBegins`, `StopJoins`, `StopTells`, `StopLists`,
`StopCopies`, `StopRemoves`, `StopEnds` are the worker of a stop, `Row` and `PutRow` the
two halves of a row, `OffloadLists` to `OffloadDeletes` the offload.  `careless` and
`overlaps` are history.  *PiFinder.*  `Candidates` gives the addresses of a step of the
chain, `ProbeHits` and `ProbeMisses` the probes; `AppHears` and `DialogHears` deliver a
result to whom it concerns; `Associate`, `GatewayAnswers`, `JoinEnds` are a join.
*Calibration.*  `OnSample` collects, `Confirm` computes, `SetCalibration` carries out one W.

*Fleet.*  The cycler's `pc` walks `scan`, `list`, `next`, `join`, `poll`, `capture`,
`drain`, `send`, `verify`, `wait`, which are the lines of `_cycle_loop` and `_visit_pi`.
`Move` and `Roam` are external.  `owed` and `roamed` are history variables.
`DeliversAtMostOnce` instantiates `CommandDelivery` with `fate` and `done` computed
from the command list and from what the Pis executed.

## 3. What TLC checks

| run | instance | distinct states, time | shows |
|---|---|---|---|
| `modes` | `ModeCore`: two clients, one flush timer, modes IDLE, CHARGE, PULSE_CHARGE, DEBUG by pick and DISCHARGE by enabling auto-follow, all other calls; the current stays low | 1.94 million, 2 min | `ModeMatchesBridge`, `CacheIsTruth`, `InterlockUnlessSeamless`, `NeverOpensCircuit`, `LabelIsStep` |
| `record` | `Recorder`: two clients, two sessions, three frames, one rate change, counter modulo 3, disks that fail, joins that time out | 2.64 million, 2 min | `FileIsRecording`, `SentinelIsLast`, `RecordingIsContiguous`, `GapIffLost`, `WriterIsToldToEnd` |
| `parts` | eight parts side by side, below | 1.48 million, 2 to 3 min | what can never go wrong in each |
| `client` | `SwitchIsr`, `TuiLink` and `Panel` side by side | 442,000, 100 s | `DarkAfterHalt`, `Linearized`, `CycleLinearized`, `RestIsFed`, `OrderIsKept`, and `DeadSubscribersGo`, `ShownIsTrue` (liveness) |
| `service` | `MicroStream`, `SerialLink`, `ModeCore`, `Fleet` side by side | 253,000, 1 min | `RowIsFresh`, `StrayRepliesAreLate`, and `StreamGoesOn`, `CallsEnd`, `LowCurrentIsTransparent`, `CommandsAreSent` (liveness) |
| `flush_race`, `target`, `late_reply`, `repoll`, `flip`, `offload`, `stale_command` | the smallest that show it | | the seven findings of section 4 |

The three runs of *parts side by side* have a variable `part` that says which part moves;
the others keep their one initial state (`Resting`).  The parts share no variable, so a
behaviour of the run is a behaviour of one part, and the number of states is the sum, not
the product.  Where components interact the interaction is inside one module: client and
server in `TuiLink` and `Panel`, auto-follow, engine, mode control and firmware in
`ModeCore`, detector, schedule and monitor in `CycleWatch`, web calls, cycler and Pis in
`Fleet`.  Fairness is collected the same way: `FairAction(n)` is the n-th fair action of
the part that moves.

| part | instance | property |
|---|---|---|
| `parts`/micro | `MicroSwitch`: cycles of length 1 and 2, direct states off and crossed | `HaltedIsWhole` |
| `parts`/cycle | `CycleWatch`: debounce 3, clock to 10, two good schedules (one of three steps twice) and four bad ones, all snapshots the thresholds tell apart | `PlanIsOnTime`, `ChangesOnEvidence` |
| `parts`/net | `PiNetwork`: three workers, three flips, five presses, one fault | `LedIsRestored` |
| `parts`/knob | `Knob`: one turn either way, two presses, three sequences | `FrequencyFollowsDial` |
| `parts`/log | `LogTransfer`: two files, two laptop sessions, two rows, two asks, two faults | `RemovedIsWhole`, `SessionIsKept` |
| `parts`/cal | `Calibration`: five values, two samples, two runs, one fault | `SavedIsTrue` |
| `parts`/find | `PiFinder`: one Pi, one search, one join, one dialog, one fault | `NothingMissed` |
| `parts`/fleet | `Fleet`: two Pis, two commands, failing network, roaming adapter, moving Pis | `ExecutedInOrder`, `ConfirmedIsExecuted`, `DeliversAtMostOnce` |
| `client`/switch | `SwitchIsr`: buffer of 3, cycles of length 1, 2 and 3, two periods, direct states off and on | `DarkAfterHalt`, `Linearized`, `CycleLinearized` |
| `client`/tui | `TuiLink`: four threads, three sockets, one flow of the user, one fault, two retries, buffers of one line | `RestIsFed`, `DeadSubscribersGo` |
| `client`/panel | `Panel`: two Pis, all keys, two presses, a queue of two, one fault | `OrderIsKept`, `ShownIsTrue` |
| `service`/stream | `MicroStream`: two chips, rates off and on, a burst of one, a Z of two rows | `RowIsFresh`, `StreamGoesOn` |
| `service`/link | `SerialLink`: two callers, two calls in all, one frame on the way, recording | `StrayRepliesAreLate`, `CallsEnd` |
| `service`/auto | `ModeCore`: one client that only enables auto-follow and picks CHARGE, all levels of the current | `LowCurrentIsTransparent` |
| `service`/fleet | `Fleet`: two Pis, two commands, one refresh, healthy network | `CommandsAreSent` |

### Bounds, and why they are enough

* switch: three lengths are what a live swap needs to leave the index inside, at the end of
  and beyond the new cycle, with states of the old one behind it.  The number of commands is
  not bounded.  The theorems drop every bound.
* micro: two-state cycles whose states share no FET make every mixture of half-written
  states visible; commands and ticks are not bounded.
* `modes`: the races are between two threads that change the mode (two clients, or a client
  and auto-follow) and a flush; a second flush would only add to `raced` states.  One
  sequence besides the all-off sequence 0, and pulse mode, give three distinct cycles;
  one step time gives two periods, since pulse mode doubles it.  DISCHARGE is not in
  the picks: a client that enables auto-follow changes to it.  The auto-follow loop does
  not engage under a low current; when it does, it is one more thread that calls
  `_set_mode_internal`, as the second client is.  The counts of ticks are compared modulo
  4, the length of the longest cycle.  The theorems drop every one of these bounds.
* `record`: two sessions make every leftover of a first session visible in a second (gate,
  counters, queue, writer); three frames let a gate wait for one, open with the next and
  reach a limit of two; a counter modulo 3 wraps within them.  Here, too, theorems follow.
* link: two calls are enough for a reply of one command to meet the next, of the same
  thread or of the other; a mode change has up to five commands, so time-outs also meet
  within one call.
* fleet: two Pis are enough for one to be visited while the other is asked for, and for the
  adapter to be on the wrong one; two commands are enough for an order.
* tui: a connection that is lost, its automatic successor and one that the user asks for
  meanwhile are three sockets, and with a receiving thread four threads.  `TakeTurns`, a
  CONSTRAINT, lets one thread connect at a time; see section 6 for what happens otherwise.
* panel: two keys are enough for a second send thread to overtake the first, a queue of two
  for one that is full, one fault for a lost connection or a switch in between.
* log: a second file is one that another client begins, a second ask a stop or an offload
  beside the first; two rows tell a part from the whole.
* cycle: a debounce of three makes mixed runs of one and two possible; twice three steps in
  ten units pass every boundary, of a step, of a cycle and of the end.
* cal: a gain and an offset are determined by two samples of two currents; modulo 5 there
  are enough values for two currents to differ and for a wrong pair to be wrong somewhere.
* net: three workers are the boot service, a client's flip and one of the button.

`modes` uses three reductions.  SYMMETRY (the clients are interchangeable) is used only in
runs without liveness, here and in `record`.  The VIEW merges values of `debugStep` outside
DEBUG, where the next change to DEBUG resets it, and the targets of auto-follow, which is
never engaged while the current stays low.  The CONSTRAINT `Calm` cuts what follows a race
of a flush: all properties of that run but the type invariant and the interlock say
"unless a flush raced", and `flush_race` looks at what is cut.  For the type invariant and
the interlock the theorems of `ModeProofs` cover what is cut as well.

CHECK_DEADLOCK is FALSE for `record`, `parts`, `client`, `service`, `late_reply`, `flip`,
`offload` and `stale_command`: with the bounds used up and all threads at rest these
systems stop.

### Fairness

Stated only where liveness is checked, and weak throughout.  Threads inside a call go on
(the operating system schedules them; `_send` gives up after 0.5 s and each lock holder
returns); `Timer` objects fire; the auto-follow loop polls; the 2-second hold-off ends; the
firmware's main loop gets to its input (`Execute`) or through its sweep (`MainLoop`) and
its clock runs (`TimePasses`); the reader thread reads; the cycler thread runs and a begun
`request_repoll` is finished.  In the client each thread goes on, the server's threads and
its broadcast loop too; a dialog is answered, a flip that was asked for happens, the laptop
joins the network it was told to and a cut path comes back; in `Panel` the send thread, the
server and the state frames go on and a lost connection is made again.  Nothing obliges a
user or a client to call, the current to move, a chip to convert, a Pi to come back, a frame
to be lost or the *hand-over* of a lock to favour anyone.

## 4. Findings

1. **A flush restarts switching in IDLE** (`flush_race`, `IdleIsDark`).  `_flush` decides
   under the engine's lock and sends C, F, G after it (`sequence_engine.py:351`).  If
   `set_mode("idle")` comes in between, the halt is followed by C, F and G: the server
   reports IDLE, the bridge switches.  `pause` promises "Halt switching on the RP2040 and
   leave all FETs off".
2. **A new target outlives the charge** (`target`, `LowCurrentIsTransparent`).
   `set_target_mode` applies the mode after releasing its lock (`auto_follow.py:155`); if
   the loop disengages in between, the bridge goes on switching at low current, and nothing
   takes it out, because the loop believes it has disengaged.
3. **Replies can be off by one** (`late_reply`, `OwnReply`).  `_send` drains the queue
   before it writes; a reply that misses its time-out and arrives after the next drain is
   returned to the next command.  `StrayRepliesAreLate` shows what remains true.
4. **A refresh can be forgotten** (`repoll`, `RepollIsNotForgotten`).  `_visit_pi` ticks the
   Pi off *after* the poll (`ap_cycler.py:249`), undoing a `request_repoll` made during it.
5. **Connected, and nothing arrives** (`flip`, `ConnectedIsFed`).  `reconnect_to` starts the
   retry loop of `connect_with_retry`, which connects and never subscribes
   (`client.py:179`); after a network flip the client shows "Connected" and gets no state.
   `RestIsFed` shows that the other ways to connect do subscribe or start again.
6. **The offload deletes what it has not verified** (`offload`, `DeletedIsVerified`).  Any
   local file that is not empty counts (`app.py:1526`), also the part that a failed copy
   left or the copy of a file the Pi is still writing.  `RemovedIsWhole` shows that the stop
   of a recording does not have this fault.
7. **A command reaches another Pi** (`stale_command`, `SentToItsPi`).  `disconnect` puts its
   sentinel behind the commands that wait (`client.py:137`), and the queue outlives the
   connection: the send thread of the next connection, to another Pi, sends them.

Three more statements fail in the models and are in no run: `JoinedIsOn` (`PiFinder`: where
the system only queues an association, the access point the laptop is still on answers the
probe, and the join reports success for another Pi), `SelectionFollowsDial` (`Knob`: a
release rebases the dial and not the sequence selection, which jumps at the next detent)
and `RecalibratedIsTrue` (`Calibration`: with a correction in the firmware the "raw" means
are corrected ones, and the pair saved from them is wrong).

Met on the way: the module docstring of `mode_controller.py` promises the all-off gap for
every transition, the code skips it between DISCHARGE and the switching modes
(`InterlockUnlessSeamless` states what it does); after a seamless resume the Pi counts from
step 0 while the firmware kept its index (`LabelIsStep` exempts it); a comment in
`switching.h` says a re-start begins at state 0, it begins at the held index; the reader
and a mode change wait for each other while recording, until the time-out (`CallsEnd` shows
that this ends); two overlapping `start` calls leave the first writer without a sentinel
(`WriterIsToldToEnd` is therefore stated of the latest session); setting the stream rate
restarts the counter and so logs a gap (`GapIffLost` exempts it); a worker whose profile
request failed still subscribes, beside the automatic reconnect, so that two threads may
read one socket, and connects that interrupt each other leave a socket open (`TakeTurns`
keeps both out of the runs); `subscribe` notes the subscription also when it failed; the
detection thresholds of a schedule never reach the detector; the sensor rate in the header
is not refreshed after a change of averaging; a threshold key steps from whatever frame was
shown last; a calibration cut between its two W commands leaves one channel of the pair
corrected; of two overlapping joins the later result wins, and a search result that comes
late connects over a newer choice, under the name of the Pi chosen before.

## 5. What is proved

Eight modules hold theorems; `DataProofs` extends `PartsProofs`, and that `FleetProofs`, so
each cites the ones before it.  Their assumptions are named in the modules that declare the
constants, and TLC evaluates them too.  Each inductive invariant was first checked by TLC on
the instance of the run.  A part of `Parts` or `Client` is proved about in two steps: a lemma
(`NetMoves`, `LogMoves`, `PanelMoves`, ...) says that when the parts move this one moves as
its module says, and the invariant is that of the module.

**The firmware core** (`ClientProofs`), for every buffer size
`MaxLen`, every set of programs, periods and direct states, assuming that the buffer has a
slot (`MaxLenAssumption`), that a program has between 1 and `MaxLen` states, as `cmd_C` and
`cmd_E` make sure (`ProgramsAssumption`), and that periods are positive and direct states
are sets of FETs (`InputAssumption`).

*Safety.*  None of the properties is inductive: that H leaves the bridge dark depends on
where in the handler the interrupt fell.  `IInv` adds what each point of each handler
guarantees: `HandlerAt` (which points a command's handler has), `Operands` (what its
registers hold there), `HaltHasNoTimer` (past the cancelling step no interrupt is left, past
the clearing step the flag is down), `TimerInv` (where the timer may be armed, and with
what), `IndexInCycle`, `DarkAfterHalt` and `DirectStateHolds`.  There is a step per action
and below it one per conjunct the action can disturb.  From `Invariance` follow
`TypeCorrect`, `HaltIsDark`, `DirectHolds`, `IndexSafe`, `TimerSound`.  The last three state
`DirectStateHolds`, `IndexInCycle` and `TimerMatchesState`, which no run checks.  They are
theorems about the `Spec` of `SwitchIsr`; the run's `ClientSpec` moves it in just this way
(`CoreMoves`).

*Implementation.*  `LInv` relates the core to its atomic view at every point of every
handler, not only between them: `CycleFollows` (before its commit step a handler has not
changed the cycle, or has changed exactly what the operation will), `IndexFollows`,
`PinsFollow` (the pins already driven are those of the target, the others are those of
before).  From `Follows` come `CycleAsAtomic` (`CycleLinearized`) and `HandlersAreAtomic`
(`Linearized`).  This is the refinement of `SwitchIsr` to `SwitchOps` with the history
variable `spec` as the witness; it is also what entitles `ModeCore` to use the atomic
operations: on its seamless paths the pins may differ for a moment, the cycle, index,
period and running flag may not.

**Mode control** (`ModeProofs`, `ModeBridgeProofs`), for every number of clients and flush
timers and every choice of modes, sequences, step times, calls and levels
(`ThreadsAssumption`: threads are distinct; `PicksAssumption`: picks are of the program).
The atomic operations come first, one lemma per verb (`HandleS` to `HandleG`) and
`TickKeeps`.

*Types and interlock.*  `InterlockUnlessSeamless` looks at the last label of a mode change
only.  `ModeInv` adds to the types, for each thread that may change the mode, `Driving`: it is
inside a mode change exactly while it holds the lock; it aims at another mode than the
present (`Aims`); a change that skips the dead time is at labels of the seamless way, any
other at labels of the interlocked way (`Path`); past `all_off` an interlocked change has
been dark (`Darkened`).  This holds whatever the flushes send, raced or not.

*Mode and bridge.*  `ModeMatchesBridge`, `CacheIsTruth` and `LabelIsStep` speak of the
moments when nobody holds the lock and no flush sends.  `CalmInv` says what is true in
between, until a flush races: the holder of the lock has achieved at each label what
`Changing` says, down to the loaded cycle, its period, the running timer and the count of
ticks since its G; at most one flush sends, while the lock is free, and it has achieved
the same (`Flushes`, `Sending`); otherwise the bridge is what the mode says (`Rests`).  Two
parts hold even after a race: a paused engine has nothing pending, and no Timer sends E.
The invariant is lost exactly in the step that sets `raced`, and the theorems say nothing of
what follows, as finding 1 shows they must not.  `SeamlessNeverOpens` (`NeverOpensCircuit`)
follows from both invariants: H and `all_off` belong to the interlocked way and C to flushes,
which during a change would have raced, so only E, Y, F and G and the interrupt reach the
pins, and they drive nothing but states of a loaded cycle.

**Recorder** (`RecorderProofs`), for every number of clients, sessions
and frames, with disks that fail and joins that time out (`RecorderAssumption`).  The queue of
a session ties everything together: `Running` (a session that records has a living writer and
no sentinel in its queue), `WriterFate` (a writer that ended has taken everything),
`AllRecorded`, `Gated` and `Limited` (which of the offered frames were accepted), `FrameHeld`
and `Counted` (the reader that is past its check), `Unused` (sessions that are to come).  With
them `SentinelIsLast`, `WriterIsToldToEnd`, `FileIsRecording` and `RecordingIsContiguous` are
inductive.  `GapIffLost` needs numbers: all frames of one rate are counted from one base,
modulo `SeqModulus` (`Numbered`), what is recorded is older than what is held (`Aged`), and
`_last_seq` is the number of the last row (`LastKnown`).  Two counters can only tell whether
frames are missing if less than a whole round is lost in a run, which `GapsAreSeen` assumes.

**Dashboard** (`FleetProofs`), for every set of Pis and any number of commands and
refreshes, with failing networks, roaming adapters and Pis that move (`FleetAssumption`).
`IInv`: what a Pi executed has its result (`ExecutedIsDone`), the commands marked sent are
those the visit has still to send and are for the Pi that is visited (`SentIsSending`,
`SendingIsMine`), a younger command of a Pi is never ahead of an older (`OldestFirst`), and
the adapter is on the access point it joined or has roamed (`OnItsAp`).  From it
`ExecutionOrder`, `Confirmation`, and `AtMostOnce`: each step of `Fleet` is a step of
`CommandDelivery` or a stutter.  The runs check the same
definitions, through `Parts`.  `FleetTypes` adds the types.  Two of its
conjuncts take an argument: the cycler goes through the Pis to visit in ascending order, so
such an order has to exist for every set of Pis (`CanBeOrdered`, `AscendingLists`); and a Pi
executes no more commands than were queued, because none is executed twice (`ExecutesFew`).
The rest is that a cycle visits only Pis it has seen (`Visits`).  `Ascending` is written as a
CHOOSE over the orders of the set, not with `SortSeq`, whose definition the provers cannot
expand.

**Serial link** (`ServiceProofs`, `StrayRepliesLate`), for every set of callers and every
number of calls and frames (`SerialLinkAssumption`).  `StrayRepliesAreLate` is about results only.  `IInv` adds
where the replies are: `OneWaits` (the holder of the serial lock waits for the last command,
the only one without a result), `InOrder` (the replies in the queue and on the wire come in
the order of their commands and belong to executed ones), `TakenFirst` (what was taken is
older than everything on its way), `Undisturbed` (while nothing was given up, only the reply
that is waited for is on its way).

**Sensor stream** (`ServiceProofs`, `RowsAreFresh`), for every number of chips, largest rate,
burst and profile (`MicroStreamAssumption`).  `RowIsFresh` speaks of the moment a row is
written; `FreshInv` says what the accesses still ahead will do.  An edge that was latched is
that of a conversion no sweep has read, or is dropped behind the sweep under way
(`EdgeIsNew`); with the handshake armed every sweep ahead has such an `unflag` behind it, and
nothing arms or disarms in between (`SweepsUnflag`); a row about to be written for an edge
holds a new conversion or will sweep one first (`EdgeComes`); the last row written for an edge
held one (`EdgeCame`).  Without the `unflag` ahead, `EdgeIsNew` is not inductive: the edge of
a conversion that the sweep has just read would release the next row.  `EmitIsRow` and
`ApplyIsSetup` say what the accesses of a row and of a command that programs the chips are;
they rest on `Listed`, that a finite set of chips is listed whole.

**Server process** (`ServiceProofs`, `ServiceIsSafe`, `ServiceTypes`).  A behaviour of `Service`
is one of each of its parts (`PartsMove`), so what is proved of the link and of the stream
holds in it, and its type follows from `TypeCorrect` of the link and of `ModeProofs`, from
`StreamTypeCorrect` and from `FleetTypes`.

**Boot, client and button flips** (`PartsProofs`, `LedRestored`), for every number of
workers, flips, presses and faults: the blink that is under way holds the trigger it will put
back, and two of them at once set `mixed`.

**Knob** (`PartsProofs`, `FrequencyFollows`), for every range of frequencies and number of
sequences: after every poll the frequency is what base, offset and detents say, within the
limits; `RebasedAims` is the lemma on a press or release, which keeps what the knob aims at,
`ClampedNear` the one that limiting brings two frequencies no further apart.

**Detector** (`PartsProofs`, `EvidenceForChange`), for every debounce, set of snapshots and
schedule: the run of equal candidates that the detector counts is a suffix of the window of
recent snapshots, and each was classified under the verdict still in force.

**Search** (`PartsProofs`, `SearchMissesNone`), for every set of Pis, searches, joins and
screens: the steps of the chain that are behind a search were probed in vain
(`ProbedInVain`), so no address of theirs answered all the while.  That the last step of the
chain leaves none out is `ChainSteps` with the kinds `PiFinderAssumption` allows.

**MicroPython switching** (`PartsProofs`, `HaltIsWhole`), for every set of programs, periods
and direct states.  The invariant names the phase the main thread is in (`Quiet`, `Halting`,
`Swapping`, `Setting`, `Starting`, `Arming`, `Stepping`, `Showing`), and for each what is left
to do and what is done: the writes that are still to come write the pins of one state
(`Writing`), those that were made have written it (`Written`) while no timer can interfere.
Under a running timer it says nothing of the pins, as it must.  There is a lemma for each
phase and for each way into it.

**Recordings of the client** (`DataProofs`), for any number of recordings, sessions, rows,
asks and faults (`LogTransferAssumption`).  *On the Pi:* a recording copied whole is not
written any more (`CopiedWhole`), one that is gone was copied whole or counts as careless
(`GoneWhole`), and a stop about to remove one knows how its copy went (`RemovesCopied`);
hence `RemovedIsWhole`.  *On the laptop:* a session that overlaps no stop is not begun
(`Unbegun`), open with its rows queued and one thread at most about to stop it (`AtOpen`), or
closing with the end marker behind all rows, or closed with all of them in the file
(`PastOpen`); hence `SessionIsKept`.

**Schedule** (`DataProofs`, `PlanOnTime`), for every set of schedules, however long, and every
clock (`CycleWatchAssumption`, which also keeps None apart from the schedules).  The plan divides: it finds the cycle by a quotient and the
step in the remainder.  The property counts: it writes the program out, `repeat` times over,
and asks how many steps have ended.  That the two agree is a lemma about numbers
(`SomeEnded`, `AllEnded`), which rests on where the steps of the written-out program end
(`EndsInCycle`: so many whole cycles and one step of a cycle after the beginning) and on the
ends rising (`EndsRise`).  All that is needed of the state is that only valid schedules are
followed (`PlanInv`), whatever is loaded, stopped and restarted.

**Calibration** (`DataProofs`, `SavedIsTrueAlways`), for every prime, number of samples and
set of defects (`CalibrationAssumption`, where that the modulus is prime is said as: every
number but 0 divides 1).  `WizardInv` follows a calibration that nothing spoiled: while the
wizard is open the firmware corrects nothing (`Uncalibrated`), the samples of a capture are
what the channels measure of the current that was entered (`SamplesTrue`), the means of a
captured point are too (`PointsTrue`, by `MeanOfSame`), and the pairs that are shown, or on
their way, or written, undo the defects (`ResultsTrue`, by `TwoPoints`).  `TwoPoints` is the
algebra of the wizard's formula, from the laws of sums, products and quotients modulo a prime
(`Summed`, `Multiplied`, `Distributes`, `Divides`), which are proved first.  The firmware
that still corrects while samples are taken is what breaks `Uncalibrated`, and with it
`RecalibratedIsTrue`.

*Induction.*  Sums need induction over numbers, and the library's theorem takes an operator
as a parameter.  `Inductive` says the same of a set of numbers; `Least`, from which it
follows, is the library's theorem that strict inclusion among finite sets is well-founded,
taken for the sets `1..n`.  With it the recursive functions of the models are shown to exist
and to be what they are meant to be (`SumOf`, `MeanOfSame`).

**Send queue of the client** (`ClientProofs`, `CommandsKeepOrder`), for every set of Pis and
keys and every size of the queue.  The numbers of the commands fall along the way: there are
`c <= w <= h` such that the last command carried out has number `c`, those on the wire lie
above `c` up to `w`, the one in the send thread's hands above `w` up to `h`, and the queue
above `h` (`InOrder`).  This needs that only one send thread is ever at work (`OneDrain`).

**Connection of the client** (`ClientProofs`, `RestFed`), for every number of threads,
sockets, flows, faults and retries.  `FedInv`: every receiving thread is the one the client
knows (`OneReceiver`), a stop event that is set will be cleared by somebody (`StopEnds`), a
cancelled worker that has connected is followed by another (`OrphanFollowed`), there is no
open connection but the current one (`OneOpen`), and whoever made it, or a successor, is
still there (`SomeoneThere`).  The theorem assumes `[]TakeTurns`, the CONSTRAINT of the run,
and sections 4 and 6 say what it leaves out.

**Types of the two ends** (`ClientProofs`, `ClientTypes`): no more commands wait than the
queue holds, a thread's retries stay within their number, settings within their ranges.

**Types of the parts** (`DataProofs`, `PartsTypes`).  A type is seldom inductive by itself, and
three of these need an argument about the code:

* *Recordings* (`LogTyped`).  That a file never has more rows than were accepted holds because
  the rows waiting in a queue are numbered, upwards, above those written and up to the last
  one accepted (`Numbers`); a marker among them is not.  `SessionsCounted` keeps that and,
  for a row between its two halves, that there is room for it.
* *Calibration* (`CalTyped`).  Whatever was captured - unsteady, in error, on top of a
  correction - readings, means, gains and offsets are numbers of the field (`Numeric`); the
  mean by the running sum, which `MeanTyped` shows to exist, the gain because a difference of
  0 leaves no result.  A capture under way always lacks a sample.
* *Search* (`FindTyped`).  `Reconnected` goes to `target`, which may be None: it never is
  where something holds, makes or renews a connection (`LinkTypes`).  Dialogs that are open
  are no more than were opened (`WindowTypes`), a join that has begun has an access point
  (`JoinTypes`).

The steps of a command of the MicroPython firmware hold only programs that were sent
(`Sent`); the dial's selection is a remainder within the sequences (`DialRange`).

*A caution about the proofs.*  In `SwitchIsr` a cycle is a sequence and the buffer is a
function on `0..MaxLen-1`.  The SMT encoding of `Len` and `Seq` does not get along with
functions on other domains, so no leaf uses both: `ProgramShape` turns a program into its
length `CycleLen` and its entries once, and `CycleLen` is not expanded elsewhere.
Most leaves take the provers a moment; one that can come near the default time limit on a
busy machine is split, or names its prover and a longer limit (`SMTT(30)`, `ZenonT(60)`).

**Only model-checked:**

* Liveness, for which TLAPS has no rule of ENABLED and fairness here: `DeadSubscribersGo`,
  `ShownIsTrue`, `StreamGoesOn`, `CallsEnd`, `LowCurrentIsTransparent`, `CommandsAreSent`.

Every other property of a passing run is the subject of a theorem.

## 6. What is not modelled

* *Failed serial commands seen by the mode control.*  In `ModeCore` every command takes
  effect; `SerialLink` has the time-outs.  Their composition would say what a mode change
  that lost one command leaves behind; the code does not look at the result, and no text of
  the repository says what it should.
* *A status put together across locks* (`mode_controller.py:254`): rows may mix the mode of
  one moment with the step of the next; nothing says which mixtures are acceptable.
* *Start-up and shutdown.*  The signal handler runs in the main thread and takes locks that
  this thread may hold (`__main__.py:266`), so the process can hang while the bridge switches;
  there is no protocol to model beyond that.
* Queries and burst commands of the command server, burst collection, sensor parsing and the
  clock-offset filter of the driver; chip access and the emit schedule of the C firmware
  (those of the MicroPython firmware, which they replace, are modelled).
* Two connecting threads at once (`TakeTurns`): there two readers may end up on one socket.
* Pause, resume and stop of the cycler and the time-based cleanup of the fleet store.
* Reuse of a recording path within one second.
* Widgets that only draw, the schedule screen, burst capture in the client.
* The loop of the legacy controller, the measurement tools, the board design: no state that
  survives a step, or no behaviour at run time.

## 7. What could follow

1. `ModeCore` with commands that fail, composed with `SerialLink`, once it is decided what a
   mode change should do about a lost reply.
2. The emit schedule and burst capture of the C firmware, as `MicroStream` has those of its
   predecessor.  Property: a burst is delivered whole or not at all.
3. `RestFed` without `TakeTurns`, once connecting threads exclude each other in the client.
