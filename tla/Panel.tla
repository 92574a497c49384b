-------------------------------- MODULE Panel --------------------------------
(***************************************************************************)
(* What becomes of a key press in the terminal client: the key handlers of *)
(* the application (tui/app.py), which compute the new value from what the *)
(* panel shows, the queue of commands and the thread that sends them       *)
(* (send_async and _send_drain in tui/client.py), the server's handlers of *)
(* those commands (server/command_server.py and behind it), and the state  *)
(* frames that overwrite what the panel shows.                             *)
(*                                                                         *)
(* How a connection is made is the module TuiLink: here it is up, closed   *)
(* or being made.  The queue outlives it.  Frequencies, rates and          *)
(* thresholds are small numbers, the averaging is off (0) or on (1).       *)
(***************************************************************************)
EXTENDS Naturals, Sequences

CONSTANTS
  None,
  Pis,        \* the Pis of the fleet
  Keys,       \* kinds of keys that are pressed
  MaxFreq,    \* the highest frequency, and the highest sensor rate
  QueueSize,  \* Queue(maxsize)
  MaxKeys,    \* bound on the keys pressed
  MaxFaults   \* bound on lost connections, switches and other clients' changes

PanelAssumption ==
  /\ Pis # {} /\ Keys \subseteq {"mode", "freq", "rate", "avg", "auto", "enter", "cc"}
  /\ {MaxFreq, QueueSize} \subseteq Nat \ {0} /\ {MaxKeys, MaxFaults} \subseteq Nat

VARIABLES
  shown,     \* what the panel shows, which is what the next key starts from
  pi,        \* the Pi the client talks to
  link,      \* "up", "closed" or "connecting"
  stop,      \* PiClient._stop_event
  queue,     \* PiClient._send_q
  drain,     \* the threads in _send_drain
  sender,    \* PiClient._send_thread
  wire,      \* commands on their way to the Pi
  frame,     \* the state frame on its way to the panel
  settings,  \* per Pi: what the panel shows of it, as it is
  given,     \* number of commands the user has given
  carried,   \* history: the last command a Pi has carried out
  faults

client == <<link, stop, queue, drain, sender>>
vars   == <<shown, pi, client, wire, frame, settings, given, carried, faults>>

Sentinel == [n |-> 0, pi |-> None, set |-> "stop", to |-> None]
Drains   == 1..2
Booted   == [mode |-> "idle", freq |-> 1, rate |-> 1, avg |-> 0, on |-> FALSE,
             enter |-> 1, exit |-> 0, cc |-> 0]

Init ==
  /\ pi \in Pis /\ link = "up" /\ stop = FALSE /\ queue = <<>>
  /\ drain = [d \in Drains |-> [at |-> "none", has |-> Sentinel]] /\ sender = 1
  /\ shown = Booted /\ settings = [p \in Pis |-> Booted]
  /\ wire = <<>> /\ frame = None /\ given = 0 /\ carried = None /\ faults = 0

Fault == faults < MaxFaults /\ faults' = faults + 1

-----------------------------------------------------------------------------
(* send_async: queue the commands and see to it that a thread sends them.   *)
Put(q, c) == IF Len(q) < QueueSize THEN Append(q, c) ELSE q    \* or drop it

(* mutant: a second thread is started while the first is still there.       *)
EnsureThread_Always ==
  LET d == IF drain[1].at = "none" THEN 1 ELSE 2
  IN  IF drain[d].at # "none" THEN UNCHANGED <<drain, sender>>
      ELSE /\ drain' = [drain EXCEPT ![d].at = "look"] /\ sender' = d

EnsureThread ==
  IF drain[sender].at # "none" THEN UNCHANGED <<drain, sender>>
  ELSE \E d \in Drains :
         /\ drain[d].at = "none" /\ \A o \in Drains : o < d => drain[o].at # "none"
         /\ drain' = [drain EXCEPT ![d].at = "look"] /\ sender' = d

(* sets: one or two settings and their values, one command each. *)
Gives(sets) ==
  IF link # "up" THEN UNCHANGED <<queue, drain, sender, given>>
  ELSE LET Command(i) == [n |-> given + i, pi |-> pi, set |-> sets[i][1], to |-> sets[i][2]]
           first      == Put(queue, Command(1))
       IN  /\ queue' = IF Len(sets) = 1 THEN first ELSE Put(first, Command(2))
           /\ given' = given + Len(sets)
           /\ EnsureThread

(* The threshold keys and the setpoint start from the last frame, the      *)
(* others from what is shown, which some of them change at once.           *)
Press(kind, sets) ==
  /\ kind \in Keys /\ given < MaxKeys
  /\ Gives(sets)
  /\ UNCHANGED <<pi, link, stop, wire, frame, settings, carried, faults>>

KeyMode ==
  /\ Press("mode", <<<<"mode", IF shown.mode = "idle" THEN "charge" ELSE "idle">>>>)
  /\ UNCHANGED shown

KeyFreq ==
  \E to \in {shown.freq - 1, shown.freq + 1} \cap 1..MaxFreq :
    /\ Press("freq", <<<<"freq", to>>>>)
    /\ shown' = IF link = "up" THEN [shown EXCEPT !.freq = to] ELSE shown

KeyRate ==
  \E to \in {shown.rate - 1, shown.rate + 1} \cap 1..MaxFreq :
    /\ Press("rate", <<<<"rate", to>>>>)
    /\ shown' = [shown EXCEPT !.rate = to]

KeyAvg ==
  /\ Press("avg", <<<<"avg", 1 - shown.avg>>>>)
  /\ shown' = [shown EXCEPT !.avg = 1 - @]

KeyAuto ==
  /\ Press("auto", <<<<"on", ~shown.on>>>>)
  /\ UNCHANGED shown

(* One step up or down, or none, and not below the least value. *)
Near(x, least) == {x, x + 1, IF x = least THEN x ELSE x - 1}

(* _adjust_auto_follow: both thresholds, the lower one below the upper one. *)
KeyEnter ==
  \E enter \in Near(shown.enter, 1), exit \in Near(shown.exit, 0) :
    /\ enter = shown.enter \/ exit = shown.exit
    /\ LET above == IF enter <= exit THEN exit + 1 ELSE enter
       IN  above <= MaxFreq /\ Press("enter", <<<<"thresholds", <<above, exit>>>>>>)
    /\ UNCHANGED shown

(* _set_cc_setpoint: the setpoint, then thresholds that suit it. *)
KeyCc ==
  /\ Press("cc", IF shown.cc = 0 THEN <<<<"cc", 1>>, <<"thresholds", <<2, 1>>>>>>
                                 ELSE <<<<"cc", 0>>>>)
  /\ UNCHANGED shown

-----------------------------------------------------------------------------
(* _send_drain: look at the stop event, wait for a command, send it.        *)
Look(d) ==
  /\ drain[d].at = "look"
  /\ drain' = [drain EXCEPT ![d].at = IF stop THEN "none" ELSE "get"]
  /\ UNCHANGED <<shown, pi, link, stop, queue, sender, wire, frame, settings, given, carried, faults>>

Take(d) ==
  /\ drain[d].at = "get" /\ queue # <<>>
  /\ queue' = Tail(queue)
  /\ drain' = [drain EXCEPT ![d] = IF Head(queue) = Sentinel
                                     THEN [at |-> "none", has |-> Sentinel]
                                     ELSE [at |-> "send", has |-> Head(queue)]]
  /\ UNCHANGED <<shown, pi, link, stop, sender, wire, frame, settings, given, carried, faults>>

(* Nothing for a second: the thread leaves.  Until it is gone it counts as  *)
(* alive.                                                                   *)
GiveUp(d) ==
  /\ drain[d].at = "get" /\ queue = <<>>
  /\ drain' = [drain EXCEPT ![d].at = "leaving"]
  /\ UNCHANGED <<shown, pi, link, stop, queue, sender, wire, frame, settings, given, carried, faults>>

Leave(d) ==
  /\ drain[d].at = "leaving"
  /\ drain' = [drain EXCEPT ![d].at = "none"]
  /\ UNCHANGED <<shown, pi, link, stop, queue, sender, wire, frame, settings, given, carried, faults>>

(* Without a socket, or when the send fails, the command is dropped.        *)
Transmit(d) ==
  /\ drain[d].at = "send"
  /\ wire' = IF link = "up" THEN Append(wire, drain[d].has) ELSE wire
  /\ drain' = [drain EXCEPT ![d] = [at |-> "look", has |-> Sentinel]]
  /\ UNCHANGED <<shown, pi, link, stop, queue, sender, frame, settings, given, carried, faults>>

-----------------------------------------------------------------------------
(* The Pi: the connection's thread carries the commands out in order.  The  *)
(* firmware holds the sensor rate below what the averaging allows.          *)
Cap(avg) == IF avg = 1 THEN 1 ELSE MaxFreq

Clamped(s) == [s EXCEPT !.rate = IF @ > Cap(s.avg) THEN Cap(s.avg) ELSE @]

Set(s, c) ==
  Clamped(CASE c.set = "mode" -> [s EXCEPT !.mode = c.to]
            [] c.set = "freq" -> [s EXCEPT !.freq = c.to]
            [] c.set = "rate" -> [s EXCEPT !.rate = c.to]
            [] c.set = "avg"  -> [s EXCEPT !.avg = c.to]
            [] c.set = "on"   -> [s EXCEPT !.on = c.to,    \* enabling resets the mode
                                           !.mode = IF c.to /\ ~s.on THEN "discharge" ELSE @]
            [] c.set = "cc"   -> [s EXCEPT !.cc = c.to]
            [] c.set = "thresholds" -> [s EXCEPT !.enter = c.to[1], !.exit = c.to[2]])

Dispatch ==
  /\ link = "up" /\ wire # <<>>
  /\ wire' = Tail(wire)
  /\ settings' = [settings EXCEPT ![pi] = Set(@, Head(wire))]
  /\ carried' = [n |-> Head(wire).n, for |-> Head(wire).pi, at |-> pi]
  /\ UNCHANGED <<shown, pi, client, frame, given, faults>>

(* The rotary knob or another terminal. *)
OthersSet ==
  /\ Fault
  /\ \E f \in 1..MaxFreq \ {settings[pi].freq} : settings' = [settings EXCEPT ![pi].freq = f]
  /\ UNCHANGED <<shown, pi, client, wire, frame, given, carried>>

Broadcast ==
  /\ link = "up" /\ frame = None
  /\ frame' = settings[pi]
  /\ UNCHANGED <<shown, pi, client, wire, settings, given, carried, faults>>

(* mutant: the frequency shown is the one the key was pressed for.          *)
ApplyState_KeepsFreq ==
  /\ frame # None
  /\ shown' = [frame EXCEPT !.rate = shown.rate, !.avg = shown.avg, !.freq = shown.freq]
  /\ frame' = None
  /\ UNCHANGED <<pi, client, wire, settings, given, carried, faults>>

(* _apply_state on the UI thread: the frame carries neither the sensor rate *)
(* nor the averaging.                                                       *)

ApplyState ==
  /\ frame # None
  /\ shown' = [frame EXCEPT !.rate = shown.rate, !.avg = shown.avg]
  /\ frame' = None
  /\ UNCHANGED <<pi, client, wire, settings, given, carried, faults>>

-----------------------------------------------------------------------------
(* disconnect, which leaves the queue as it is and puts the sentinel behind *)
(* it.  A switch goes to another Pi and forgets some of what is shown.      *)
Disconnect ==
  /\ link = "up" /\ Fault
  /\ link' = "closed" /\ stop' = TRUE /\ queue' = Put(queue, Sentinel)
  /\ wire' = <<>> /\ frame' = None
  /\ UNCHANGED <<drain, sender, settings, given, carried>>

Lose == Disconnect /\ UNCHANGED <<shown, pi>>

SwitchPi ==
  /\ Disconnect
  /\ \E p \in Pis \ {pi} : pi' = p
  /\ shown' = [shown EXCEPT !.mode = "idle", !.freq = 1]

Reconnect ==
  /\ link = "closed"
  /\ link' = "connecting" /\ stop' = FALSE
  /\ UNCHANGED <<shown, pi, queue, drain, sender, wire, frame, settings, given, carried, faults>>

(* _connect_worker: the sensor profile is asked for before subscribing. *)
Connected ==
  /\ link = "connecting"
  /\ link' = "up"
  /\ shown' = [shown EXCEPT !.rate = settings[pi].rate, !.avg = settings[pi].avg]
  /\ UNCHANGED <<pi, stop, queue, drain, sender, wire, frame, settings, given, carried, faults>>

-----------------------------------------------------------------------------
Key == KeyMode \/ KeyFreq \/ KeyRate \/ KeyAvg \/ KeyAuto \/ KeyEnter \/ KeyCc

SendThread(d) == Look(d) \/ Take(d) \/ GiveUp(d) \/ Leave(d) \/ Transmit(d)

Next ==
  \/ Key \/ Dispatch \/ OthersSet \/ Broadcast \/ ApplyState
  \/ Lose \/ SwitchPi \/ Reconnect \/ Connected
  \/ \E d \in Drains : SendThread(d)

Spec == Init /\ [][Next]_vars

Fairness ==
  /\ WF_vars(Dispatch) /\ WF_vars(Broadcast) /\ WF_vars(ApplyState)
  /\ WF_vars(Reconnect) /\ WF_vars(Connected)
  /\ \A d \in Drains : WF_vars(SendThread(d))

FairSpec == Spec /\ Fairness

-----------------------------------------------------------------------------
TypeOK ==
  /\ DOMAIN shown = DOMAIN Booted /\ pi \in Pis /\ link \in {"up", "closed", "connecting"}
  /\ stop \in BOOLEAN /\ (stop => link = "closed") /\ Len(queue) <= QueueSize
  /\ \A d \in Drains : drain[d].at \in {"none", "look", "get", "send", "leaving"}
  /\ sender \in Drains /\ faults \in 0..MaxFaults
  /\ \A p \in Pis : settings[p].rate <= Cap(settings[p].avg)

(* Commands are carried out in the order in which the keys were pressed,    *)
(* over lost connections and switches: they go through one queue, but the   *)
(* thread that sends them ends and is started again (client.py 208-243).    *)
OrderIsKept == [][carried' # carried /\ carried # None => carried'.n > carried.n]_vars

(* "Drain + stop the async send thread" (client.py 135): no command is      *)
(* left for the next connection, so none reaches a Pi it was not meant for. *)
(* Fails: disconnect puts the sentinel behind the commands that wait.       *)
SentToItsPi == carried # None => carried.for = carried.at

(* When the user leaves the keys alone the panel ends up showing the mode,  *)
(* the frequency and the auto-follow settings of the Pi, whatever was       *)
(* dropped, overtaken by an older frame or set by others meanwhile: what a  *)
(* key shows at once is taken back by the frames (app.py 846-920,           *)
(* 1197-1201).                                                              *)
Agrees == \A s \in {"mode", "freq", "on", "enter", "exit", "cc"} : shown[s] = settings[pi][s]
ShownIsTrue == <>[](link = "up" /\ Agrees)
=============================================================================
