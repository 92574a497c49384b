------------------------------- MODULE TuiLink -------------------------------
(***************************************************************************)
(* The TCP link between a terminal client and the Pi: PiClient             *)
(* (tui/client.py) with its connecting, reconnecting and receiving threads *)
(* and the flows of the application that drive it (tui/app.py), and the    *)
(* connections of CommandServer (server/command_server.py): the thread of  *)
(* each connection, the subscriptions and the broadcast loop.              *)
(*                                                                         *)
(* What the threads of the client share (state, stop event, socket) has no *)
(* lock.  A step runs from one blocking call to the next: sockets, waits,  *)
(* and every change of state, which waits for the UI thread to show it     *)
(* (_set_state, call_from_thread).  Of a line only that it is there counts *)
(* on the way to the client; the half line a dropped subscriber is left    *)
(* with ends its connection like the end of file behind it.                *)
(***************************************************************************)
EXTENDS Naturals, Sequences

CONSTANTS
  None,
  Threads,     \* slots for the threads of the client
  Socks,       \* slots for connections
  Flows,       \* what the user does: "reconnect", "switch", "flip"
  MaxFlows,    \* bound on the user's flows
  MaxFaults,   \* bound on cuts of the path, late replies and stalls of a reader
  MaxRetries,  \* PiClient(max_retries)
  Buffer       \* lines a socket takes before sendall blocks

TuiLinkAssumption ==
  /\ Threads \subseteq Nat \ {0} /\ Socks \subseteq Nat \ {0} /\ None \notin Threads \cup Socks
  /\ Flows \subseteq {"reconnect", "switch", "flip"}
  /\ MaxFlows \in Nat /\ MaxFaults \in Nat
  /\ MaxRetries \in Nat \ {0} /\ Buffer \in Nat \ {0}

VARIABLES
  state,       \* PiClient._state
  stop,        \* PiClient._stop_event
  subscribed,  \* PiClient._subscribed
  cur,         \* PiClient._sock and _rfile
  recvThread,  \* PiClient._recv_thread
  host,        \* PiClient._host
  th,          \* the threads of the client
  ui,          \* what the UI thread is in the middle of
  path,        \* the address at which this laptop reaches the Pi, or None
  net,         \* the network mode of the Pi: "client", "flipping" or "ap"
  cli,         \* per connection: the client's end
  srv,         \* per connection: the server's end and its thread
  live,        \* per connection: whether the path it was made over is still there
  c2s,         \* per connection: commands on the way
  s2c,         \* per connection: how many lines are on the way back
  subscribers, \* CommandServer._subscribers
  madeBy,      \* history: who made the connection; "clash": over another, or two at once
  flows, faults

client  == <<state, stop, subscribed, cur, recvThread, host>>
network == <<path, net, live>>
server  == <<srv, subscribers>>
wires   == <<cli, c2s, s2c>>
bounds  == <<flows, faults>>
vars    == <<client, th, ui, network, server, wires, bounds, madeBy>>

Hosts == {"lan", "gateway"}    \* the shared Wi-Fi, the Pi's own access point
Free  == [kind |-> "free", pc |-> "begin", sock |-> None, host |-> "lan", tries |-> 0,
          after |-> "end"]

Alive(t)  == t # None /\ th[t].kind # "free"
Idle(k)   == cli[k] # "open" /\ srv[k] # "open" /\ \A t \in Threads : th[t].sock # k
At(t, kinds, pc) == th[t].kind \in kinds /\ th[t].pc = pc

(* A new thread in the first free slot. *)
Thread(kind, pc, h) == [Free EXCEPT !.kind = kind, !.pc = pc, !.host = h]
FreeSlot(t)      == ~Alive(t) /\ \A u \in Threads : u < t => Alive(u)

(* Thread t goes on at pc, or ends. *)
GoesOn(t, pc) == IF pc = "end" \/ (th[t].kind = "orphan" /\ pc \in {"profile", "subscribe"})
                   THEN Free
                   ELSE [th[t] EXCEPT !.pc = pc, !.sock = None]

(* The thread is between its connect and the end of its subscribe. *)
Connecting(t) == th[t].kind \in {"worker", "orphan", "auto", "retry"} /\ th[t].pc # "begin"

Init ==
  /\ state = "disconnected" /\ stop = FALSE /\ subscribed = FALSE
  /\ cur = None /\ recvThread = None /\ host = "lan"
  /\ th = [t \in Threads |-> IF t = 1 THEN Thread("worker", "begin", "lan") ELSE Free]
  /\ ui = "idle"
  /\ path = "lan" /\ net = "client" /\ live = [k \in Socks |-> FALSE]
  /\ cli = [k \in Socks |-> "none"] /\ srv = [k \in Socks |-> "none"]
  /\ c2s = [k \in Socks |-> <<>>] /\ s2c = [k \in Socks |-> 0] /\ subscribers = {}
  /\ flows = 0 /\ faults = 0 /\ madeBy = "none"

-----------------------------------------------------------------------------
(* disconnect: set the stop event (its callers do), close the socket. *)
Disconnect ==
  /\ subscribed' = FALSE /\ state' = "disconnected"
  /\ cli' = IF cur = None THEN cli ELSE [cli EXCEPT ![cur] = "closed"]
  /\ s2c' = IF cur = None THEN s2c ELSE [s2c EXCEPT ![cur] = 0]
  /\ cur' = None

(* _handle_disconnect of thread t, up to the change of state: nothing to do *)
(* if the state says so, else disconnect.                                   *)
Lost(t, after) ==
  IF state = "disconnected"
    THEN /\ th' = [th EXCEPT ![t] = GoesOn(t, after)]
         /\ UNCHANGED <<state, stop, subscribed, cur, cli, s2c>>
    ELSE /\ Disconnect /\ stop' = TRUE
         /\ th' = [th EXCEPT ![t].pc = "again", ![t].sock = None, ![t].after = after]

(* As below, with the stop event left as it is. *)
BeginConnect_KeepsStop(t) ==
  LET looping == th[t].kind \in {"auto", "retry"}
  IN
  /\ At(t, {"worker", "orphan", "auto", "retry"}, "begin")
  /\ IF looping /\ stop
       THEN /\ th' = [th EXCEPT ![t] = Free]
            /\ UNCHANGED client
       ELSE /\ host' = th[t].host /\ stop' = stop /\ state' = "connecting"
            /\ th' = [th EXCEPT ![t].pc = "opening", ![t].tries = @ + 1]
            /\ UNCHANGED <<subscribed, cur, recvThread>>
  /\ UNCHANGED <<ui, network, server, wires, bounds, madeBy>>

(* connect, up to the blocking call.  The reconnect loops look at the stop  *)
(* event first.                                                             *)
BeginConnect(t) ==
  LET looping == th[t].kind \in {"auto", "retry"}
  IN
  /\ At(t, {"worker", "orphan", "auto", "retry"}, "begin")
  /\ IF looping /\ stop
       THEN /\ th' = [th EXCEPT ![t] = Free]
            /\ UNCHANGED client
       ELSE /\ host' = th[t].host /\ stop' = FALSE /\ state' = "connecting"
            /\ th' = [th EXCEPT ![t].pc = "opening", ![t].tries = @ + 1]
            /\ UNCHANGED <<subscribed, cur, recvThread>>
  /\ UNCHANGED <<ui, network, server, wires, bounds, madeBy>>

(* A thread blocked on a socket the client has closed wakes up at once,     *)
(* before anything crosses the network.                                     *)
AllAwake == \A u \in Threads : th[u].sock # None => cli[th[u].sock] = "open"

(* ... the connection is made: the socket replaces whatever was there.      *)
Connected(t) ==
  LET next == [worker |-> "profile", orphan |-> "end", auto |-> "subscribe", retry |-> "end"]
  IN
  /\ At(t, {"worker", "orphan", "auto", "retry"}, "opening")
  /\ path = th[t].host /\ AllAwake
  /\ \E k \in Socks :
       /\ Idle(k) /\ \A j \in Socks : j < k => ~Idle(j)
       /\ cur' = k /\ state' = "connected"
       /\ madeBy' = IF cur # None \/ \E u \in Threads \ {t} : Connecting(u)
                      THEN "clash" ELSE th[t].kind
       /\ cli' = [cli EXCEPT ![k] = "open"] /\ srv' = [srv EXCEPT ![k] = "open"]
       /\ live' = [live EXCEPT ![k] = TRUE]
       /\ c2s' = [c2s EXCEPT ![k] = <<>>] /\ s2c' = [s2c EXCEPT ![k] = 0]
  /\ th' = [th EXCEPT ![t] = GoesOn(t, next[th[t].kind])]
  /\ UNCHANGED <<stop, subscribed, recvThread, host, ui, path, net, subscribers, bounds>>

(* ... or fails; a loop waits and tries again, up to MaxRetries times.      *)
ConnectFails(t) ==
  LET again == th[t].kind \in {"auto", "retry"} /\ th[t].tries < MaxRetries
  IN
  /\ At(t, {"worker", "orphan", "auto", "retry"}, "opening")
  /\ path # th[t].host
  /\ state' = "disconnected"
  /\ th' = [th EXCEPT ![t] = IF again THEN [@ EXCEPT !.pc = "begin"] ELSE Free]
  /\ UNCHANGED <<stop, subscribed, cur, recvThread, host, ui, network, server, wires, bounds, madeBy>>

-----------------------------------------------------------------------------
(* send_command of a connecting thread: the sensor profile, then subscribe. *)
(* A reply is awaited only if the client does not think it is subscribed.   *)
Request(t) ==
  LET asks   == th[t].pc
      line   == IF asks = "profile" THEN "query" ELSE "subscribe"
      waits  == IF asks = "profile" THEN "profile reply" ELSE "subscribe reply"
      next   == IF asks = "profile" THEN "subscribe" ELSE "receive"
      ok     == state = "connected" /\ cur # None
      skip   == asks = "subscribe" /\ state # "connected"   \* subscribe returns at once
  IN
  /\ Alive(t) /\ asks \in {"profile", "subscribe"}
  /\ ok /\ cli[cur] = "open" => Len(c2s[cur]) < Buffer
  /\ c2s' = IF ok /\ cli[cur] = "open" THEN [c2s EXCEPT ![cur] = Append(@, line)] ELSE c2s
  /\ th' = [th EXCEPT ![t] =
             IF skip THEN Free
             ELSE IF ~ok THEN [@ EXCEPT !.pc = next]
             ELSE IF subscribed THEN [@ EXCEPT !.pc = next]
             ELSE [@ EXCEPT !.pc = waits, !.sock = cur]]
  /\ UNCHANGED <<client, ui, network, server, cli, s2c, bounds, madeBy>>

AfterRequest(t) == IF th[t].pc = "profile reply" THEN "subscribe" ELSE "receive"
Awaits(t)       == Alive(t) /\ th[t].pc \in {"profile reply", "subscribe reply"}
Receiving(t)    == At(t, {"recv"}, "reading")
Reading(t)      == Awaits(t) \/ Receiving(t)

(* What a blocked readline comes back with. *)
HasLine(k)  == cli[k] = "open" /\ live[k] /\ s2c[k] > 0
AtEnd(k)    == cli[k] # "open" \/ (live[k] /\ srv[k] # "open" /\ s2c[k] = 0)
Silent(k)   == ~live[k] \/ (s2c[k] = 0 /\ c2s[k] = <<>> /\ k \notin subscribers)

(* The reply arrives (or the first line does, whatever it is). *)
Reply(t) ==
  LET k == th[t].sock
  IN
  /\ Awaits(t) /\ HasLine(k)
  /\ s2c' = [s2c EXCEPT ![k] = @ - 1]
  /\ th' = [th EXCEPT ![t] = GoesOn(t, AfterRequest(t))]
  /\ UNCHANGED <<client, ui, network, server, cli, c2s, bounds, madeBy>>

(* Time-out or end of file: _handle_disconnect, then go on.  A reply may    *)
(* also be late.                                                            *)
NoReply(t) ==
  LET k    == th[t].sock
      late == ~AtEnd(k) /\ ~Silent(k)
  IN
  /\ Awaits(t)
  /\ late => faults < MaxFaults
  /\ faults' = IF late THEN faults + 1 ELSE faults
  /\ Lost(t, AfterRequest(t))
  /\ UNCHANGED <<recvThread, host, ui, network, server, c2s, flows, madeBy>>

(* The end of subscribe: whatever the reply was, the client takes itself    *)
(* for subscribed, and starts a receiving thread if none is alive.          *)
StartReceiving(t) ==
  LET have == Alive(recvThread) /\ th[recvThread].kind = "recv"
  IN
  /\ Alive(t) /\ th[t].pc = "receive"
  /\ subscribed' = TRUE
  /\ IF have
       THEN /\ UNCHANGED recvThread
            /\ th' = [th EXCEPT ![t] = Free]
       ELSE \E u \in Threads :
              /\ FreeSlot(u)
              /\ recvThread' = u
              /\ th' = [th EXCEPT ![t] = Free, ![u] = Thread("recv", "loop", host)]
  /\ UNCHANGED <<state, stop, cur, host, ui, network, server, wires, bounds, madeBy>>

-----------------------------------------------------------------------------
(* _recv_loop: look at the stop event and at the current file ... *)
RecvLoop(t) ==
  /\ At(t, {"recv"}, "loop")
  /\ th' = [th EXCEPT ![t] = IF stop \/ cur = None THEN Free
                             ELSE [@ EXCEPT !.pc = "reading", !.sock = cur]]
  /\ UNCHANGED <<client, ui, network, server, wires, bounds, madeBy>>

(* ... read a line and dispatch it ... *)
RecvLine(t) ==
  LET k == th[t].sock
  IN
  /\ Receiving(t) /\ HasLine(k)
  /\ s2c' = [s2c EXCEPT ![k] = @ - 1]
  /\ th' = [th EXCEPT ![t] = GoesOn(t, "loop")]
  /\ UNCHANGED <<client, ui, network, server, cli, c2s, bounds, madeBy>>

(* ... or fail: after two time-outs in any case, after an error unless the  *)
(* stop event is set.                                                       *)
RecvFails(t) ==
  LET k == th[t].sock
  IN
  /\ Receiving(t)
  /\ AtEnd(k) \/ Silent(k)
  /\ IF AtEnd(k) /\ stop
       THEN th' = [th EXCEPT ![t] = Free] /\ UNCHANGED <<client, cli, s2c>>
       ELSE Lost(t, "end")
  /\ UNCHANGED <<recvThread, host, ui, network, server, c2s, bounds, madeBy>>

(* The end of _handle_disconnect: clear the stop event, reconnect. *)
LostAgain(t) ==
  /\ Alive(t) /\ th[t].pc = "again"
  /\ stop' = FALSE
  /\ \E u \in Threads :
       /\ FreeSlot(u)
       /\ th' = [th EXCEPT ![t] = GoesOn(t, th[t].after), ![u] = Thread("auto", "begin", host)]
  /\ UNCHANGED <<state, subscribed, cur, recvThread, host, ui, network, server, wires, bounds, madeBy>>

-----------------------------------------------------------------------------
(* The user.  _do_connect cancels the connect worker that may be running:   *)
(* the call it is in runs to its end, without what would follow.            *)
Cancelled(t) ==
  IF th[t].pc \in {"profile", "subscribe"} THEN Free ELSE [th[t] EXCEPT !.kind = "orphan"]

DoConnect(h) ==
  \E u \in Threads :
    /\ FreeSlot(u)
    /\ th' = [t \in Threads |->
               IF t = u THEN Thread("worker", "begin", h)
               ELSE IF th[t].kind = "worker" THEN Cancelled(t) ELSE th[t]]

(* action_reconnect: disconnect, then the dialog picks the address. *)
UserReconnects ==
  /\ "reconnect" \in Flows /\ ui = "idle" /\ flows < MaxFlows
  /\ Disconnect /\ stop' = TRUE
  /\ ui' = "dialog" /\ flows' = flows + 1
  /\ UNCHANGED <<recvThread, host, th, network, server, c2s, faults, madeBy>>

DialogPicks ==
  /\ ui = "dialog" /\ path # None
  /\ DoConnect(path)
  /\ ui' = "idle"
  /\ UNCHANGED <<client, network, server, wires, bounds, madeBy>>

(* _switch_pi: disconnect, clear the stop event, connect. *)
UserSwitches ==
  /\ "switch" \in Flows /\ ui = "idle" /\ flows < MaxFlows
  /\ Disconnect /\ stop' = FALSE
  /\ DoConnect(host)
  /\ flows' = flows + 1
  /\ UNCHANGED <<recvThread, host, ui, network, server, c2s, faults, madeBy>>

(* _on_network_mode_confirm("ap"): a subscribed client does not wait for    *)
(* the acknowledgement; then reconnect_to the gateway.                      *)
UserFlips ==
  /\ "flip" \in Flows /\ ui = "idle" /\ flows < MaxFlows /\ net = "client"
  /\ state = "connected" /\ subscribed /\ cur # None
  /\ c2s' = [c2s EXCEPT ![cur] = Append(@, "flip")]
  /\ Disconnect /\ stop' = FALSE
  /\ \E u \in Threads : FreeSlot(u) /\ th' = [th EXCEPT ![u] = Thread("retry", "begin", "gateway")]
  /\ flows' = flows + 1
  /\ UNCHANGED <<recvThread, host, ui, network, server, faults, madeBy>>

-----------------------------------------------------------------------------
(* The thread of a connection reads a command, dispatches it and sends the  *)
(* reply; a send that fails ends the thread.                                *)
Full(k) == s2c[k] >= Buffer

Dispatch(k) ==
  LET command == Head(c2s[k])
  IN
  /\ srv[k] = "open" /\ live[k] /\ c2s[k] # <<>>
  /\ c2s' = [c2s EXCEPT ![k] = Tail(@)]
  /\ net' = IF command = "flip" THEN "flipping" ELSE net
  /\ IF cli[k] = "open"
       THEN /\ s2c' = [s2c EXCEPT ![k] = IF Full(k) THEN @ ELSE @ + 1]
            /\ subscribers' = IF command = "subscribe" THEN subscribers \cup {k} ELSE subscribers
            /\ UNCHANGED srv
       ELSE /\ srv' = [srv EXCEPT ![k] = "closed"]
            /\ subscribers' = subscribers \ {k}
            /\ UNCHANGED s2c
  /\ UNCHANGED <<client, th, ui, path, live, cli, bounds, madeBy>>

(* It ends at the client's end of file. *)
ClientGone(k) ==
  /\ srv[k] = "open" /\ live[k] /\ cli[k] = "closed" /\ c2s[k] = <<>>
  /\ srv' = [srv EXCEPT ![k] = "closed"]
  /\ subscribers' = subscribers \ {k}
  /\ UNCHANGED <<client, th, ui, network, wires, bounds, madeBy>>

(* As below, with a sendall that waits for ever in vain. *)
Broadcast_NoTimeout ==
  LET gone  == {k \in subscribers : (cli[k] # "open" /\ live[k])}
      stall == \E k \in gone : HasLine(k) /\ \E t \in Threads : Reading(t) /\ th[t].sock = k
  IN
  /\ subscribers # {}
  /\ stall => faults < MaxFaults
  /\ s2c' = [k \in Socks |-> IF k \in subscribers \ gone THEN (IF Full(k) THEN s2c[k] ELSE s2c[k] + 1) ELSE s2c[k]]
  /\ subscribers' = subscribers \ gone
  /\ srv' = [k \in Socks |-> IF k \in gone THEN "closed" ELSE srv[k]]
  /\ faults' = IF stall THEN faults + 1 ELSE faults
  /\ UNCHANGED <<client, th, ui, network, cli, c2s, flows, madeBy>>

(* One round of the broadcast loop.  A subscriber that takes nothing for    *)
(* 0.2 s is dropped.                                                        *)
Broadcast ==
  LET gone  == {k \in subscribers : (cli[k] # "open" /\ live[k]) \/ Full(k)}
      stall == \E k \in gone : HasLine(k) /\ \E t \in Threads : Reading(t) /\ th[t].sock = k
  IN
  /\ subscribers # {}
  /\ stall => faults < MaxFaults
  /\ s2c' = [k \in Socks |-> IF k \in subscribers \ gone THEN s2c[k] + 1 ELSE s2c[k]]
  /\ subscribers' = subscribers \ gone
  /\ srv' = [k \in Socks |-> IF k \in gone THEN "closed" ELSE srv[k]]
  /\ faults' = IF stall THEN faults + 1 ELSE faults
  /\ UNCHANGED <<client, th, ui, network, cli, c2s, flows, madeBy>>

-----------------------------------------------------------------------------
(* The network: the deferred flip, the laptop joining the access point, and *)
(* cuts of the path, from which no end ever hears.                          *)
NoneLive == [k \in Socks |-> FALSE]

FlipHappens ==
  /\ net = "flipping"
  /\ net' = "ap" /\ path' = None /\ live' = NoneLive
  /\ UNCHANGED <<client, th, ui, server, wires, bounds, madeBy>>

LaptopJoins ==
  /\ net = "ap" /\ path = None
  /\ path' = "gateway"
  /\ UNCHANGED <<client, th, ui, net, live, server, wires, bounds, madeBy>>

PathCut ==
  /\ path = "lan" /\ faults < MaxFaults
  /\ path' = None /\ live' = NoneLive /\ faults' = faults + 1
  /\ UNCHANGED <<client, th, ui, net, server, wires, flows, madeBy>>

PathBack ==
  /\ path = None /\ net # "ap"
  /\ path' = "lan"
  /\ UNCHANGED <<client, th, ui, net, live, server, wires, bounds, madeBy>>

-----------------------------------------------------------------------------
ClientThread(t) ==
  \/ BeginConnect(t) \/ Connected(t) \/ ConnectFails(t)
  \/ Request(t) \/ Reply(t) \/ NoReply(t) \/ StartReceiving(t)
  \/ RecvLoop(t) \/ RecvLine(t) \/ RecvFails(t) \/ LostAgain(t)

ServerThread(k) == Dispatch(k) \/ ClientGone(k)

Next ==
  \/ \E t \in Threads : ClientThread(t)
  \/ UserReconnects \/ UserSwitches \/ UserFlips \/ DialogPicks
  \/ \E k \in Socks : ServerThread(k)
  \/ Broadcast
  \/ FlipHappens \/ LaptopJoins \/ PathCut \/ PathBack

Spec == Init /\ [][Next]_vars

Fairness ==
  /\ \A t \in Threads : WF_vars(ClientThread(t))
  /\ \A k \in Socks : WF_vars(ServerThread(k))
  /\ WF_vars(DialogPicks) /\ WF_vars(Broadcast)
  /\ WF_vars(FlipHappens) /\ WF_vars(LaptopJoins) /\ WF_vars(PathBack)

FairSpec == Spec /\ Fairness

Pcs == {"begin", "opening", "profile", "profile reply", "subscribe", "subscribe reply",
        "receive", "loop", "reading", "again", "end"}

TypeOK ==
  /\ state \in {"disconnected", "connecting", "connected"}
  /\ stop \in BOOLEAN /\ subscribed \in BOOLEAN
  /\ cur \in Socks \cup {None} /\ recvThread \in Threads \cup {None} /\ host \in Hosts
  /\ th \in [Threads -> [kind : {"free", "worker", "orphan", "auto", "retry", "recv"}, pc : Pcs,
                         sock : Socks \cup {None}, host : Hosts, tries : 0..MaxRetries, after : Pcs]]
  /\ ui \in {"idle", "dialog"}
  /\ path \in Hosts \cup {None} /\ net \in {"client", "flipping", "ap"}
  /\ live \in [Socks -> BOOLEAN]
  /\ cli \in [Socks -> {"none", "open", "closed"}] /\ srv \in [Socks -> {"none", "open", "closed"}]
  /\ subscribers \subseteq Socks /\ s2c \in [Socks -> 0..Buffer]
  /\ \A k \in Socks : Len(c2s[k]) <= Buffer + 1
  /\ flows \in 0..MaxFlows /\ faults \in 0..MaxFaults

(* Nothing is under way: no thread connects, and the user waits. *)
AtRest ==
  /\ state = "connected" /\ ui = "idle"
  /\ \A t \in Threads : th[t].kind \in {"free", "recv"}

(* The receiving thread reads the connection the commands go out on, or is  *)
(* about to find out that the one it reads has ended.                       *)
IsFed ==
  /\ Alive(recvThread) /\ th[recvThread].kind = "recv"
  /\ Receiving(recvThread) => LET k == th[recvThread].sock IN k = cur \/ AtEnd(k)

(* A client that comes to rest showing "Connected" receives the state       *)
(* stream, whatever was cut, late or interrupted before: a dead socket, a   *)
(* stop event left set or a receiving thread that ended are never the last  *)
(* word (client.py 88-128, 252-270, 312-344, 397-413).  Said of connections *)
(* made by the connect worker and the automatic reconnect.                  *)
RestIsFed == AtRest /\ madeBy \in {"worker", "auto"} => IsFed

(* The same of every connection: after reconnect_to nobody subscribes       *)
(* (client.py 153-180).                                                     *)
ConnectedIsFed == AtRest => IsFed

(* A subscriber whose client has closed its end, reachable or not, does not *)
(* stay on the list of the broadcast loop (command_server.py 561-584).      *)
DeadSubscribersGo == []<>(\A k \in subscribers : cli[k] # "closed")

(* Bound of the checks: threads past the check of the stop event take turns *)
(* to connect, and there is one automatic reconnect at a time.  Without it  *)
(* two connections can be made over each other.                             *)
TakeTurns ==
  /\ madeBy # "clash"
  /\ \A t, u \in Threads : Connecting(t) /\ Connecting(u) => t = u
  /\ \A t, u \in Threads : th[t].kind = "auto" /\ th[u].kind = "auto" => t = u
=============================================================================
