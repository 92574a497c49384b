--------------------------------- MODULE Fleet ---------------------------------
(***************************************************************************)
(* The fleet dashboard: FleetStateStore, the APCycler thread that visits   *)
(* the access points of the Pis one after the other, and the web threads   *)
(* that queue commands and ask for refreshes (fleet/state_store.py,        *)
(* fleet/ap_cycler.py, fleet/poller.py, fleet/web/app.py).                 *)
(*                                                                         *)
(* All Pis answer at the same address, AP_GATEWAY: which Pi a poll or a    *)
(* command reaches is decided by the access point the adapter is on.  What *)
(* a Pi would report is abstracted to how many commands it has executed.   *)
(***************************************************************************)
EXTENDS Naturals, FiniteSets, SequencesExt

CONSTANTS
  Pis,
  MaxCommands,  \* bound on the commands queued
  MaxRepolls,   \* bound on the refreshes asked for
  NetFails,     \* whether joins, polls, sends and replies may fail
  Roams,        \* whether the adapter may end up on another Pi's AP in a visit
  PisMove,      \* whether Pis may leave and come back
  None

FleetAssumption ==
  /\ Pis \subseteq Nat /\ IsFiniteSet(Pis)
  /\ MaxCommands \in Nat \ {0} /\ MaxRepolls \in Nat
  /\ NetFails \in BOOLEAN /\ Roams \in BOOLEAN /\ PisMove \in BOOLEAN
  /\ None \notin Nat

VARIABLES
  inRange,    \* the Pis whose access point is on the air
  executed,   \* per Pi: the numbers of the commands it executed, in order
  ap,         \* the Pi whose access point the adapter is on, or None
  commands,   \* FleetStateStore._commands: the Pi and the status of each
  status,     \* FleetStateStore._pis: the status of each known Pi, or None
  saved,      \* the state last stored for each Pi, or None
  polledOnce, \* APCycler._polled_once
  repoll,     \* APCycler._repoll_event
  pc,         \* where the cycler is
  visible,    \* the Pis seen in this cycle's scan
  order,      \* the Pis this cycle has yet to visit
  sending,    \* the drained commands of this visit that are yet to be sent, in their order
  webPc,      \* what a web thread is in the middle of: a refresh, or nothing
  repolls,    \* how many refreshes were asked for
  owed,       \* history: the Pis with a refresh no poll was begun for
  roamed      \* history: the adapter once left an access point for another

world  == <<inRange, executed, ap>>
store  == <<commands, status, saved>>
cycler == <<pc, visible, order, sending>>
web    == <<webPc, repolls>>
history == <<owed, roamed>>
vars   == <<world, store, polledOnce, repoll, cycler, web, history>>

Ids       == 1..Len(commands)
IsPending(id) == commands[id].status = "pending"
PendingPis == {commands[id].pi : id \in {i \in Ids : IsPending(i)}}

Init ==
  /\ inRange \in SUBSET Pis /\ executed = [p \in Pis |-> <<>>] /\ ap = None
  /\ commands = <<>> /\ status = [p \in Pis |-> None] /\ saved = [p \in Pis |-> None]
  /\ polledOnce = {} /\ repoll = FALSE
  /\ pc = "scan" /\ visible = {} /\ order = <<>> /\ sending = {}
  /\ webPc = "idle" /\ repolls = 0
  /\ owed = {} /\ roamed = FALSE

-----------------------------------------------------------------------------
(* The web threads. *)

(* POST /api/pi/p/command: enqueue_command *)
Enqueue(p) ==
  /\ Len(commands) < MaxCommands
  /\ commands' = Append(commands, [pi |-> p, status |-> "pending"])
  /\ UNCHANGED <<world, status, saved, polledOnce, repoll, cycler, web, history>>

(* request_repoll: forget the Pis, then set the event. *)
RequestRepoll(ps) ==
  /\ webPc = "idle" /\ repolls < MaxRepolls
  /\ repolls' = repolls + 1
  /\ polledOnce' = polledOnce \ ps
  /\ webPc' = "set"
  /\ owed' = owed \cup ps
  /\ UNCHANGED <<world, store, repoll, cycler, roamed>>

SetRepollEvent ==
  /\ webPc = "set"
  /\ repoll' = TRUE
  /\ webPc' = "idle"
  /\ UNCHANGED <<world, store, polledOnce, cycler, repolls, history>>

-----------------------------------------------------------------------------
(* The cycler thread. *)

(* _cycle_loop clears the event and scans; every Pi seen is known from now  *)
(* on, and a known Pi that was not seen is marked offline and forgotten.    *)
Scan ==
  /\ pc = "scan"
  /\ repoll' = FALSE
  /\ visible' = inRange
  /\ status' = [p \in Pis |->
       CASE p \in inRange /\ status[p] = None -> "unknown"
         [] p \notin inRange /\ status[p] # None -> "offline"
         [] OTHER -> status[p]]
  /\ polledOnce' = polledOnce \cap inRange
  /\ pc' = "list"
  /\ UNCHANGED <<world, commands, saved, order, sending, web, history>>

(* _join_list: those with a pending command first, then those not yet       *)
(* polled, both by ascending number.                                        *)
Ascending(ps) ==
  CHOOSE s \in SetToSeqs(ps) : \A i, j \in DOMAIN s : i < j => s[i] < s[j]

(* mutant: only the Pis not yet polled are visited.                         *)
JoinList_NoUrgent ==
  /\ pc = "list"
  /\ order' = Ascending(visible \ polledOnce)
  /\ pc' = "next"
  /\ UNCHANGED <<world, store, polledOnce, repoll, visible, sending, web, history>>

JoinList ==
  LET urgent == visible \cap PendingPis
  IN
  /\ pc = "list"
  /\ order' = Ascending(urgent) \o Ascending(visible \ (urgent \cup polledOnce))
  /\ pc' = "next"
  /\ UNCHANGED <<world, store, polledOnce, repoll, visible, sending, web, history>>

(* The next Pi of the list, or the end of the cycle. *)
NextVisit ==
  /\ pc = "next"
  /\ pc' = IF order = <<>> THEN "wait" ELSE "join"
  /\ UNCHANGED <<world, store, polledOnce, repoll, visible, order, sending, web, history>>

Visiting == Head(order)

(* The visit ends early: the Pi is marked offline and forgotten. *)
VisitFails ==
  /\ status' = [status EXCEPT ![Visiting] = "offline"]
  /\ polledOnce' = polledOnce \ {Visiting}
  /\ order' = Tail(order)
  /\ pc' = "next"
  /\ UNCHANGED <<commands, saved, repoll, visible, sending, web, roamed>>

Join ==
  /\ pc = "join"
  /\ \/ /\ Visiting \in inRange
        /\ ap' = Visiting
        /\ pc' = "poll"
        /\ UNCHANGED <<store, polledOnce, repoll, visible, order, sending, web, roamed>>
     \/ /\ NetFails \/ Visiting \notin inRange
        /\ VisitFails
        /\ UNCHANGED ap
  /\ UNCHANGED <<inRange, executed, owed>>

(* What answers at AP_GATEWAY: the Pi of the access point, if any. *)
Answers == ap # None /\ ap \in inRange

(* poll_status, and update_state with what it returned *)
Poll ==
  /\ pc = "poll"
  /\ owed' = owed \ {Visiting}
  /\ \/ /\ Answers
        /\ saved' = [saved EXCEPT ![Visiting] = Len(executed[ap])]
        /\ status' = [status EXCEPT ![Visiting] = "online"]
        /\ pc' = "capture"
        /\ UNCHANGED <<commands, polledOnce, repoll, visible, order, sending, web, roamed>>
     \/ (NetFails \/ ~Answers) /\ VisitFails
  /\ UNCHANGED world

(* The Pi is ticked off: _polled_once.add *)
Capture ==
  /\ pc = "capture"
  /\ polledOnce' = polledOnce \cup {Visiting}
  /\ pc' = "drain"
  /\ UNCHANGED <<world, store, repoll, visible, order, sending, web, history>>

Drain ==
  /\ pc = "drain"
  /\ sending' = {id \in Ids : IsPending(id) /\ commands[id].pi = Visiting}
  /\ commands' = [id \in Ids |-> IF id \in sending'
                                   THEN [commands[id] EXCEPT !.status = "sent"]
                                   ELSE commands[id]]
  /\ pc' = "send"
  /\ UNCHANGED <<world, status, saved, polledOnce, repoll, visible, order, web, history>>

(* The commands drained are sent one after the other, the oldest first. *)
IsNext(id) == \A other \in sending : id <= other

(* mutant: a command without a reply is queued again.                       *)
SendCommand_Requeues ==
  /\ pc = "send"
  /\ \E id \in sending, arrives \in (IF NetFails THEN {Answers, FALSE} ELSE {Answers}),
        replies \in (IF NetFails THEN BOOLEAN ELSE {TRUE}) :
       /\ IsNext(id)
       /\ executed' = IF arrives THEN [executed EXCEPT ![ap] = Append(@, id)] ELSE executed
       /\ commands' = [commands EXCEPT ![id].status =
                         IF arrives /\ replies THEN "confirmed" ELSE "pending"]
       /\ pc' = IF arrives /\ replies THEN "verify" ELSE "send"
       /\ sending' = sending \ {id}
  /\ UNCHANGED <<inRange, ap, status, saved, polledOnce, repoll, visible, order, web, history>>

(* mutant: a command that got no connection is confirmed.                   *)
SendCommand_Hopes ==
  /\ pc = "send"
  /\ \E id \in sending, arrives \in (IF NetFails THEN {Answers, FALSE} ELSE {Answers}),
        replies \in (IF NetFails THEN BOOLEAN ELSE {TRUE}) :
       /\ IsNext(id)
       /\ executed' = IF arrives THEN [executed EXCEPT ![ap] = Append(@, id)] ELSE executed
       /\ commands' = [commands EXCEPT ![id].status =
                         IF replies THEN "confirmed" ELSE "failed"]
       /\ pc' = IF arrives /\ replies THEN "verify" ELSE "send"
       /\ sending' = sending \ {id}
  /\ UNCHANGED <<inRange, ap, status, saved, polledOnce, repoll, visible, order, web, history>>

(* send_command and mark_command_result: the Pi may execute the command and *)
(* its reply may still be lost.                                             *)
SendCommand ==
  /\ pc = "send"
  /\ \E id \in sending, arrives \in (IF NetFails THEN {Answers, FALSE} ELSE {Answers}),
        replies \in (IF NetFails THEN BOOLEAN ELSE {TRUE}) :
       /\ IsNext(id)
       /\ executed' = IF arrives THEN [executed EXCEPT ![ap] = Append(@, id)] ELSE executed
       /\ commands' = [commands EXCEPT ![id].status =
                         IF arrives /\ replies THEN "confirmed" ELSE "failed"]
       /\ pc' = IF arrives /\ replies THEN "verify" ELSE "send"
       /\ sending' = sending \ {id}
  /\ UNCHANGED <<inRange, ap, status, saved, polledOnce, repoll, visible, order, web, history>>

(* The poll after a confirmed command, whose failure is ignored. *)
Verify ==
  /\ pc = "verify"
  /\ \/ /\ Answers
        /\ saved' = [saved EXCEPT ![Visiting] = Len(executed[ap])]
        /\ status' = [status EXCEPT ![Visiting] = "online"]
     \/ (NetFails \/ ~Answers) /\ UNCHANGED <<saved, status>>
  /\ pc' = "send"
  /\ UNCHANGED <<world, commands, polledOnce, repoll, visible, order, sending, web, history>>

EndVisit ==
  /\ pc = "send" /\ sending = {}
  /\ order' = Tail(order)
  /\ pc' = "next"
  /\ UNCHANGED <<world, store, polledOnce, repoll, visible, sending, web, history>>

(* _wait_for_work: woken by a refresh or a pending command, or timed out. *)
HasWork == repoll \/ PendingPis # {}

WakeEarly ==
  /\ pc = "wait" /\ HasWork
  /\ pc' = "scan"
  /\ UNCHANGED <<world, store, polledOnce, repoll, visible, order, sending, web, history>>

WaitTimesOut ==
  /\ pc = "wait" /\ ~HasWork
  /\ pc' = "scan"
  /\ UNCHANGED <<world, store, polledOnce, repoll, visible, order, sending, web, history>>

-----------------------------------------------------------------------------
(* Pis come and go, and the adapter may leave the joined access point for   *)
(* another one it knows (external).                                         *)
Move(p) ==
  /\ PisMove
  /\ inRange' = IF p \in inRange THEN inRange \ {p} ELSE inRange \cup {p}
  /\ ap' = IF ap = p THEN None ELSE ap
  /\ UNCHANGED <<executed, store, polledOnce, repoll, cycler, web, history>>

Roam(p) ==
  /\ Roams
  /\ ap # None /\ p \in inRange \ {ap}
  /\ ap' = p
  /\ roamed' = TRUE
  /\ UNCHANGED <<inRange, executed, store, polledOnce, repoll, cycler, web, owed>>

-----------------------------------------------------------------------------
Web ==
  \/ \E p \in Pis : Enqueue(p)
  \/ \E ps \in {{p} : p \in Pis} \cup {Pis} : RequestRepoll(ps)
  \/ SetRepollEvent

Cycler ==
  \/ Scan
  \/ JoinList
  \/ NextVisit
  \/ Join
  \/ Poll
  \/ Capture
  \/ Drain
  \/ SendCommand
  \/ Verify
  \/ EndVisit
  \/ WakeEarly
  \/ WaitTimesOut

Next == Web \/ Cycler \/ \E p \in Pis : Move(p) \/ Roam(p)

Spec == Init /\ [][Next]_vars

(* The cycler thread runs and a refresh that was begun is finished. *)
FairSpec == Spec /\ WF_vars(Cycler) /\ WF_vars(SetRepollEvent)

-----------------------------------------------------------------------------
TypeOK ==
  /\ inRange \subseteq Pis /\ ap \in Pis \cup {None}
  /\ executed \in [Pis -> Seq(Ids)]
  /\ commands \in Seq([pi : Pis, status : {"pending", "sent", "confirmed", "failed"}])
  /\ status \in [Pis -> {None, "unknown", "online", "offline"}]
  /\ saved \in [Pis -> 0..MaxCommands \cup {None}]
  /\ polledOnce \subseteq visible /\ visible \subseteq Pis
  /\ order \in Seq(Pis) /\ sending \subseteq Ids
  /\ pc \in {"scan", "list", "next", "join", "poll", "capture", "drain", "send", "verify", "wait"}
  /\ {repoll, roamed} \subseteq BOOLEAN /\ owed \subseteq Pis
  /\ webPc \in {"idle", "set"} /\ repolls \in 0..MaxRepolls

(* No command is executed twice, by one Pi or by two, however often Pis     *)
(* come and go and replies are lost; and the commands queued for one Pi are *)
(* executed in the order they were queued.                                  *)
ExecutedInOrder ==
  \A p \in Pis :
    /\ \A i, j \in 1..Len(executed[p]) :
         i < j /\ commands[executed[p][i]].pi = commands[executed[p][j]].pi =>
           executed[p][i] < executed[p][j]
    /\ \A q \in Pis \ {p} : ToSet(executed[p]) \cap ToSet(executed[q]) = {}

(* "Deliver it, then confirm": a confirmed command was executed, and as     *)
(* long as the adapter has never left a Pi's access point for another one   *)
(* in a visit, by the Pi it was queued for.  Once it has, any Pi that       *)
(* answers at the shared address may have executed it.                      *)
ConfirmedIsExecuted ==
  \A id \in Ids : commands[id].status = "confirmed" =>
    \E p \in Pis : (roamed \/ p = commands[id].pi) /\ id \in ToSet(executed[p])

(* The dashboard implements CommandDelivery: a command is taken up once,    *)
(* carried out at most once and never revived, however visits end and       *)
(* replies are lost (state_store.py 117-140, ap_cycler.py 251-264).         *)
Delivery == INSTANCE CommandDelivery WITH
  fate <- [id \in Ids |-> commands[id].status],
  done <- UNION {ToSet(executed[p]) : p \in Pis}

DeliversAtMostOnce == Delivery!Spec

(* request_repoll: "force a fresh poll [...] on the next cycle": while one  *)
(* is owed the cycler has not ticked the Pi off as polled.                  *)
RepollIsNotForgotten ==
  pc = "wait" => owed \cap polledOnce = {}

(* A pending command is sent in the end, if its Pi stays in range and the   *)
(* network does not fail, whatever else is queued and asked for.            *)
CommandsAreSent ==
  \A p \in Pis : <>[](p \in inRange) => []<>(p \notin PendingPis)
=============================================================================
