------------------------------- MODULE PiFinder -------------------------------
(***************************************************************************)
(* How the terminal client finds a Pi: the search that probes one kind of  *)
(* address after the other (tui/discovery.py), the association with the    *)
(* access point of a Pi (tui/wifi_scan.py), the two dialogs that start     *)
(* them in threads of their own and the application that acts on their     *)
(* results (tui/app.py, tui/widgets/pi_picker.py).                         *)
(*                                                                         *)
(* Every access point has the same address, the gateway: which Pi answers  *)
(* there depends on the network the laptop is in.  A Pi is off, shares a   *)
(* network with the laptop, or has its own access point.  The socket and   *)
(* its threads are the module TuiLink: here a connection is the Pi it      *)
(* reaches.                                                                *)
(***************************************************************************)
EXTENDS Naturals, Sequences, FiniteSets, SequencesExt

CONSTANTS
  None,
  Pis,
  Kind,       \* how a Pi is addressed: by its "fleet" name, the "legacy" name, or a "wired" address
  Searches,   \* threads that search
  Joins,      \* threads that join an access point
  MaxFaults,  \* bound on Pis and laptops that move
  MaxScreens  \* bound on the dialogs the user opens

PiFinderAssumption ==
  /\ None \notin Pis /\ Kind \in [Pis -> {"fleet", "legacy", "wired"}]
  /\ {MaxFaults, MaxScreens} \subseteq Nat

VARIABLES
  place,    \* where each Pi is: "off", "lan" or "ap"
  wifi,     \* the network of the laptop: "lan" or the access point of a Pi
  queues,   \* whether the system only queues an association, as Windows does
  due,      \* the association it has queued
  listed,   \* the access points of the last scan: _fleet_cache
  cached,   \* ~/.switching-circuit-host
  screens,  \* the dialogs that are open, the one in front last
  opened,   \* number of dialogs opened
  search,
  join,
  target,   \* PiClient._host
  client,   \* the connection: the Pi it reaches, and by which address
  trying,   \* addresses a connection is being made to
  retrying, \* _auto_reconnect or connect_with_retry is at work
  name,     \* _current_pi_name
  steady,   \* history: addresses that have answered throughout each search
  faults

net  == <<place, wifi, queues, due, faults>>
ui   == <<listed, screens, opened, name>>
conn == <<target, client, trying, retrying>>
vars == <<net, ui, conn, cached, search, join, steady>>

Gateway == "gateway"
Hosts   == Pis \cup {Gateway}
Chain   == <<"cached", "gateway", "fleet", "legacy", "wired">>
App     == 0   \* the application itself, as the one that waits for a search

\* The Pi that answers at an address, for a laptop in network w.
Answers(pl, w, h) ==
  IF h = Gateway THEN IF w \in Pis /\ pl[w] = "ap" THEN w ELSE None
  ELSE IF \/ Kind[h] = "wired" /\ pl[h] # "off"
          \/ pl[h] = "lan" /\ w = "lan"
          \/ pl[h] = "ap" /\ w = h
       THEN h ELSE None
Reaches(h) == Answers(place, wifi, h)
Live(pl, w) == {h \in Hosts : Answers(pl, w, h) # None}

Begin(s, by) ==
  /\ search[s].at = 0
  /\ search' = [search EXCEPT ![s] = [at |-> 1, by |-> by, found |-> None]]
  /\ steady' = [steady EXCEPT ![s] = Live(place, wifi)]

Init ==
  /\ place \in [Pis -> {"off", "lan", "ap"}] /\ wifi \in Pis \cup {"lan"} /\ queues \in BOOLEAN /\ due = None
  /\ listed = {} /\ cached \in Hosts \cup {None}
  /\ screens = <<>> /\ opened = 0
  /\ \E s \in Searches :     \* discover_async in on_mount
       /\ search = [t \in Searches |->
                      [at |-> IF t = s THEN 1 ELSE 0, by |-> App, found |-> None]]
       /\ steady = [t \in Searches |-> IF t = s THEN Live(place, wifi) ELSE {}]
  /\ join = [j \in Joins |-> [at |-> "none", ssid |-> None, by |-> App, via |-> None]]
  /\ target = None /\ client = None /\ trying = {} /\ retrying = FALSE
  /\ name = None /\ faults = 0

-----------------------------------------------------------------------------
(* The world moves.                                                        *)

Move(pl, w) ==
  /\ place' = pl /\ wifi' = w
  /\ steady' = [s \in Searches |-> steady[s] \cap Live(pl, w)]

PiMoves ==
  /\ faults < MaxFaults /\ faults' = faults + 1
  /\ \E p \in Pis, x \in {"off", "lan", "ap"} : x # place[p] /\ Move([place EXCEPT ![p] = x], wifi)
  /\ UNCHANGED <<ui, conn, queues, due, cached, search, join>>

LaptopRoams ==
  /\ faults < MaxFaults /\ faults' = faults + 1
  /\ \E w \in {"lan"} \cup {p \in Pis : place[p] = "ap"} : w # wifi /\ Move(place, w)
  /\ UNCHANGED <<ui, conn, queues, due, cached, search, join>>

\* The association the system had queued is made, or comes to nothing.
SystemJoins ==
  /\ due # None /\ due' = None
  /\ \/ place[due] = "ap" /\ Move(place, due)
     \/ UNCHANGED <<place, wifi, steady>>
  /\ UNCHANGED <<ui, conn, queues, cached, search, join, faults>>

-----------------------------------------------------------------------------
(* The search.                                                             *)

\* mutant: a remembered address, though it does not answer, is all that is tried.
Candidates_Cached(step) ==
  CASE step = "cached"  -> {cached} \ {None}
    [] step = "gateway" -> {Gateway}
    [] OTHER            -> IF cached = None THEN {p \in Pis : Kind[p] = step} ELSE {}

Candidates(step) ==
  CASE step = "cached"  -> {cached} \ {None}
    [] step = "gateway" -> {Gateway}
    [] OTHER            -> {p \in Pis : Kind[p] = step}

Probing(s) == search[s].at \in DOMAIN Chain /\ search[s].found = None

\* The first candidate to answer ends the search, and is remembered.
ProbeHits(s) ==
  /\ Probing(s)
  /\ \E h \in Candidates(Chain[search[s].at]) :
       /\ Reaches(h) # None
       /\ search' = [search EXCEPT ![s].found = h]
       /\ cached' = h
  /\ UNCHANGED <<net, ui, conn, join, steady>>

ProbeMisses(s) ==
  /\ Probing(s)
  /\ \A h \in Candidates(Chain[search[s].at]) : Reaches(h) = None
  /\ search' = [search EXCEPT ![s].at = @ + 1]
  /\ UNCHANGED <<net, ui, conn, cached, join, steady>>

-----------------------------------------------------------------------------
(* The application.                                                        *)

\* current_ssid, which some systems answer with nothing.
Ssid == {wifi, None}

\* The name is only taken from the network when there is none yet.
DoConnect(h) ==
  /\ target' = h /\ trying' = trying \cup {h} /\ retrying' = FALSE
  /\ IF name # None THEN UNCHANGED name
     ELSE \E w \in Ssid : name' = IF w \in Pis THEN w ELSE None

Open(kind) ==
  /\ opened < MaxScreens /\ opened' = opened + 1
  /\ \E w \in Ssid :
       screens' = Append(screens, [kind |-> kind, n |-> opened + 1, here |-> w,
                                   offers |-> IF kind = "picker" THEN listed ELSE {}])

\* The dialog in front, if it is of that kind.
InFront(kind) == screens # <<>> /\ Last(screens).kind = kind

\* A result reaches its dialog only while that is in front.
Hears(n) == screens # <<>> /\ Last(screens).n = n
Dismiss  == screens' = Front(screens)

\* The search reports to the dialog that started it, if it is in front, or
\* to the application: a host is connected to, and without one the user is
\* asked.
Done(s) == [search EXCEPT ![s] = [at |-> 0, by |-> App, found |-> None]]

AppHears(s) ==
  /\ search[s].by = App /\ search[s].at # 0 /\ ~Probing(s)
  /\ \/ /\ search[s].found # None
        /\ DoConnect(search[s].found)
        /\ UNCHANGED <<client, screens, opened>>
     \/ /\ search[s].found = None
        /\ Open("dialog")
        /\ UNCHANGED <<conn, name>>
  /\ search' = Done(s)
  /\ UNCHANGED <<net, listed, cached, join, steady>>

DialogHears(s) ==
  /\ search[s].by # App /\ search[s].at # 0 /\ ~Probing(s)
  /\ IF Hears(search[s].by) /\ search[s].found # None
     THEN DoConnect(search[s].found) /\ Dismiss
     ELSE UNCHANGED <<target, trying, retrying, name, screens>>
  /\ search' = Done(s)
  /\ UNCHANGED <<net, client, listed, opened, cached, join, steady>>

\* An attempt to connect ends; a success is remembered if no other attempt
\* has replaced it.
ConnectEnds(h) ==
  /\ h \in trying /\ trying' = trying \ {h}
  /\ IF Reaches(h) = None THEN UNCHANGED <<client, cached>>
     ELSE /\ client' = [pi |-> Reaches(h), host |-> h]
          /\ cached' = IF h = target THEN h ELSE cached
  /\ UNCHANGED <<net, ui, target, retrying, search, join, steady>>

\* The connection is lost, and the client tries the same address again.
ConnectionLost ==
  /\ client # None /\ Reaches(client.host) # client.pi
  /\ client' = None /\ retrying' = TRUE
  /\ UNCHANGED <<net, ui, target, trying, cached, search, join, steady>>

Reconnected ==
  /\ retrying /\ client = None /\ retrying' = FALSE
  /\ \/ Reaches(target) # None /\ client' = [pi |-> Reaches(target), host |-> target]
     \/ Reaches(target) = None /\ UNCHANGED client     \* max_retries
  /\ UNCHANGED <<net, ui, target, trying, cached, search, join, steady>>

-----------------------------------------------------------------------------
(* The user.                                                               *)

\* action_reconnect: the dialog opens and searches.
OpenDialog ==
  /\ screens = <<>> /\ Open("dialog")
  /\ client' = None /\ retrying' = FALSE
  /\ \E s \in Searches : Begin(s, opened + 1)
  /\ UNCHANGED <<net, listed, name, target, trying, cached, join>>

\* Enter in an empty field searches again; an address is connected to.
SearchAgain ==
  /\ InFront("dialog")
  /\ \E s \in Searches : Begin(s, Last(screens).n)
  /\ UNCHANGED <<net, ui, conn, cached, join>>

EnterAddress ==
  /\ InFront("dialog") /\ Dismiss
  /\ \E h \in Hosts : DoConnect(h)
  /\ UNCHANGED <<net, client, listed, opened, cached, search, join, steady>>

Cancel ==
  /\ screens # <<>> /\ Dismiss
  /\ UNCHANGED <<net, conn, listed, opened, name, cached, search, join, steady>>

OpenPicker ==
  /\ screens = <<>> /\ Open("picker")
  /\ UNCHANGED <<net, conn, listed, name, cached, search, join, steady>>

\* What scan_pi_aps lists: the access points in the air or, when the command
\* of the system fails, none.
Scans == {{p \in Pis : place[p] = "ap"}, {}}

\* The thread that keeps the list warm, from the search at the start on.
Prescan ==
  /\ listed' \in Scans \ {{}, listed}
  /\ UNCHANGED <<net, conn, screens, opened, name, cached, search, join, steady>>

\* The picker scans for itself, and for the list.
PickerScan ==
  /\ InFront("picker")
  /\ listed' \in Scans
  /\ screens' = [screens EXCEPT ![Len(screens)].offers = listed']
  /\ screens' # screens \/ listed' # listed
  /\ UNCHANGED <<net, conn, opened, name, cached, search, join, steady>>

\* The dialog offers every Pi of the fleet, whether a scan has seen it or
\* not, the picker those of its scan other than the one the laptop was on
\* when it was opened.
Offered == IF screens = <<>> THEN {}
           ELSE IF InFront("dialog") THEN Pis
           ELSE Last(screens).offers \ {Last(screens).here}

\* Neither asks whether a join is already under way.
StartJoin(j) ==
  /\ join[j].at = "none"
  /\ \E p \in Offered :
       join' = [join EXCEPT ![j] = [at |-> "associate", ssid |-> p, by |-> Last(screens).n, via |-> None]]
  /\ UNCHANGED <<net, ui, conn, cached, search, steady>>

\* The Pi is told to leave its access point, or to open one.
FlipToClient ==
  /\ screens = <<>> /\ client # None
  /\ client' = None /\ retrying' = FALSE
  /\ \E s \in Searches : Begin(s, App)
  /\ UNCHANGED <<net, ui, target, trying, cached, join>>

FlipToAp ==
  /\ screens = <<>> /\ client # None
  /\ client' = None /\ retrying' = TRUE /\ target' = Gateway
  /\ UNCHANGED <<net, ui, trying, cached, search, join, steady>>

-----------------------------------------------------------------------------
(* Joining an access point: associate, then wait for the gateway to answer.*)

\* Under macOS and Linux the command returns with the association made;
Associate(j) ==
  /\ join[j].at = "associate" /\ ~queues
  /\ place[join[j].ssid] = "ap"
  /\ Move(place, join[j].ssid)
  /\ join' = [join EXCEPT ![j].at = "probe"]
  /\ UNCHANGED <<ui, conn, queues, due, cached, search, faults>>

\* under Windows, as soon as it is queued.
Enqueue(j) ==
  /\ join[j].at = "associate" /\ queues
  /\ due' = join[j].ssid
  /\ join' = [join EXCEPT ![j].at = "probe"]
  /\ UNCHANGED <<place, wifi, queues, ui, conn, cached, search, steady, faults>>

\* It ends in an error, or takes too long.
AssociateFails(j) ==
  /\ join[j].at = "associate"
  /\ join' = [join EXCEPT ![j].at = "failed"]
  /\ UNCHANGED <<net, ui, conn, cached, search, steady>>

GatewayAnswers(j) ==
  /\ join[j].at = "probe"
  /\ join' = IF Reaches(Gateway) # None
             THEN [join EXCEPT ![j].at = "ok", ![j].via = Reaches(Gateway)]
             ELSE [join EXCEPT ![j].at = "failed"]
  /\ UNCHANGED <<net, ui, conn, cached, search, steady>>

\* The thread reports to its dialog, if that is in front.
JoinEnds(j) ==
  /\ join[j].at \in {"ok", "failed"}
  /\ join' = [join EXCEPT ![j] = [at |-> "none", ssid |-> None, by |-> App, via |-> None]]
  /\ IF join[j].at = "ok" /\ Hears(join[j].by)
     THEN /\ Dismiss
          /\ IF InFront("dialog")
             THEN DoConnect(Gateway) /\ UNCHANGED <<client, cached>>
             ELSE /\ name' = join[j].ssid /\ client' = None /\ cached' = Gateway
                  /\ target' = Gateway /\ trying' = trying \cup {Gateway} /\ retrying' = FALSE
     ELSE UNCHANGED <<conn, screens, name, cached>>
  /\ UNCHANGED <<net, listed, opened, search, steady>>

-----------------------------------------------------------------------------
Next ==
  \/ PiMoves \/ LaptopRoams \/ SystemJoins \/ ConnectionLost \/ Reconnected
  \/ OpenDialog \/ SearchAgain \/ EnterAddress \/ Cancel \/ OpenPicker
  \/ Prescan \/ PickerScan
  \/ FlipToClient \/ FlipToAp
  \/ \E h \in Hosts : ConnectEnds(h)
  \/ \E s \in Searches : ProbeHits(s) \/ ProbeMisses(s) \/ AppHears(s) \/ DialogHears(s)
  \/ \E j \in Joins : StartJoin(j) \/ Associate(j) \/ Enqueue(j) \/ AssociateFails(j)
                      \/ GatewayAnswers(j) \/ JoinEnds(j)

Spec == Init /\ [][Next]_vars

-----------------------------------------------------------------------------
TypeOK ==
  /\ place \in [Pis -> {"off", "lan", "ap"}] /\ wifi \in Pis \cup {"lan"}
  /\ queues \in BOOLEAN /\ due \in Pis \cup {None} /\ name \in Pis \cup {None} /\ listed \subseteq Pis
  /\ {cached, target} \subseteq Hosts \cup {None} /\ trying \subseteq Hosts
  /\ client \in {None} \cup [pi : Pis, host : Hosts] /\ retrying \in BOOLEAN
  /\ opened \in 0..MaxScreens
  /\ screens \in BoundedSeq([kind : {"dialog", "picker"}, n : 1..MaxScreens,
                             here : Pis \cup {"lan", None}, offers : SUBSET Pis], MaxScreens)
  /\ \A s \in Searches : search[s].at \in 0..Len(Chain) + 1 /\ steady[s] \subseteq Hosts
  /\ \A j \in Joins : join[j].at \in {"none", "associate", "probe", "ok", "failed"}

\* A search that reports that there is no server missed none: no address it
\* could have used answered all the while (discover, "Find the Pi server").
NothingMissed ==
  \A s \in Searches :
    search[s].at = Len(Chain) + 1 /\ search[s].found = None => steady[s] = {}

\* A join that reports success has reached the Pi whose access point it was
\* asked for: "A successful TCP connect to 10.42.0.1:5555 proves the whole chain
\* worked end to end" (wifi_scan.py 476-477).  It does not where the system only
\* queues the association and the laptop is on the access point of another Pi.
JoinedIsOn ==
  \A j \in Joins : join[j].at = "ok" => join[j].via = join[j].ssid
================================================================================
