----------------------------- MODULE LogTransfer -----------------------------
(***************************************************************************)
(* Recordings as the terminal client keeps them: DataLogger                *)
(* (tui/data_logger.py) with its two tiers and its writer threads, and the *)
(* flows of the application around it (tui/app.py): the toggle, the stop   *)
(* that runs on an executor thread, and the offload that copies every      *)
(* recording from the Pi and deletes it there.                             *)
(*                                                                         *)
(* The files of the Pi are numbered in the order they are begun; the       *)
(* recorder behind them is the module Recorder, here no more than the file *)
(* it writes.  ssh and scp are commands that work or fail.                 *)
(***************************************************************************)
EXTENDS Naturals, Sequences, FiniteSets, FiniteSetsExt, Functions

CONSTANTS
  None,
  Files,      \* slots for recordings on the Pi
  Sessions,   \* slots for recordings on the laptop
  MaxRows,    \* rows of a recording, on either side
  MaxAsks,    \* bound on the recordings and offloads the user begins
  MaxFaults   \* bound on commands lost and copies failed

LogTransferAssumption ==
  /\ Files \subseteq Nat \ {0} /\ Sessions \subseteq Nat \ {0}
  /\ None \notin Nat
  /\ MaxRows \in Nat \ {0} /\ MaxAsks \in Nat /\ MaxFaults \in Nat

VARIABLES
  logger,    \* [tier, pi, mac]: _tier, _pi_recording and _mac_active
  busy,      \* _stop_in_progress
  stopper,   \* the executor threads in DataLogger.stop
  session,   \* the laptop recording whose queue and thread the logger holds
  mac,       \* per session: queue, rows in the file, rows accepted, the writer,
             \* and whether it was begun while a stop was still going on
  putting,   \* the UI thread is past the look of record() at _mac_active
  rows,      \* per file of the Pi: rows recorded, or None before it is begun
  writing,   \* the file the Pi records to, or None
  remote,    \* the files in the log directory of the Pi
  local,     \* per file: rows in the copy on the laptop, or None without one
  offload,   \* the offload worker: the files it listed, has to do and has copied
  last,      \* history, per file: how the last copy of it went
  careless,  \* history: files deleted although the last copy was not whole
  asks, faults

loggerVars == <<logger, busy, stopper, session>>
macVars    == <<mac, putting>>
piVars     == <<rows, writing, remote>>
copyVars   == <<local, last, careless>>
vars == <<loggerVars, macVars, piVars, copyVars, offload, asks, faults>>

Stoppers  == 1..2
IdleStop  == [at |-> "idle", session |-> None, file |-> None]
NoOffload == [at |-> "idle", all |-> {}, todo |-> {}, copied |-> {}]
NoLogger  == [tier |-> None, pi |-> FALSE, mac |-> FALSE]

Init ==
  /\ logger = NoLogger /\ busy = FALSE /\ session = None /\ putting = None
  /\ stopper = [k \in Stoppers |-> IdleStop]
  /\ mac = [s \in Sessions |-> [queue |-> <<>>, file |-> 0, accepted |-> 0, writer |-> "none",
                          overlaps |-> FALSE]]
  /\ rows = [f \in Files |-> None] /\ writing = None /\ remote = {}
  /\ local = [f \in Files |-> None] /\ last = [f \in Files |-> "none"]
  /\ careless = {}
  /\ offload = NoOffload /\ asks = 0 /\ faults = 0

IsLogging == logger.mac \/ logger.pi

Asked == asks < MaxAsks /\ asks' = asks + 1
Fault == faults < MaxFaults /\ faults' = faults + 1

-----------------------------------------------------------------------------
(* The Pi: a recording is begun by this client or by another one, and ends  *)
(* at its limit or when somebody stops it.                                  *)
PiBegins ==
  \E f \in Files :
    /\ rows[f] = None /\ \A g \in Files : g < f => rows[g] # None
    /\ rows' = [rows EXCEPT ![f] = 0] /\ remote' = remote \cup {f} /\ writing' = f

OtherClientStarts ==
  /\ writing = None /\ PiBegins
  /\ UNCHANGED <<loggerVars, macVars, copyVars, offload, faults, asks>>

PiWrites ==
  /\ writing # None /\ rows[writing] < MaxRows
  /\ rows' = [rows EXCEPT ![writing] = @ + 1]
  /\ writing' = IF rows'[writing] = MaxRows THEN None ELSE writing
  /\ UNCHANGED <<loggerVars, macVars, remote, copyVars, offload, faults, asks>>

-----------------------------------------------------------------------------
(* start: the UI thread; whatever becomes of the command, the logger counts *)
(* as recording.                                                            *)
StartPi ==
  /\ ~IsLogging /\ putting = None
  /\ logger' = [tier |-> "pi", pi |-> TRUE, mac |-> FALSE] /\ busy' = FALSE
  /\ \/ writing = None /\ PiBegins /\ UNCHANGED faults
     \/ writing # None /\ UNCHANGED <<piVars, faults>>
     \/ Fault /\ UNCHANGED piVars
  /\ Asked
  /\ UNCHANGED <<stopper, session, macVars, copyVars, offload>>

StartMac ==
  /\ ~IsLogging /\ putting = None
  /\ \E s \in Sessions :
       /\ mac[s].writer = "none" /\ \A r \in Sessions : r < s => mac[r].writer # "none"
       /\ session' = s
       /\ mac' = [mac EXCEPT ![s].writer = "runs",
                             ![s].overlaps = \E k \in Stoppers : stopper[k].at # "idle"]
  /\ logger' = [tier |-> "mac", pi |-> FALSE, mac |-> TRUE] /\ busy' = FALSE
  /\ Asked
  /\ UNCHANGED <<stopper, putting, piVars, copyVars, offload, faults>>

(* _on_recording_done: one worker at a time.  A worker that is still there  *)
(* is cancelled, which clears the flag, and its thread goes on.             *)
AskStop ==
  IF busy THEN UNCHANGED <<busy, stopper>>
  ELSE \E k \in Stoppers :
         /\ stopper[k].at = "idle" /\ \A j \in Stoppers : j < k => stopper[j].at # "idle"
         /\ stopper' = [stopper EXCEPT ![k].at = "begin"]
         /\ busy' = (\A j \in Stoppers : stopper[j].at = "idle")

ToggleOff ==
  /\ IsLogging /\ putting = None
  /\ AskStop
  /\ UNCHANGED <<logger, session, macVars, piVars, copyVars, offload, faults, asks>>

(* A status message on the UI thread: record() looks at the flag ...        *)
Row_WhileStopping ==
  /\ putting = None /\ logger.mac /\ logger.tier = "mac"
  /\ mac[session].accepted < MaxRows
  /\ putting' = session
  /\ UNCHANGED <<loggerVars, mac, piVars, copyVars, offload, faults, asks>>

Row ==
  /\ putting = None /\ logger.mac /\ logger.tier = "mac" /\ ~busy
  /\ mac[session].accepted < MaxRows
  /\ putting' = session
  /\ UNCHANGED <<loggerVars, mac, piVars, copyVars, offload, faults, asks>>

(* ... and enqueues the row; the last one asks for the stop.                *)
PutRow ==
  /\ putting # None
  /\ mac' = [mac EXCEPT ![putting].queue = Append(@, "row"), ![putting].accepted = @ + 1]
  /\ putting' = None
  /\ IF mac'[putting].accepted = MaxRows THEN AskStop ELSE UNCHANGED <<busy, stopper>>
  /\ UNCHANGED <<logger, session, piVars, copyVars, offload, faults, asks>>

(* check_pi_done: the time of a recording on the Pi is up.                  *)
PiDone ==
  /\ logger.tier = "pi" /\ logger.pi /\ ~busy /\ putting = None
  /\ AskStop
  /\ UNCHANGED <<logger, session, macVars, piVars, copyVars, offload, faults, asks>>

(* _writer_loop of a session. *)
WriterTakes(s) ==
  /\ mac[s].writer = "runs" /\ mac[s].queue # <<>>
  /\ mac' = [mac EXCEPT ![s].queue = Tail(@),
                        ![s].file = IF Head(mac[s].queue) = "row" THEN @ + 1 ELSE @,
                        ![s].writer = IF Head(mac[s].queue) = "row" THEN @ ELSE "done"]
  /\ UNCHANGED <<loggerVars, putting, piVars, copyVars, offload, faults, asks>>

-----------------------------------------------------------------------------
(* DataLogger.stop on executor thread k. *)
StopBegins(k) ==
  /\ stopper[k].at = "begin"
  /\ IF logger.tier = "pi" /\ logger.pi
       THEN /\ stopper' = [stopper EXCEPT ![k].at = "tell"]
            /\ UNCHANGED <<logger, mac>>
     ELSE IF logger.mac
       THEN /\ stopper' = [stopper EXCEPT ![k] = [at |-> "join", session |-> session, file |-> None]]
            /\ logger' = [logger EXCEPT !.mac = FALSE]
            /\ mac' = [mac EXCEPT ![session].queue = Append(@, "stop")]
       ELSE /\ stopper' = [stopper EXCEPT ![k].at = "end"]
            /\ UNCHANGED <<logger, mac>>
  /\ UNCHANGED <<busy, session, putting, piVars, copyVars, offload, faults, asks>>

(* The join ends with the writer or after five seconds. *)
StopJoins(k) ==
  /\ stopper[k].at = "join"
  /\ \/ mac[stopper[k].session].writer = "done" /\ UNCHANGED faults
     \/ Fault
  /\ stopper' = [stopper EXCEPT ![k].at = "end"]
  /\ UNCHANGED <<logger, busy, session, macVars, piVars, copyVars, offload, asks>>

(* pi_record_stop: a failure is swallowed. *)
StopTells(k) ==
  /\ stopper[k].at = "tell"
  /\ \/ writing' = None /\ UNCHANGED faults
     \/ Fault /\ UNCHANGED writing
  /\ stopper' = [stopper EXCEPT ![k].at = "list"]
  /\ UNCHANGED <<logger, busy, session, macVars, rows, remote, copyVars, offload, asks>>

(* ls -t: the newest recording there is.  When the command fails the client *)
(* goes by the name it expects its own recording to have, of which it knows *)
(* neither whether it was begun nor the second the Pi began it in.          *)
StopLists(k) ==
  LET Goes(at, f) == stopper' = [stopper EXCEPT ![k] = [IdleStop EXCEPT !.at = at, !.file = f]]
  IN
  /\ stopper[k].at = "list"
  /\ \/ remote # {} /\ Goes("copy", Max(remote)) /\ UNCHANGED faults
     \/ remote = {} /\ Goes("end", None) /\ UNCHANGED faults
     \/ Fault /\ Goes("end", None)
     \/ Fault /\ \E f \in remote : Goes("copy", f)
  /\ UNCHANGED <<logger, busy, session, macVars, piVars, copyVars, offload, asks>>

(* What a copy leaves behind: all the rows there are, or with a failure the *)
(* copy that was there or any number of rows.                               *)
Copies(f) ==
  /\ f \in remote
  /\ local' = [local EXCEPT ![f] = rows[f]]
  /\ last' = [last EXCEPT ![f] = IF f = writing THEN "growing" ELSE "whole"]

CopyFails(f, who) ==
  /\ f \in remote /\ Fault
  /\ \/ UNCHANGED local
     \/ \E n \in 0..rows[f] : local' = [local EXCEPT ![f] = n]
  /\ last' = [last EXCEPT ![f] = who]

Gone(f) == f \notin remote /\ UNCHANGED <<local, last, faults>>

(* Another stop may be after the same recording. *)
Blame(k) == IF \E j \in Stoppers \ {k} : stopper[j].file = stopper[k].file THEN "both" ELSE "stop"

StopCopies_Unchecked(k) ==
  /\ stopper[k].at = "copy"
  /\ \/ Copies(stopper[k].file) /\ UNCHANGED faults
     \/ CopyFails(stopper[k].file, Blame(k))
  /\ stopper' = [stopper EXCEPT ![k].at = "remove"]
  /\ UNCHANGED <<logger, busy, session, macVars, piVars, careless, offload, asks>>

StopCopies(k) ==
  /\ stopper[k].at = "copy"
  /\ \/ /\ Copies(stopper[k].file) /\ UNCHANGED faults
        /\ stopper' = [stopper EXCEPT ![k].at = "remove"]
     \/ /\ CopyFails(stopper[k].file, Blame(k)) \/ Gone(stopper[k].file)
        /\ stopper' = [stopper EXCEPT ![k].at = "end"]
  /\ UNCHANGED <<logger, busy, session, macVars, piVars, careless, offload, asks>>

StopRemoves(k) ==
  LET f == stopper[k].file
  IN
  /\ stopper[k].at = "remove"
  /\ remote' = remote \ {f}
  /\ careless' = IF last[f] \in {"growing", "offload", "both"} THEN careless \cup {f} ELSE careless
  /\ stopper' = [stopper EXCEPT ![k].at = "end"]
  /\ UNCHANGED <<logger, busy, session, macVars, rows, writing, local, last, offload, faults, asks>>

(* The finally clauses of stop and of its worker. *)
StopEnds(k) ==
  /\ stopper[k].at = "end"
  /\ logger' = NoLogger /\ busy' = FALSE
  /\ stopper' = [stopper EXCEPT ![k] = IdleStop]
  /\ UNCHANGED <<session, macVars, piVars, copyVars, offload, faults, asks>>

-----------------------------------------------------------------------------
(* _offload_worker: list, copy every file, delete those of which something  *)
(* is there.  A copy that takes too long ends the worker with an exception. *)
OffloadLists ==
  /\ offload.at = "idle" /\ ~IsLogging /\ remote # {}
  /\ offload' = [at |-> "copy", all |-> remote, todo |-> remote, copied |-> {}]
  /\ Asked
  /\ UNCHANGED <<loggerVars, macVars, piVars, copyVars, faults>>

OffloadCopies ==
  LET f == Min(offload.todo)
      Goes(ok) == offload' = [offload EXCEPT !.todo = @ \ {f},
                                             !.copied = IF ok THEN @ \cup {f} ELSE @]
  IN
  /\ offload.at = "copy" /\ offload.todo # {}
  /\ \/ Copies(f) /\ UNCHANGED faults /\ Goes(TRUE)
     \/ CopyFails(f, "offload") /\ Goes(FALSE)
     \/ Gone(f) /\ Goes(FALSE)
     \/ CopyFails(f, "offload") /\ offload' = NoOffload
  /\ UNCHANGED <<loggerVars, macVars, piVars, careless, asks>>

OffloadCopied ==
  /\ offload.at = "copy" /\ offload.todo = {}
  /\ offload' = IF offload.copied = {} THEN NoOffload
                ELSE [offload EXCEPT !.at = "delete",
                                     !.todo = {f \in offload.all : local[f] # None}]
  /\ UNCHANGED <<loggerVars, macVars, piVars, copyVars, faults, asks>>

OffloadDeletes ==
  LET f == Min(offload.todo)
  IN
  /\ offload.at = "delete" /\ offload.todo # {}
  /\ remote' = remote \ {f}
  /\ careless' = IF f \in remote /\ last[f] # "whole" THEN careless \cup {f} ELSE careless
  /\ offload' = IF offload.todo = {f} THEN NoOffload ELSE [offload EXCEPT !.todo = @ \ {f}]
  /\ UNCHANGED <<loggerVars, macVars, rows, writing, local, last, faults, asks>>

-----------------------------------------------------------------------------
Ui == StartPi \/ StartMac \/ ToggleOff \/ Row \/ PutRow \/ PiDone

Stop(k) ==
  \/ StopBegins(k) \/ StopJoins(k) \/ StopTells(k) \/ StopLists(k)
  \/ StopCopies(k) \/ StopRemoves(k) \/ StopEnds(k)

Offload == OffloadLists \/ OffloadCopies \/ OffloadCopied \/ OffloadDeletes

Next ==
  \/ Ui \/ Offload \/ OtherClientStarts \/ PiWrites
  \/ \E k \in Stoppers : Stop(k)
  \/ \E s \in Sessions : WriterTakes(s)

Spec == Init /\ [][Next]_vars

-----------------------------------------------------------------------------
TypeOK ==
  /\ logger \in [tier : {None, "pi", "mac"}, pi : BOOLEAN, mac : BOOLEAN]
  /\ busy \in BOOLEAN /\ session \in Sessions \cup {None} /\ putting \in Sessions \cup {None}
  /\ \A s \in Sessions : mac[s].file \in 0..MaxRows /\ mac[s].accepted \in 0..MaxRows
  /\ writing \in Files \cup {None} /\ remote \subseteq {f \in Files : rows[f] # None}
  /\ \A f \in Files : {rows[f], local[f]} \subseteq 0..MaxRows \cup {None}
  /\ offload.at \in {"idle", "copy", "delete"}

(* A recording that is gone from the Pi is whole on the laptop, unless the  *)
(* last copy was made while the Pi wrote it or failed in an offload or in   *)
(* one of two stops that were after it at once: a stop removes nothing it   *)
(* has not copied itself, whichever recording it picks and whatever fails   *)
(* (data_logger.py 245-312).                                                *)
Whole(f) == rows[f] = None \/ f \in remote \/ local[f] = rows[f]
RemovedIsWhole == \A f \in Files \ careless : Whole(f)

(* "Verify and delete" (app.py 1517): what the offload deletes is there.    *)
(* Fails: it looks only for a file that is not empty.                       *)
DeletedIsVerified == \A f \in Files : Whole(f)

(* A laptop recording that was not begun while a stop was going on is       *)
(* active until it is told to end, and when it has ended it holds every row *)
(* accepted for it: rows come from the UI thread, the end marker from the   *)
(* thread that stops, and only the flag of the application keeps a row from *)
(* going behind the marker (data_logger.py 176-243, app.py 921-932).        *)
SessionIsKept ==
  \A s \in Sessions : mac[s].writer # "none" /\ ~mac[s].overlaps =>
    /\ mac[s].writer = "done" => mac[s].file = mac[s].accepted
    /\ mac[s].writer = "runs" /\ "stop" \notin Range(mac[s].queue) => logger.mac /\ session = s
=============================================================================
