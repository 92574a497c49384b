------------------------------- MODULE Recorder -------------------------------
(***************************************************************************)
(* The Pi's CSV recorder: PiRecorder (server/recorder.py), driven by the   *)
(* command threads (pi_record_start and pi_record_stop) and by the serial  *)
(* reader thread (CommandServer._on_sensor_tick).                          *)
(*                                                                         *)
(* A session is one successful start: its file, its queue, its writer      *)
(* thread.  start, stop and record each have one section under the         *)
(* recorder's lock, and each is one action; what they do before and after  *)
(* it are actions of their own.  The writer takes one queue item a step.   *)
(***************************************************************************)
EXTENDS Naturals, Sequences, FiniteSets, SequencesExt

CONSTANTS
  Clients,     \* command threads
  MaxSessions, \* bound on the number of sessions
  MaxFrames,   \* bound on the number of sensor frames the firmware emits
  SeqModulus,  \* the modulus of the firmware's emit counter, 2^32
  MaxRates,    \* bound on the number of times the stream rate is set
  Steps,       \* the steps of the switching cycle
  Requests,    \* what a start may ask: [limit |-> max_samples, 0 for none;
               \* align |-> align_to_step, None where it is left out]
  None, Stop,  \* no value, and the sentinel _STOP_SENTINEL
  DiskFails,   \* whether opening the file or writing a row may fail
  JoinTimesOut \* whether a join may end by its 5 second timeout

Sessions == 1..MaxSessions
Frames   == [n : 1..MaxFrames, rate : 0..MaxRates, seq : 0..SeqModulus - 1, step : Steps]

ASSUME RecorderAssumption ==
  /\ MaxSessions \in Nat \ {0} /\ MaxFrames \in Nat \ {0}
  /\ SeqModulus \in Nat \ {0, 1}
  /\ {None, Stop} \cap Frames = {} /\ None # Stop /\ None \notin 0..SeqModulus - 1
  /\ None \notin Steps
  /\ Requests \subseteq [limit : Nat, align : Steps \cup {None}]
  /\ MaxRates \in Nat
  /\ DiskFails \in BOOLEAN /\ JoinTimesOut \in BOOLEAN

VARIABLES
  active,    \* _active
  session,   \* the latest session, 0 before the first: its _path and _queue
  writer,    \* _writer_thread: the session whose writer it is, 0 for None
  gate,      \* _align_to_step, None for no gate
  sawOther,  \* _saw_non_target
  lastSeq,   \* _last_seq, or None
  count,     \* _sample_count
  asked,     \* per session: the limit and the alignment start was given
  queue,     \* per session: the rows and the sentinel the writer has yet to take
  file,      \* per session: the rows written to its file
  writerPc,  \* per session: where its writer thread is
  damaged,   \* per session: the disk failed it at least once
  warned,    \* per session: a sequence gap was logged
  pc,        \* per client: where it is in a call
  joining,   \* per client in a stop: the writer it joins, 0 for none
  reader,    \* where the reader thread is: "idle", or with a frame past the check
  frame,     \* the frame it handles
  emitted,   \* how many frames the firmware has emitted
  seq,       \* the firmware's s_seq
  rates,     \* how many times the stream rate was set
  offered,   \* history, per session: the frames record was called with
  accepted   \* history, per session: the rows record has put in its queue

sessionVars == <<active, session, writer, gate, sawOther, lastSeq, count, asked>>
writerVars  == <<queue, file, writerPc, damaged>>
clientVars  == <<pc, joining>>
readerVars  == <<reader, frame>>
streamVars  == <<emitted, seq, rates>>
recordVars  == <<warned, offered, accepted>>
vars == <<sessionVars, writerVars, clientVars, readerVars, streamVars, recordVars>>

Init ==
  /\ active = FALSE /\ session = 0 /\ writer = 0
  /\ gate = None /\ sawOther = FALSE /\ lastSeq = None /\ count = 0
  /\ asked = [s \in Sessions |-> [limit |-> 0, align |-> None]]
  /\ queue = [s \in Sessions |-> <<>>] /\ file = [s \in Sessions |-> <<>>]
  /\ writerPc = [s \in Sessions |-> "none"] /\ damaged = [s \in Sessions |-> FALSE]
  /\ pc = [c \in Clients |-> "ready"] /\ joining = [c \in Clients |-> None]
  /\ reader = "idle" /\ frame = None /\ emitted = 0 /\ seq = 0 /\ rates = 0
  /\ warned = [s \in Sessions |-> FALSE]
  /\ offered = [s \in Sessions |-> <<>>] /\ accepted = [s \in Sessions |-> <<>>]

-----------------------------------------------------------------------------
(* start: the look at _active, taken without the lock. *)
StartCall(c) ==
  /\ pc[c] = "ready" /\ session < MaxSessions
  /\ pc' = [pc EXCEPT ![c] = IF active THEN "start_stop" ELSE "setup"]
  /\ UNCHANGED <<sessionVars, writerVars, joining, readerVars, streamVars, recordVars>>

(* mutant: a sentinel is queued for a session that has one.                 *)
StopSection_Always(c, next) ==
  /\ active' = FALSE
  /\ writer' = 0
  /\ queue' = IF session # 0 THEN [queue EXCEPT ![session] = Append(@, Stop)] ELSE queue
  /\ joining' = [joining EXCEPT ![c] = writer]
  /\ pc' = [pc EXCEPT ![c] = next]
  /\ UNCHANGED <<session, gate, sawOther, lastSeq, count, asked, file, writerPc, damaged,
                 readerVars, streamVars, recordVars>>

(* stop, the section under the lock, called by start or by a client. *)
StopSection(c, next) ==
  /\ active' = FALSE
  /\ writer' = 0
  /\ queue' = IF active THEN [queue EXCEPT ![session] = Append(@, Stop)] ELSE queue
  /\ joining' = [joining EXCEPT ![c] = writer]
  /\ pc' = [pc EXCEPT ![c] = next]
  /\ UNCHANGED <<session, gate, sawOther, lastSeq, count, asked, file, writerPc, damaged,
                 readerVars, streamVars, recordVars>>

StopCall(c)    == pc[c] = "ready" /\ session # 0 /\ StopSection(c, "join")
StopInStart(c) == pc[c] = "start_stop" /\ StopSection(c, "start_join")

(* stop, after the section: wait for the writer, then return the path. *)
Join(c) ==
  LET w == joining[c]
      drained == IF w = 0 THEN TRUE ELSE writerPc[w] = "done"
  IN
  /\ pc[c] \in {"join", "start_join"}
  /\ drained \/ JoinTimesOut
  /\ pc' = [pc EXCEPT ![c] = IF pc[c] = "join" THEN "ready" ELSE "setup"]
  /\ joining' = [joining EXCEPT ![c] = None]
  /\ UNCHANGED <<sessionVars, writerVars, readerVars, streamVars, recordVars>>

(* mutant: a new session is compared with the last row of the old one.      *)
Setup_KeepsSeq(c, request) ==
  LET s == session + 1
  IN
  /\ pc[c] = "setup" /\ session < MaxSessions
  /\ session' = s /\ writer' = s /\ active' = TRUE
  /\ gate' = request.align /\ sawOther' = FALSE /\ lastSeq' = lastSeq /\ count' = 0
  /\ asked' = [asked EXCEPT ![s] = request]
  /\ writerPc' = [writerPc EXCEPT ![s] = "opening"]
  /\ pc' = [pc EXCEPT ![c] = "ready"]
  /\ UNCHANGED <<queue, file, damaged, joining, readerVars, streamVars, recordVars>>

(* start, the section under the lock: a fresh queue and a new writer. *)
Setup(c, request) ==
  LET s == session + 1
  IN
  /\ pc[c] = "setup" /\ session < MaxSessions
  /\ session' = s /\ writer' = s /\ active' = TRUE
  /\ gate' = request.align /\ sawOther' = FALSE /\ lastSeq' = None /\ count' = 0
  /\ asked' = [asked EXCEPT ![s] = request]
  /\ writerPc' = [writerPc EXCEPT ![s] = "opening"]
  /\ pc' = [pc EXCEPT ![c] = "ready"]
  /\ UNCHANGED <<queue, file, damaged, joining, readerVars, streamVars, recordVars>>

-----------------------------------------------------------------------------
(* mutant: the emit counter is not masked.                                  *)
NextSeq_NoWrap == seq + 1

(* emit_d_line counts a frame and sends it ... *)
NextSeq == (seq + 1) % SeqModulus

Emit ==
  /\ emitted < MaxFrames
  /\ emitted' = emitted + 1
  /\ seq' = NextSeq
  /\ UNCHANGED rates

(* ... and it may be lost on the way (external). *)
LoseFrame ==
  /\ Emit
  /\ UNCHANGED <<sessionVars, writerVars, clientVars, readerVars, recordVars>>

(* streaming_set_rate_hz restarts the counter. *)
SetRate ==
  /\ rates < MaxRates
  /\ rates' = rates + 1
  /\ seq' = 0
  /\ UNCHANGED <<sessionVars, writerVars, clientVars, readerVars, emitted, recordVars>>

(* _on_sensor_tick: the look at is_recording, taken without the lock; the   *)
(* status is then put together before record is called.                     *)
SensorTick(step) ==
  /\ reader = "idle"
  /\ Emit
  /\ reader' = IF active THEN "record" ELSE "idle"
  /\ frame' = IF active THEN [n |-> emitted + 1, rate |-> rates, seq |-> NextSeq, step |-> step] ELSE None
  /\ UNCHANGED <<sessionVars, writerVars, clientVars, recordVars>>

Idle == reader' = "idle" /\ frame' = None /\ UNCHANGED streamVars

(* record, when the session it was meant for is over. *)
RecordInactive ==
  /\ reader = "record" /\ ~active
  /\ Idle
  /\ UNCHANGED <<sessionVars, writerVars, clientVars, recordVars>>

Offer == offered' = [offered EXCEPT ![session] = Append(@, frame)]

(* mutant: the gate opens on the asked step, transition or not.             *)
Waiting_AnyFrame == gate # None /\ frame.step # gate

(* record, while the gate waits for a transition into the asked step. *)
Waiting == gate # None /\ (frame.step # gate \/ ~sawOther)

RecordWaits ==
  /\ reader = "record" /\ active
  /\ Waiting
  /\ sawOther' = (sawOther \/ frame.step # gate)
  /\ Offer /\ Idle
  /\ UNCHANGED <<active, session, writer, gate, lastSeq, count, asked, writerVars,
                 clientVars, warned, accepted>>

(* mutant: reaching the limit stops recording but not the writer.           *)
Record_NoSentinel ==
  LET gap == lastSeq # None /\ frame.seq # (lastSeq + 1) % SeqModulus
      hit == asked[session].limit > 0 /\ count + 1 >= asked[session].limit
      row == Append(queue[session], frame)
  IN
  /\ reader = "record" /\ active
  /\ ~Waiting
  /\ gate' = None
  /\ lastSeq' = frame.seq
  /\ warned' = [warned EXCEPT ![session] = @ \/ gap]
  /\ count' = count + 1
  /\ active' = ~hit
  /\ queue' = [queue EXCEPT ![session] = row]
  /\ accepted' = [accepted EXCEPT ![session] = Append(@, frame)]
  /\ Offer /\ Idle
  /\ UNCHANGED <<session, writer, sawOther, asked, file, writerPc, damaged, clientVars>>

(* record, taking the row: gap detection, queue, limit. *)
Record ==
  LET gap == lastSeq # None /\ frame.seq # (lastSeq + 1) % SeqModulus
      hit == asked[session].limit > 0 /\ count + 1 >= asked[session].limit
      row == Append(queue[session], frame)
  IN
  /\ reader = "record" /\ active
  /\ ~Waiting
  /\ gate' = None
  /\ lastSeq' = frame.seq
  /\ warned' = [warned EXCEPT ![session] = @ \/ gap]
  /\ count' = count + 1
  /\ active' = ~hit
  /\ queue' = [queue EXCEPT ![session] = IF hit THEN Append(row, Stop) ELSE row]
  /\ accepted' = [accepted EXCEPT ![session] = Append(@, frame)]
  /\ Offer /\ Idle
  /\ UNCHANGED <<session, writer, sawOther, asked, file, writerPc, damaged, clientVars>>

-----------------------------------------------------------------------------
(* _writer_loop opens the file; if that fails it only drains its queue. *)
OpenFile(s) ==
  /\ writerPc[s] = "opening"
  /\ \E ok \in (IF DiskFails THEN BOOLEAN ELSE {TRUE}) :
       /\ writerPc' = [writerPc EXCEPT ![s] = IF ok THEN "writing" ELSE "draining"]
       /\ damaged' = [damaged EXCEPT ![s] = ~ok]
  /\ UNCHANGED <<sessionVars, queue, file, clientVars, readerVars, streamVars, recordVars>>

(* mutant: the writer looks the path up instead of keeping its own.         *)
TakeItem_LatestFile(s) ==
  LET item == Head(queue[s])
  IN
  /\ writerPc[s] \in {"writing", "draining"}
  /\ queue[s] # <<>>
  /\ queue' = [queue EXCEPT ![s] = Tail(@)]
  /\ writerPc' = IF item = Stop THEN [writerPc EXCEPT ![s] = "done"] ELSE writerPc
  /\ \E ok \in (IF DiskFails THEN BOOLEAN ELSE {TRUE}) :
       /\ file' = IF item # Stop /\ writerPc[s] = "writing" /\ ok
                    THEN [file EXCEPT ![session] = Append(@, item)] ELSE file
       /\ damaged' = [damaged EXCEPT ![s] = @ \/ (item # Stop /\ ~ok)]
  /\ UNCHANGED <<sessionVars, clientVars, readerVars, streamVars, recordVars>>

(* It takes one item: the sentinel ends it, a row goes to the file.  A row  *)
(* whose write fails is dropped.                                            *)
TakeItem(s) ==
  LET item == Head(queue[s])
  IN
  /\ writerPc[s] \in {"writing", "draining"}
  /\ queue[s] # <<>>
  /\ queue' = [queue EXCEPT ![s] = Tail(@)]
  /\ writerPc' = IF item = Stop THEN [writerPc EXCEPT ![s] = "done"] ELSE writerPc
  /\ \E ok \in (IF DiskFails THEN BOOLEAN ELSE {TRUE}) :
       /\ file' = IF item # Stop /\ writerPc[s] = "writing" /\ ok
                    THEN [file EXCEPT ![s] = Append(@, item)] ELSE file
       /\ damaged' = [damaged EXCEPT ![s] = @ \/ (item # Stop /\ ~ok)]
  /\ UNCHANGED <<sessionVars, clientVars, readerVars, streamVars, recordVars>>

-----------------------------------------------------------------------------
Client(c) ==
  \/ StartCall(c)
  \/ StopCall(c)
  \/ StopInStart(c)
  \/ Join(c)
  \/ \E request \in Requests : Setup(c, request)

Reader ==
  \/ \E step \in Steps : SensorTick(step)
  \/ RecordInactive
  \/ RecordWaits
  \/ Record

Writer(s) == OpenFile(s) \/ TakeItem(s)

Next ==
  \/ \E c \in Clients : Client(c)
  \/ Reader
  \/ LoseFrame
  \/ SetRate
  \/ \E s \in Sessions : Writer(s)

Spec == Init /\ [][Next]_vars

-----------------------------------------------------------------------------
TypeOK ==
  /\ active \in BOOLEAN /\ session \in 0..MaxSessions /\ writer \in 0..MaxSessions
  /\ gate \in Steps \cup {None} /\ sawOther \in BOOLEAN
  /\ lastSeq \in 0..SeqModulus - 1 \cup {None} /\ count \in 0..MaxFrames
  /\ asked \in [Sessions -> Requests \cup {[limit |-> 0, align |-> None]}]
  /\ queue \in [Sessions -> Seq(Frames \cup {Stop})] /\ file \in [Sessions -> Seq(Frames)]
  /\ offered \in [Sessions -> Seq(Frames)] /\ accepted \in [Sessions -> Seq(Frames)]
  /\ writerPc \in [Sessions -> {"none", "opening", "writing", "draining", "done"}]
  /\ damaged \in [Sessions -> BOOLEAN] /\ warned \in [Sessions -> BOOLEAN]
  /\ pc \in [Clients -> {"ready", "start_stop", "join", "start_join", "setup"}]
  /\ joining \in [Clients -> 0..MaxSessions \cup {None}]
  /\ reader \in {"idle", "record"} /\ frame \in Frames \cup {None}
  /\ emitted \in 0..MaxFrames /\ seq \in 0..SeqModulus - 1 /\ rates \in 0..MaxRates

(* The rows of a queue, without the sentinel that ends it. *)
RowsOf(items) ==
  IF items # <<>> /\ Last(items) = Stop THEN Front(items) ELSE items

(* What is in a session's file is what record accepted for that session, in *)
(* that order and with nothing of another session, short of the rows still  *)
(* queued; with a healthy disk nothing is missing, and a writer that ended  *)
(* has written everything.                                                  *)
FileIsRecording ==
  \A s \in Sessions :
    LET rows == file[s] \o RowsOf(queue[s])
    IN  IF damaged[s]
          THEN ToSet(rows) \subseteq ToSet(accepted[s])
          ELSE /\ rows = accepted[s]
               /\ writerPc[s] = "done" => file[s] = accepted[s]

(* Nothing is queued behind a sentinel, so the writer it ends leaves no row *)
(* behind, whatever the order of a stop, a limit reached and a late frame.  *)
SentinelIsLast ==
  \A s \in Sessions :
    \A i \in 1..Len(queue[s]) : queue[s][i] = Stop => i = Len(queue[s])

(* "Transition INTO" the asked step: what is recorded is every frame from   *)
(* the first one that shows the step after one that did not, none is        *)
(* skipped after that, and no more than the limit.                          *)
Begins(frames, align, k) ==
  align = None \/ (frames[k].step = align /\ \E j \in 1..k - 1 : frames[j].step # align)

Expected(s) ==
  LET frames == offered[s]
      starts == {k \in 1..Len(frames) : Begins(frames, asked[s].align, k)}
  IN  IF starts = {} THEN <<>>
        ELSE SubSeq(frames, CHOOSE k \in starts : \A j \in starts : k <= j, Len(frames))

RecordingIsContiguous ==
  \A s \in Sessions :
    /\ accepted[s] = Expected(s)
    /\ asked[s].limit > 0 => Len(accepted[s]) <= asked[s].limit

(* "A non-contiguous step means a D line went missing on the wire": as long *)
(* as the stream's rate is not set while it records, a gap is logged        *)
(* exactly if frames are missing between the rows of one session, never     *)
(* because of the frames between two sessions, of those the gate held back, *)
(* or because the counter wrapped.                                          *)
GapIffLost ==
  \A s \in Sessions :
    (\A row \in ToSet(accepted[s]) : row.rate = accepted[s][1].rate) =>
      (warned[s] <=> \E i \in 1..Len(accepted[s]) - 1 :
                       accepted[s][i + 1].n # accepted[s][i].n + 1)

(* The latest session, once it is over (stopped by a client, by its limit  *)
(* or by the next start), has a writer that ended or that will: its         *)
(* sentinel is queued, behind every row, and no one else takes it.          *)
Alive(s) == writerPc[s] \in {"opening", "writing", "draining"}

WriterIsToldToEnd ==
  session # 0 /\ ~active /\ Alive(session) =>
    queue[session] # <<>> /\ Last(queue[session]) = Stop
=============================================================================
