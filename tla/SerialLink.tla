------------------------------ MODULE SerialLink ------------------------------
(***************************************************************************)
(* The Pi's end of the USB serial link: GPIODriver (server/gpio_driver.py) *)
(* with its one command at a time, its reader thread and its response      *)
(* queue; the threads that send commands, some of them with the            *)
(* ModeController's lock held; and the per-frame recording callback, which *)
(* the reader thread runs and which needs that lock                        *)
(* (CommandServer._on_sensor_tick, ModeController.get_status_at).          *)
(*                                                                         *)
(* Time is abstracted to what may stall: a reply is there within the 0.5 s *)
(* of _send unless the reader is held up at the mode lock or the firmware  *)
(* is still busy with a long command.                                      *)
(***************************************************************************)
EXTENDS Naturals, Sequences

CONSTANTS
  Callers,    \* the threads that send commands
  None,
  Calls,      \* the calls they make: "idle" and "charge" (mode changes), "query", "profile"
  MaxCalls,   \* bound on the calls made in all
  MaxFrames,  \* bound on the D lines on the way at once
  Recording   \* whether PiRecorder is recording

ASSUME SerialLinkAssumption ==
  /\ None \notin Callers \cup Nat
  /\ Calls \subseteq {"idle", "charge", "query", "profile"}
  /\ MaxCalls \in Nat \ {0} /\ MaxFrames \in Nat
  /\ Recording \in BOOLEAN

VARIABLES
  serLock,   \* GPIODriver._lock: the caller inside _send, or None
  modeLock,  \* ModeController._lock: the caller changing the mode, or None
  mode,      \* ModeController._mode
  running,   \* not SequenceEngine._paused
  plan,      \* per caller: what is left of its call
  waiting,   \* per caller: the number of the command it waits for, or None
  sent,      \* the verbs of the commands written, in order
  executed,  \* how many of them the firmware has executed
  fwBusy,    \* whether the firmware is in the middle of a long command
  out,       \* the lines on their way from the firmware
  responses, \* _response_q: the numbers of the commands replied to
  held,      \* whether the reader thread is in the callback of a frame
  results,   \* history: for each command what _send returned for it
  calls      \* how many calls were made

locks    == <<serLock, modeLock>>
server   == <<mode, running>>
callers  == <<plan, waiting, calls>>
firmware == <<sent, executed, fwBusy, out>>
vars     == <<locks, server, callers, firmware, responses, held, results>>

Verbs   == {"H", "S", "C", "F", "P", "G", "U", "Z"}
Numbers == 1..Len(sent)
Pending == 0     \* a command whose _send has not returned; one given up returned None

(* What a call does, in order: sections of the engine and serial commands.  *)
(* A mode change holds the mode lock from its first to its last item.       *)
Steps(call) ==
  CASE call = "idle"    -> (IF running THEN <<"pause", "H", "S", "commit idle">>
                                       ELSE <<"pause", "S", "commit idle">>)
    [] call = "charge"  -> <<"S", "resume", "C", "F", "P", "G", "commit charge">>
    [] call = "query"   -> <<"U">>
    [] call = "profile" -> <<"Z">>

Init ==
  /\ serLock = None /\ modeLock = None
  /\ mode = "idle" /\ running = FALSE
  /\ plan = [c \in Callers |-> <<>>] /\ waiting = [c \in Callers |-> None]
  /\ sent = <<>> /\ executed = 0 /\ fwBusy = FALSE /\ out = <<>>
  /\ responses = <<>> /\ held = FALSE
  /\ results = <<>> /\ calls = 0

-----------------------------------------------------------------------------
(* A thread begins a call; a mode change takes the lock, and does nothing   *)
(* if the mode is already the one asked for.                                *)
BeginCall(c, call) ==
  LET change == call \in {"idle", "charge"}
  IN
  /\ plan[c] = <<>> /\ calls < MaxCalls
  /\ change => modeLock = None /\ mode # call
  /\ modeLock' = IF change THEN c ELSE modeLock
  /\ plan' = [plan EXCEPT ![c] = Steps(call)]
  /\ calls' = calls + 1
  /\ UNCHANGED <<serLock, server, waiting, firmware, responses, held, results>>

At(c, items) == plan[c] # <<>> /\ Head(plan[c]) \in items /\ waiting[c] = None
Done(c)      == plan' = [plan EXCEPT ![c] = Tail(@)]

(* The sections of pause and of resume under the engine's lock. *)
SetPaused(c) ==
  /\ At(c, {"pause", "resume"})
  /\ running' = (Head(plan[c]) = "resume")
  /\ Done(c)
  /\ UNCHANGED <<locks, mode, waiting, calls, firmware, responses, held, results>>

Commit(c) ==
  /\ At(c, {"commit idle", "commit charge"})
  /\ mode' = IF Head(plan[c]) = "commit idle" THEN "idle" ELSE "charge"
  /\ modeLock' = None
  /\ Done(c)
  /\ UNCHANGED <<serLock, running, waiting, calls, firmware, responses, held, results>>

(* mutant: commands are not serialised by the lock.                         *)
Send_NoLock(c) ==
  /\ At(c, Verbs)
  /\ serLock' = c
  /\ responses' = <<>>
  /\ sent' = Append(sent, Head(plan[c]))
  /\ waiting' = [waiting EXCEPT ![c] = Len(sent')]
  /\ results' = Append(results, Pending)
  /\ UNCHANGED <<modeLock, server, plan, calls, executed, fwBusy, out, held>>

(* mutant: a command is numbered one too high.                              *)
Send_OffByOne(c) ==
  /\ At(c, Verbs)
  /\ serLock = None
  /\ serLock' = c
  /\ responses' = <<>>
  /\ sent' = Append(sent, Head(plan[c]))
  /\ waiting' = [waiting EXCEPT ![c] = Len(sent') + 1]
  /\ results' = Append(results, Pending)
  /\ UNCHANGED <<modeLock, server, plan, calls, executed, fwBusy, out, held>>

(* _send: take the lock, drain old responses, write the command ... *)
Send(c) ==
  /\ At(c, Verbs)
  /\ serLock = None
  /\ serLock' = c
  /\ responses' = <<>>
  /\ sent' = Append(sent, Head(plan[c]))
  /\ waiting' = [waiting EXCEPT ![c] = Len(sent')]
  /\ results' = Append(results, Pending)
  /\ UNCHANGED <<modeLock, server, plan, calls, executed, fwBusy, out, held>>

(* ... and wait for a response.  Whatever it is, the call goes on. *)
Return(c, result) ==
  /\ serLock' = None
  /\ results' = [results EXCEPT ![waiting[c]] = result]
  /\ waiting' = [waiting EXCEPT ![c] = None]
  /\ Done(c)
  /\ UNCHANGED <<modeLock, server, calls, firmware, held>>

Respond(c) ==
  /\ waiting[c] # None
  /\ responses # <<>>
  /\ responses' = Tail(responses)
  /\ Return(c, Head(responses))

(* The 0.5 seconds are over: the firmware has replied in time, but the      *)
(* reader has not read it, or the firmware itself was busy.                 *)
ReaderHeldUp == held /\ modeLock # None

(* mutant: _send waits without a timeout while the firmware is idle.        *)
GiveUp_Never(c) ==
  /\ waiting[c] # None
  /\ responses = <<>>
  /\ fwBusy
  /\ UNCHANGED responses
  /\ Return(c, None)

GiveUp(c) ==
  /\ waiting[c] # None
  /\ responses = <<>>
  /\ (ReaderHeldUp /\ executed >= waiting[c]) \/ fwBusy
  /\ UNCHANGED responses
  /\ Return(c, None)

-----------------------------------------------------------------------------
(* The firmware (external here: see SwitchOps) executes one command after   *)
(* the other and replies to each; Z emits frames for up to seconds first.   *)
Execute ==
  LET n == executed + 1
  IN
  /\ executed < Len(sent)
  /\ IF sent[n] = "Z" /\ ~fwBusy
       THEN fwBusy' = TRUE /\ UNCHANGED <<executed, out>>
       ELSE fwBusy' = FALSE /\ executed' = n /\ out' = Append(out, n)
  /\ UNCHANGED <<locks, server, callers, sent, responses, held, results>>

Frame == 0    \* a D line among the numbers of the replies

EmitFrame ==
  /\ Len(SelectSeq(out, LAMBDA line : line = Frame)) < MaxFrames
  /\ out' = Append(out, Frame)
  /\ UNCHANGED <<locks, server, callers, sent, executed, fwBusy, responses, held, results>>

-----------------------------------------------------------------------------
(* _reader_loop: a reply goes to the response queue; a D line goes to the   *)
(* callback, which reads the engine under the engine's lock ...             *)
ReadLine ==
  LET line == Head(out)
  IN
  /\ ~held /\ out # <<>>
  /\ out' = Tail(out)
  /\ IF line = Frame
       THEN held' = Recording /\ UNCHANGED responses
       ELSE responses' = Append(responses, line) /\ UNCHANGED held
  /\ UNCHANGED <<locks, server, callers, sent, executed, fwBusy, results>>

(* ... and then waits for the mode lock to read the mode and record. *)
RecordFrame ==
  /\ held
  /\ modeLock = None
  /\ held' = FALSE
  /\ UNCHANGED <<locks, server, callers, firmware, responses, results>>

-----------------------------------------------------------------------------
Caller(c) ==
  \/ SetPaused(c)
  \/ Commit(c)
  \/ Send(c)
  \/ Respond(c)
  \/ GiveUp(c)

Next ==
  \/ \E c \in Callers : (\E call \in Calls : BeginCall(c, call)) \/ Caller(c)
  \/ Execute
  \/ EmitFrame
  \/ ReadLine
  \/ RecordFrame

Spec == Init /\ [][Next]_vars

(* The threads run and the firmware's main loop gets to its input. *)
Fairness ==
  /\ \A c \in Callers : WF_vars(Caller(c))
  /\ WF_vars(Execute) /\ WF_vars(ReadLine) /\ WF_vars(RecordFrame)

FairSpec == Spec /\ Fairness

-----------------------------------------------------------------------------
TypeOK ==
  /\ serLock \in Callers \cup {None} /\ modeLock \in Callers \cup {None}
  /\ mode \in {"idle", "charge"} /\ running \in BOOLEAN
  /\ \A c \in Callers : plan[c] \in Seq(Verbs \cup {"pause", "resume", "commit idle", "commit charge"})
  /\ waiting \in [Callers -> Numbers \cup {None}] /\ calls \in 0..MaxCalls
  /\ sent \in Seq(Verbs) /\ executed \in 0..Len(sent) /\ fwBusy \in BOOLEAN
  /\ out \in Seq(Numbers \cup {Frame}) /\ responses \in Seq(Numbers)
  /\ held \in BOOLEAN
  /\ Len(results) = Len(sent)

(* "Send a command and wait for the response": what a command gets back is  *)
(* its own reply, or nothing.                                               *)
Replied == {n \in Numbers : results[n] \notin {Pending, None}}

OwnReply == \A n \in Replied : results[n] = n

(* A reply that is taken for that of another command is an older one, that  *)
(* of a command that was given up: the lock keeps two callers from taking   *)
(* each other's replies, and no reply is taken twice.                       *)
StrayRepliesAreLate ==
  /\ \A n \in Replied : results[n] # n => results[n] < n
  /\ \A n, m \in Replied : n # m => results[n] # results[m]
  /\ (\A n \in Numbers : results[n] # None) => OwnReply

(* The reader waits for the mode lock while its holder waits for a reply    *)
(* only the reader can deliver: the holder gives up, every call ends and    *)
(* the reader goes on.                                                      *)
CallsEnd == []<>(~held /\ \A c \in Callers : plan[c] = <<>>)
=============================================================================
