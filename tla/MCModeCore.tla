----------------------------- MODULE MCModeCore -----------------------------
(* Small instances of ModeCore for TLC. *)
EXTENDS ModeCore, TLC

CONSTANTS c1, c2, t1

MCSymmetry == Permutations(Clients)

(* debug_step's counter is reset on the way to DEBUG, so elsewhere its old  *)
(* value is of no consequence; and as long as the current cannot get high   *)
(* auto-follow never engages, so neither is the mode it would engage in.    *)
MCView ==
  LET step == IF mode = "debug" \/ \E t \in Threads : goal[t] = "debug"
                THEN debugStep ELSE 0 - 1
      target == IF "high" \in Levels THEN af.target ELSE None
  IN  <<fw, fets, mode, modeLock, step, engine, flushTimer, af.enabled, af.active,
        target, holdoff, current, threads, since, label, history, raced>>

(* Nothing is claimed of what follows a flush that raced; the run           *)
(* ModeCoreFlushRace looks at that.                                         *)
Calm == ~raced

TargetCalls == {"auto_on", "target"}
=============================================================================
