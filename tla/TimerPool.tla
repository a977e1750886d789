----------------------------- MODULE TimerPool -----------------------------
(***************************************************************************)
(* The pool of timers (src/sleepytcp/timer.go): what AcquireTimer and      *)
(* ReleaseTimer do to one time.Timer.                                      *)
(*                                                                         *)
(* A timer that expires is disarmed first and sends to its channel a       *)
(* little later: the runtime of go 1.14, which go.mod asks for, calls      *)
(* sendTime without the lock that Stop and Reset take.  `firing' is the    *)
(* time in between.                                                        *)
(***************************************************************************)

\* where is "new", "pooled" or "held"; value says that t.C has a value.
Timers == [where : {"new", "pooled", "held"},
           armed : BOOLEAN, firing : BOOLEAN, value : BOOLEAN]

NewTimer == [where |-> "new", armed |-> FALSE, firing |-> FALSE, value |-> FALSE]

\* Mutant: a timer from the pool is not set again.
AcquireStopped(t) == [t EXCEPT !.where = "held"]

\* Reset does not touch the channel.
AcquireTimer(t) == [t EXCEPT !.where = "held", !.armed = TRUE]

\* Mutant: the timer is put back running.
ReleaseRunning(t) == [t EXCEPT !.where = "pooled"]

\* stopTimer drains the channel when Stop finds nothing to stop.
ReleaseTimer(t) ==
    [t EXCEPT !.where = "pooled", !.armed = FALSE, !.value = @ /\ t.armed]

Expire(t)   == [t EXCEPT !.armed = FALSE, !.firing = TRUE]
SendTime(t) == [t EXCEPT !.firing = FALSE, !.value = TRUE]
ReadTime(t) == [t EXCEPT !.value = FALSE]
=============================================================================
