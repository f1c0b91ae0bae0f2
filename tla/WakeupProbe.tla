----------------------------- MODULE WakeupProbe -----------------------------
(***************************************************************************)
(* ch04-sched-latency/wakeup_lat.c: it sleeps until the next point of a    *)
(* periodic schedule and logs how long after that point it is running.     *)
(*                                                                         *)
(* Time is in units of which Microsecond make a microsecond, and clock is  *)
(* CLOCK_MONOTONIC, followed from where the schedule is laid out.  Signals *)
(* may interrupt the sleep, and the process may be preempted for any time  *)
(* between two steps.                                                      *)
(***************************************************************************)
EXTENDS Integers, Sequences, SequencesExt

CONSTANTS
  Periods,        \* values --period-us is given
  Iterations,     \* values --iters is given
  Microsecond,
  MaxClock        \* bound: the process is not preempted beyond it

ProbeAssumption ==
  /\ Periods \subseteq Nat
  /\ Iterations \subseteq Nat
  /\ Microsecond \in Nat \ {0}
  /\ MaxClock \in Nat

VARIABLES
  clock,
  pc,             \* "args", "start", "next", "sleep", "woke" or "exit"
  period, iters,
  target,         \* target_ns
  done,           \* the loop variable: iterations that were logged
  log,            \* the latencies printed, in microseconds
  status,
  started, woken  \* history: the clock when first read, and when read for each entry

args    == <<period, iters>>
history == <<started, woken>>
vars    == <<clock, pc, args, target, done, log, status, history>>

(* period_ns *)
step == period * Microsecond

Init ==
  /\ clock \in 0 .. Microsecond - 1
  /\ pc = "args"
  /\ period = 0
  /\ iters = 0
  /\ target = 0
  /\ done = 0
  /\ log = <<>>
  /\ status = -1
  /\ started = 0
  /\ woken = <<>>

(* A help text, an argument that is wrong, or the numbers. *)
ParseArgs ==
  /\ pc = "args"
  /\ \/ /\ pc' = "exit"
        /\ status' \in {0, 2}
        /\ UNCHANGED args
     \/ /\ pc' = "start"
        /\ period' \in Periods
        /\ iters' \in Iterations
        /\ UNCHANGED status
  /\ UNCHANGED <<clock, target, done, log, history>>

(* Pinned or not, it starts ten periods in the future. *)
StartSchedule ==
  /\ pc = "start"
  /\ started' = clock
  /\ target' = clock + 10 * step
  /\ pc' = "next"
  /\ UNCHANGED <<clock, args, done, log, status, woken>>

(* Bug: the next point is a period after the last wakeup. *)
NextFromWakeup ==
  /\ pc = "next"
  /\ done < iters
  /\ target' = (IF woken = <<>> THEN target ELSE Last(woken)) + step
  /\ pc' = "sleep"
  /\ UNCHANGED <<clock, args, done, log, status, history>>

NextTarget ==
  /\ pc = "next"
  /\ done < iters
  /\ target' = target + step
  /\ pc' = "sleep"
  /\ UNCHANGED <<clock, args, done, log, status, history>>

Finish ==
  /\ pc = "next"
  /\ done >= iters
  /\ pc' = "exit"
  /\ status' = 0
  /\ UNCHANGED <<clock, args, target, done, log, history>>

(* clock_nanosleep with TIMER_ABSTIME returns once the target is reached, *)
(* at once if it has passed.                                              *)
Wake ==
  /\ pc = "sleep"
  /\ clock >= target
  /\ pc' = "woke"
  /\ UNCHANGED <<clock, args, target, done, log, status, history>>

(* EINTR: the sleep is taken up again, until the same target. *)
Signal ==
  /\ pc = "sleep"
  /\ UNCHANGED vars

late == IF clock > target THEN clock - target ELSE 0

Log ==
  /\ pc = "woke"
  /\ log' = Append(log, late \div Microsecond)
  /\ woken' = Append(woken, clock)
  /\ done' = done + 1
  /\ pc' = "next"
  /\ UNCHANGED <<clock, args, target, status, started>>

Tick ==
  /\ clock < MaxClock
  /\ pc \in {"next", "sleep", "woke"}
  /\ clock' = clock + 1
  /\ UNCHANGED <<pc, args, target, done, log, status, history>>

Program == ParseArgs \/ StartSchedule \/ NextTarget \/ Finish \/ Wake \/ Log

Next == Program \/ Signal \/ Tick

(* The process gets CPU time and time passes; signals need not come. *)
Spec == Init /\ [][Next]_vars /\ WF_vars(Program) /\ WF_vars(Tick)

------------------------------------------------------------------------------
(* Properties. *)

(* Every entry is the delay against the schedule that was laid out at the  *)
(* start, one point per period, and no entry comes before its point: a     *)
(* process that is kept from running for many periods logs all of them,    *)
(* each with the delay of its own point, and neither signals nor earlier   *)
(* delays shift the schedule.                                              *)
OnSchedule ==
  \A k \in DOMAIN log :
    LET point == started + (10 + k) * step
    IN  /\ woken[k] >= point
        /\ log[k] = (woken[k] - point) \div Microsecond

==============================================================================
