---------------------------- MODULE SchedLabMain ----------------------------
(***************************************************************************)
(* schedlab_user.c from main to exit: setting the programs up, running one *)
(* mode until its time is over or a signal arrives, and tearing down.      *)
(*                                                                         *)
(* Time advances in half seconds, Second of them to a second, so that      *)
(* time(NULL) may truncate.  clock counts them from the start of the mode  *)
(* and stops counting at MaxClock; time itself never stops.                *)
(***************************************************************************)
EXTENDS Integers, FiniteSetsExt

CONSTANTS
  Modes,          \* values --mode is given
  Durations,      \* values --duration is given, in seconds
  RingSlots,      \* events the ring buffer holds
  MaxClock        \* bound: the clock is not followed beyond it

Second == 2

MainAssumption ==
  /\ Durations \subseteq Nat
  /\ RingSlots \in Nat \ {0}
  /\ MaxClock \in Nat
  /\ \A d \in Durations : d * Second <= MaxClock

NoAlarm == -1

KnownModes == {"stream", "latency", "fairness"}

VARIABLES
  (* The program. *)
  pc,             \* where main, or the function it is in, stands
  mode, duration, \* opts
  running,
  handling,       \* signals whose handler is sig_handler
  err,            \* "ok" or "failed"
  start,          \* time(NULL) when the timed loop was entered
  skel,           \* "none", "opened" or "destroyed"
  status,         \* exit status
  (* Its surroundings. *)
  clock,
  phase,          \* 1 if the clock starts half a second into a second
  alarm,          \* half seconds to SIGALRM, or NoAlarm
  asleep,         \* half seconds the sleep or poll still lasts
  backlog,        \* events in the ring buffer
  (* History. *)
  stopped         \* a SIGINT or SIGTERM arrived

opts == <<mode, duration>>
prog == <<running, handling, err, start, skel, status>>
vars == <<pc, opts, prog, clock, phase, alarm, asleep, backlog, stopped>>

time == (clock + phase) \div Second

------------------------------------------------------------------------------
Init ==
  /\ pc = "parse_args"
  /\ mode \in Modes
  /\ duration \in Durations
  /\ running = TRUE
  /\ handling = {}
  /\ err = "ok"
  /\ start = 0
  /\ skel = "none"
  /\ status = -1
  /\ clock = 0
  /\ phase \in {0, 1}
  /\ alarm = NoAlarm
  /\ asleep = 0
  /\ backlog = 0
  /\ stopped = FALSE

surroundings == <<clock, phase, alarm, asleep, backlog, stopped>>

Exit(s) == pc' = "exit" /\ status' = s

(* A failing parse_args or open returns 1 with nothing to destroy. *)
ParseArgs ==
  /\ pc = "parse_args"
  /\ \/ pc' = "open" /\ UNCHANGED status
     \/ Exit(1)
  /\ UNCHANGED <<opts, running, handling, err, start, skel, surroundings>>

Open ==
  /\ pc = "open"
  /\ \/ pc' = "load" /\ skel' = "opened" /\ UNCHANGED status
     \/ Exit(1) /\ UNCHANGED skel
  /\ UNCHANGED <<opts, running, handling, err, start, surroundings>>

(* load and attach; a failure of either goes to cleanup. *)
Load ==
  /\ pc \in {"load", "attach"}
  /\ \/ pc' = (IF pc = "load" THEN "attach" ELSE "signals") /\ UNCHANGED err
     \/ pc' = "cleanup" /\ err' = "failed"
  /\ UNCHANGED <<opts, running, handling, start, skel, status, surroundings>>

(* signal(SIGINT), signal(SIGTERM), and the choice of the mode. *)
Signals ==
  /\ pc = "signals"
  /\ handling' = handling \cup {"INT"}
  /\ pc' = CASE mode = "stream" -> "alarm"
             [] mode \in {"latency", "fairness"} -> "timed"
             [] OTHER -> "cleanup"
  /\ err' = IF mode \in KnownModes THEN err ELSE "failed"
  /\ clock' = 0
  /\ start' = phase \div Second
  /\ UNCHANGED <<opts, running, skel, status,
                 phase, alarm, asleep, backlog, stopped>>

(* ring_buffer__new, then sigaction(SIGALRM) and alarm for so many ticks. *)
Arm(ticks) ==
  /\ pc = "alarm"
  /\ \/ /\ pc' = "loop"
        /\ handling' = handling \cup {"ALRM"}
        /\ alarm' = ticks
        /\ UNCHANGED err
     \/ /\ pc' = "cleanup"
        /\ err' = "failed"
        /\ UNCHANGED <<handling, alarm>>
  /\ UNCHANGED <<opts, running, start, skel, status,
                 clock, phase, asleep, backlog, stopped>>

(* Bug: the alarm comes a tick early. *)
AlarmEarly == Arm(IF duration = 0 THEN NoAlarm ELSE duration * Second - 1)

(* alarm(duration), where 0 arms nothing. *)
Alarm == Arm(IF duration = 0 THEN NoAlarm ELSE duration * Second)

(* while (running) of the stream mode; ring_buffer__poll waits 100 ms. *)
StreamLoop ==
  /\ pc = "loop"
  /\ pc' = IF running THEN "poll" ELSE "free"
  /\ asleep' = IF running THEN 1 ELSE 0
  /\ UNCHANGED <<opts, prog, clock, phase, alarm, backlog, stopped>>

(* The wait ends with events to consume, by a timeout or by a signal. *)
PollWait ==
  /\ pc = "poll"
  /\ \/ backlog > 0 /\ pc' = "event"
     \/ asleep = 0 /\ pc' = "loop"
  /\ asleep' = 0
  /\ UNCHANGED <<opts, prog, clock, phase, alarm, backlog, stopped>>

(* Bug: no test of running. *)
EventAlways ==
  /\ pc = "event"
  /\ pc' = "printf"
  /\ UNCHANGED <<opts, prog, surroundings>>

(* event_handler: first the test of running, whose failure makes the poll  *)
(* return an error that ends the loop ...                                  *)
event_handler ==
  /\ pc = "event"
  /\ pc' = IF running THEN "printf" ELSE "free"
  /\ UNCHANGED <<opts, prog, surroundings>>

(* ... then the output.  The poll consumes until the ring buffer is empty. *)
Printf ==
  /\ pc = "printf"
  /\ backlog' = backlog - 1
  /\ pc' = IF backlog' > 0 THEN "event" ELSE "loop"
  /\ UNCHANGED <<opts, prog, clock, phase, alarm, asleep, stopped>>

(* ring_buffer__free; run_stream_mode returns 0, after a poll error too. *)
Free ==
  /\ pc = "free"
  /\ pc' = "cleanup"
  /\ UNCHANGED <<opts, prog, surroundings>>

(* while (running && (time(NULL) - start) < duration) sleep(1). *)
TimedLoop ==
  /\ pc = "timed"
  /\ IF running /\ time - start < duration
     THEN pc' = "sleep" /\ asleep' = Second
     ELSE pc' = "report" /\ UNCHANGED asleep
  /\ UNCHANGED <<opts, prog, clock, phase, alarm, backlog, stopped>>

Wakeup ==
  /\ pc = "sleep"
  /\ asleep = 0
  /\ pc' = "timed"
  /\ UNCHANGED <<opts, prog, surroundings>>

(* The report of the latency or fairness mode; both return 0. *)
Report ==
  /\ pc = "report"
  /\ pc' = "cleanup"
  /\ UNCHANGED <<opts, prog, surroundings>>

Cleanup ==
  /\ pc = "cleanup"
  /\ skel' = "destroyed"
  /\ Exit(IF err = "failed" THEN 1 ELSE 0)
  /\ UNCHANGED <<opts, running, handling, err, start, surroundings>>

Program ==
  \/ ParseArgs \/ Open \/ Load \/ Signals \/ Alarm
  \/ StreamLoop \/ PollWait \/ event_handler \/ Printf \/ Free
  \/ TimedLoop \/ Wakeup \/ Report \/ Cleanup

------------------------------------------------------------------------------
(* The surroundings. *)

Ended == pc \in {"exit", "killed"}

(* Half a second passes. *)
Tick ==
  /\ ~Ended
  /\ alarm # 0
  /\ clock' = Min({clock + 1, MaxClock})
  /\ alarm' = IF alarm = NoAlarm THEN NoAlarm ELSE alarm - 1
  /\ asleep' = IF asleep = 0 THEN 0 ELSE asleep - 1
  /\ UNCHANGED <<pc, opts, prog, phase, backlog, stopped>>

(* sig_handler.  A signal also ends a sleep or a wait, unless it comes     *)
(* between the test of running and the call.                               *)
sig_handler ==
  /\ running' = FALSE
  /\ asleep' \in {0, asleep}
  /\ UNCHANGED <<pc, handling, err, start, skel, status>>

SigAlarm ==
  /\ ~Ended
  /\ alarm = 0
  /\ alarm' = NoAlarm
  /\ sig_handler
  /\ UNCHANGED <<opts, clock, phase, backlog, stopped>>

(* SIGINT or SIGTERM; without a handler it kills the process. *)
Interrupt ==
  /\ ~Ended
  /\ ~stopped
  /\ stopped' = TRUE
  /\ IF "INT" \in handling
     THEN sig_handler
     ELSE pc' = "killed" /\ UNCHANGED <<prog, asleep>>
  /\ UNCHANGED <<opts, clock, phase, alarm, backlog>>

(* A handler streams an event; a full ring buffer drops it. *)
Produce ==
  /\ mode = "stream"
  /\ pc \in {"attach", "signals", "alarm", "loop", "poll", "event", "printf"}
  /\ backlog < RingSlots
  /\ backlog' = backlog + 1
  /\ UNCHANGED <<pc, opts, prog, clock, phase, alarm, asleep, stopped>>

Next == Program \/ Tick \/ SigAlarm \/ Interrupt \/ Produce

(* The process gets CPU time, time passes and signals are delivered.       *)
(* Nothing is assumed of SIGINT, nor of how many events are produced.      *)
Fairness == WF_vars(Program) /\ WF_vars(Tick) /\ WF_vars(SigAlarm)

Spec == Init /\ [][Next]_vars /\ Fairness

------------------------------------------------------------------------------
(* Properties. *)

(* A mode that nobody stops measures for its duration: the stream mode for *)
(* the whole of it, the other two, which truncate to seconds, for less     *)
(* than a second less.                                                     *)
RunsForDuration ==
  (pc = "report" \/ pc = "free") /\ ~stopped =>
    IF mode = "stream" THEN clock >= duration * Second
    ELSE clock > (duration - 1) * Second

(* After SIGINT, SIGTERM or SIGALRM the process ends, even if events are   *)
(* produced as fast as they are printed, so that the poll has no end; and  *)
(* with a duration of at least a second every mode comes to its end.       *)
AlwaysEnds == duration > 0 \/ ~running ~> Ended

=============================================================================
