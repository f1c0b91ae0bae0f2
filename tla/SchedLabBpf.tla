----------------------------- MODULE SchedLabBpf -----------------------------
(***************************************************************************)
(* schedlab.bpf.c: four tracepoint programs that keep, per pid, the time   *)
(* of the last wakeup and a task_stats record, and a histogram of          *)
(* wakeup-to-switch latencies.                                             *)
(*                                                                         *)
(* The scheduler that fires the tracepoints is not part of the program; it *)
(* is modelled as far as the order and the arguments of the tracepoints    *)
(* depend on it.  It fires sched_wakeup, sched_wakeup_new and sched_switch *)
(* of one task under that task's runqueue lock, so two handlers never run  *)
(* for the same pid at once; the only word that handlers of different pids *)
(* share is a histogram slot, which they add to atomically.  A handler is  *)
(* therefore one step, together with the scheduler event it observes.      *)
(*                                                                         *)
(* Events have strictly increasing bpf_ktime_get_ns() stamps: every event  *)
(* comes d units after the one before, d in Durations.  MaxTime bounds the *)
(* clock for model checking.                                               *)
(***************************************************************************)
EXTENDS Integers, Sequences, BpfHashMap

CONSTANTS
  Pids,               \* pids of ordinary tasks; pid 0 is the idle task
  CPUs,
  FilterPid,          \* filter_pid: 0 traces every task
  StreamEvents,       \* stream_events
  RingSlots,          \* events the ring buffer holds
  BucketSize,         \* LATENCY_BUCKET_SIZE_NS
  MaxBuckets,         \* MAX_LATENCY_BUCKETS
  U32,                \* 2^w, w the width of the bucket variable
  SpuriousWakeups,    \* a task may be woken before it has left the CPU
  Durations,
  MaxTime

ASSUME PidsAssumption == Pids \subseteq Nat \ {0} /\ IsFiniteSet(Pids)
ASSUME IdleAssumption == FilterPid \in Nat
ASSUME HistAssumption ==
  /\ BucketSize \in Nat \ {0}
  /\ MaxBuckets \in Nat \ {0}
  /\ U32 \in Nat \ {0} /\ U32 > MaxBuckets
ASSUME TimeAssumption == Durations \subseteq Nat \ {0} /\ MaxTime \in Nat
ASSUME FlagAssumption ==
  /\ StreamEvents \in BOOLEAN
  /\ SpuriousWakeups \in BOOLEAN
  /\ RingSlots \in Nat

Idle == 0

VARIABLES
  (* The scheduler. *)
  now,            \* the clock of bpf_ktime_get_ns
  tstate,         \* task -> "none", "asleep", "queued" or "running"
  curr,           \* CPU -> the task it runs
  preparing,      \* tasks on a runqueue whose __state says asleep already
  exited,         \* tasks past sched_process_exit, still to be switched out
  (* The program. *)
  attached,       \* number of the four programs attached so far
  wakeup_ts,
  task_stats,     \* task_stats_map
  latency_hist,
  events,         \* records in the ring buffer, oldest first
  (* History variables: what the maps should say.  No action reads them. *)
  cpuTime,        \* task -> time spent on a CPU
  queueTime,      \* task -> time spent runnable and not running
  queuedFor,      \* task -> length of its current stay on the runqueue
  wakeups,        \* task -> wakeup tracepoints it fired with handlers on
  observed        \* tasks whose whole life the handlers have seen

kernelVars  == <<now, tstate, curr, preparing, exited>>
mapVars     == <<wakeup_ts, task_stats, latency_hist, events>>
historyVars == <<cpuTime, queueTime, queuedFor, wakeups, observed>>
vars == <<kernelVars, attached, mapVars, historyVars>>

TaskStates == {"none", "asleep", "queued", "running"}

TaskStats == [run_time_ns : Nat, wait_time_ns : Nat, switches : Nat,
              wakeups : Nat, last_wakeup_ts : Nat, last_switch_in_ts : Nat]

Event == [event_type : {"WAKEUP", "SWITCH", "EXIT"},
          timestamp_ns : Nat, pid : Nat, prev_pid : Nat]

------------------------------------------------------------------------------
(* The programs in the order the skeleton attaches them. *)
WAKEUP == 1
WAKEUP_NEW == 2
SWITCH == 3
EXIT == 4

Attached(prog) == attached >= prog

should_trace(pid) == pid # Idle /\ (FilterPid = 0 \/ pid = FilterPid)

(* Bugs that a property must refute, here and below: the division rounds up. *)
BucketRoundedUp(latency_ns) ==
  LET bucket == ((latency_ns + BucketSize - 1) \div BucketSize) % U32
  IN  IF bucket >= MaxBuckets THEN MaxBuckets - 1 ELSE bucket

Bucket(latency_ns) ==
  LET bucket == (latency_ns \div BucketSize) % U32
  IN  IF bucket >= MaxBuckets THEN MaxBuckets - 1 ELSE bucket

record_latency(latency_ns) ==
  latency_hist' = [latency_hist EXCEPT ![Bucket(latency_ns)] = @ + 1]

(* bpf_ringbuf_reserve ... bpf_ringbuf_submit, or nothing when it is full. *)
Stream(event_type, ts, pid, prev_pid) ==
  events' = IF StreamEvents /\ Len(events) < RingSlots
            THEN Append(events, [event_type |-> event_type,
                                 timestamp_ns |-> ts,
                                 pid |-> pid, prev_pid |-> prev_pid])
            ELSE events

FirstStats(ts) ==
  [run_time_ns |-> 0, wait_time_ns |-> 0, switches |-> 0,
   wakeups |-> 1, last_wakeup_ts |-> ts, last_switch_in_ts |-> 0]

Woken(stats, ts) ==
  [stats EXCEPT !.wakeups = @ + 1, !.last_wakeup_ts = ts]

(* Bugs: a slice is accounted although its start was not seen; its ends are *)
(* swapped.                                                                 *)
SwitchedOutUnseen(stats, ts) ==
  [stats EXCEPT !.run_time_ns = @ + (ts - stats.last_switch_in_ts),
                !.switches = @ + 1]

SwitchedOutSwapped(stats, ts) ==
  IF stats.last_switch_in_ts > 0
  THEN [stats EXCEPT !.run_time_ns = @ + (stats.last_switch_in_ts - ts),
                     !.switches = @ + 1]
  ELSE stats

(* The outgoing task has completed a slice of run time. *)
SwitchedOut(stats, ts) ==
  IF stats.last_switch_in_ts > 0
  THEN [stats EXCEPT !.run_time_ns = @ + (ts - stats.last_switch_in_ts),
                     !.switches = @ + 1]
  ELSE stats

(* Bugs: the wait is taken from the last wakeup, which may be long past; a  *)
(* dispatch counts as a wakeup.                                             *)
SwitchedInSinceWakeup(stats, ts, waited) ==
  [stats EXCEPT !.wait_time_ns = @ + (ts - stats.last_wakeup_ts),
                !.last_switch_in_ts = ts]

SwitchedInCounts(stats, ts, waited) ==
  [stats EXCEPT !.wait_time_ns = @ + waited, !.last_switch_in_ts = ts,
                !.wakeups = @ + 1]

SwitchedIn(stats, ts, waited) ==
  [stats EXCEPT !.wait_time_ns = @ + waited, !.last_switch_in_ts = ts]

(* Bug: the handler gives up when there is no room in the ring buffer. *)
WakeupGivesUp(pid, ts) ==
  IF /\ Attached(WAKEUP) /\ should_trace(pid)
     /\ ~(StreamEvents /\ Len(events) >= RingSlots)
  THEN /\ wakeup_ts' = UpdateAny(wakeup_ts, pid, ts)
       /\ task_stats' = IF pid \in DOMAIN task_stats
                        THEN [task_stats EXCEPT ![pid] = Woken(@, ts)]
                        ELSE UpdateNoExist(task_stats, pid, FirstStats(ts))
       /\ Stream("WAKEUP", ts, pid, Idle)
       /\ UNCHANGED latency_hist
  ELSE UNCHANGED mapVars

handle_sched_wakeup(pid, ts) ==
  IF Attached(WAKEUP) /\ should_trace(pid)
  THEN /\ wakeup_ts' = UpdateAny(wakeup_ts, pid, ts)
       /\ task_stats' = IF pid \in DOMAIN task_stats
                        THEN [task_stats EXCEPT ![pid] = Woken(@, ts)]
                        ELSE UpdateNoExist(task_stats, pid, FirstStats(ts))
       /\ Stream("WAKEUP", ts, pid, Idle)
       /\ UNCHANGED latency_hist
  ELSE UNCHANGED mapVars

handle_sched_wakeup_new(pid, ts) ==
  IF Attached(WAKEUP_NEW) /\ should_trace(pid)
  THEN /\ wakeup_ts' = UpdateAny(wakeup_ts, pid, ts)
       /\ task_stats' = UpdateNoExist(task_stats, pid, FirstStats(ts))
       /\ UNCHANGED <<latency_hist, events>>
  ELSE UNCHANGED mapVars

(* The map once the outgoing task's slice is accounted. *)
AfterPrev(prev, ts) ==
  IF should_trace(prev) /\ prev \in DOMAIN task_stats
  THEN [task_stats EXCEPT ![prev] = SwitchedOut(@, ts)]
  ELSE task_stats

(* Bug: the wakeup stays in the map after it was sampled. *)
SwitchKeepsWakeup(prev, next, ts) ==
  IF Attached(SWITCH)
  THEN /\ IF should_trace(next) /\ next \in DOMAIN wakeup_ts
          THEN record_latency(ts - wakeup_ts[next])
          ELSE UNCHANGED latency_hist
       /\ task_stats' =
            [p \in DOMAIN task_stats |->
               IF p = next
               THEN SwitchedIn(task_stats[p], ts, IF p \in DOMAIN wakeup_ts
                                                  THEN ts - wakeup_ts[p] ELSE 0)
               ELSE AfterPrev(prev, ts)[p]]
       /\ UNCHANGED <<wakeup_ts, events>>
  ELSE UNCHANGED mapVars

handle_sched_switch(prev, next, ts) ==
  IF Attached(SWITCH)
  THEN /\ IF should_trace(next) /\ next \in DOMAIN wakeup_ts
          THEN LET latency_ns == ts - wakeup_ts[next] IN
               /\ record_latency(latency_ns)
               /\ task_stats' =
                    IF next \in DOMAIN task_stats
                    THEN [AfterPrev(prev, ts) EXCEPT
                            ![next] = SwitchedIn(@, ts, latency_ns)]
                    ELSE AfterPrev(prev, ts)
               /\ wakeup_ts' = Delete(wakeup_ts, next)
          ELSE /\ task_stats' =
                    IF should_trace(next) /\ next \in DOMAIN task_stats
                    THEN [AfterPrev(prev, ts) EXCEPT
                            ![next] = SwitchedIn(@, ts, 0)]
                    ELSE AfterPrev(prev, ts)
               /\ UNCHANGED <<latency_hist, wakeup_ts>>
       /\ IF should_trace(prev) \/ should_trace(next)
          THEN Stream("SWITCH", ts, next, prev)
          ELSE UNCHANGED events
  ELSE UNCHANGED mapVars

(* Bug: the handler frees the record that user space has yet to read. *)
ExitFreesRecord(pid, ts) ==
  IF Attached(EXIT) /\ should_trace(pid)
  THEN /\ wakeup_ts' = Delete(wakeup_ts, pid)
       /\ task_stats' = Delete(task_stats, pid)
       /\ Stream("EXIT", ts, pid, Idle)
       /\ UNCHANGED latency_hist
  ELSE UNCHANGED mapVars

handle_sched_process_exit(pid, ts) ==
  IF Attached(EXIT) /\ should_trace(pid)
  THEN /\ wakeup_ts' = Delete(wakeup_ts, pid)
       /\ Stream("EXIT", ts, pid, Idle)
       /\ UNCHANGED <<task_stats, latency_hist>>
  ELSE UNCHANGED mapVars

------------------------------------------------------------------------------
(* The scheduler, and the handler each of its events runs. *)

Start(programs, states, seen) ==
  /\ now = 0
  /\ tstate \in [Pids -> states]
  /\ curr = [c \in CPUs |-> Idle]
  /\ preparing = {}
  /\ exited = {}
  /\ attached = programs
  /\ wakeup_ts = EmptyMap
  /\ task_stats = EmptyMap
  /\ latency_hist = [b \in 0 .. MaxBuckets - 1 |-> 0]
  /\ events = <<>>
  /\ cpuTime = [p \in Pids |-> 0]
  /\ queueTime = [p \in Pids |-> 0]
  /\ queuedFor = [p \in Pids |-> 0]
  /\ wakeups = [p \in Pids |-> 0]
  /\ observed = seen

Init == Start(0, {"none", "asleep", "queued"}, {})

(* d units pass, then the event happens: tasks in joining enter a runqueue *)
(* with it.                                                                *)
Elapse(d, joining) ==
  /\ now + d <= MaxTime
  /\ now' = now + d
  /\ cpuTime' = [p \in Pids |->
                   IF tstate[p] = "running" THEN cpuTime[p] + d ELSE cpuTime[p]]
  /\ queueTime' = [p \in Pids |->
                   IF tstate[p] = "queued" THEN queueTime[p] + d ELSE queueTime[p]]
  /\ queuedFor' = [p \in Pids |->
                   IF p \in joining THEN 0
                   ELSE IF tstate[p] = "queued" THEN queuedFor[p] + d
                   ELSE queuedFor[p]]

(* schedlab_bpf__attach attaches the programs one at a time. *)
Attach ==
  /\ attached < EXIT
  /\ attached' = attached + 1
  /\ observed' = IF attached' = EXIT
                 THEN {p \in Pids : tstate[p] = "none" /\ cpuTime[p] = 0
                                    /\ wakeups[p] = 0}
                 ELSE observed
  /\ UNCHANGED <<kernelVars, mapVars, cpuTime, queueTime, queuedFor, wakeups>>

(* A fork: wake_up_new_task puts the child on a runqueue. *)
Fork(p, d) ==
  /\ tstate[p] = "none"
  /\ Elapse(d, {p})
  /\ tstate' = [tstate EXCEPT ![p] = "queued"]
  /\ wakeups' = IF Attached(WAKEUP_NEW) THEN [wakeups EXCEPT ![p] = @ + 1]
                ELSE wakeups
  /\ handle_sched_wakeup_new(p, now + d)
  /\ UNCHANGED <<curr, preparing, exited, attached, observed>>

(* try_to_wake_up: of a sleeping task, which is enqueued, or of a task     *)
(* that set its state to sleep but is still on a runqueue (ttwu_runnable); *)
(* that one stays where it is.                                             *)
Wake(p, d) ==
  /\ \/ /\ tstate[p] = "asleep"
        /\ Elapse(d, {p})
        /\ tstate' = [tstate EXCEPT ![p] = "queued"]
        /\ UNCHANGED preparing
     \/ /\ SpuriousWakeups
        /\ p \in preparing
        /\ Elapse(d, {})
        /\ preparing' = preparing \ {p}
        /\ UNCHANGED tstate
  /\ wakeups' = IF Attached(WAKEUP) THEN [wakeups EXCEPT ![p] = @ + 1]
                ELSE wakeups
  /\ handle_sched_wakeup(p, now + d)
  /\ UNCHANGED <<curr, exited, attached, observed>>

(* A running task sets its __state before it calls schedule(). *)
PrepareToSleep(p) ==
  /\ tstate[p] = "running"
  /\ p \notin preparing
  /\ preparing' = preparing \cup {p}
  /\ UNCHANGED <<now, tstate, curr, exited, attached, mapVars, historyVars>>

(* What may become of the task that is switched out: it is preempted, goes *)
(* to sleep, or is dead for good.                                          *)
LeavesAs(prev) ==
  {"queued"}
    \cup (IF prev \in preparing THEN {"asleep"} ELSE {})
    \cup (IF prev \in exited THEN {"none"} ELSE {})

ContextSwitch(c, next, d) ==
  LET prev == curr[c] IN
  /\ next # prev
  /\ next # Idle => tstate[next] = "queued"
  /\ curr' = [curr EXCEPT ![c] = next]
  /\ \E left \in IF prev = Idle THEN {"none"} ELSE LeavesAs(prev) :
       /\ tstate' = [p \in Pids |-> IF p = prev THEN left
                                    ELSE IF p = next THEN "running"
                                    ELSE tstate[p]]
       /\ preparing' = IF left = "queued" THEN preparing ELSE preparing \ {prev}
       /\ exited' = IF left = "none" THEN exited \ {prev} ELSE exited
  /\ Elapse(d, {prev} \cap Pids)
  /\ handle_sched_switch(prev, next, now + d)
  /\ UNCHANGED <<attached, wakeups, observed>>

(* do_exit fires sched_process_exit on the CPU of the task, which runs on, *)
(* and may even sleep again, until it is switched out dead.                *)
ProcessExit(p, d) ==
  /\ tstate[p] = "running"
  /\ p \notin exited \cup preparing
  /\ Elapse(d, {})
  /\ exited' = exited \cup {p}
  /\ handle_sched_process_exit(p, now + d)
  /\ UNCHANGED <<tstate, curr, preparing, attached, wakeups, observed>>

(* ring_buffer__poll hands the oldest record to event_handler. *)
Consume ==
  /\ events # <<>>
  /\ events' = Tail(events)
  /\ UNCHANGED <<kernelVars, attached, wakeup_ts, task_stats, latency_hist,
                 historyVars>>

Next ==
  \/ Attach
  \/ \E p \in Pids, d \in Durations : Fork(p, d)
  \/ \E p \in Pids, d \in Durations : Wake(p, d)
  \/ \E p \in Pids : PrepareToSleep(p)
  \/ \E c \in CPUs, next \in Pids \cup {Idle}, d \in Durations :
       ContextSwitch(c, next, d)
  \/ \E p \in Pids, d \in Durations : ProcessExit(p, d)
  \/ Consume

Spec == Init /\ [][Next]_vars

(* The behaviours of Spec in which the programs are all attached before any *)
(* task of Pids is forked, as when the lab starts its workload after        *)
(* schedlab.                                                                *)
InitTracing == Start(EXIT, {"none"}, Pids)

SpecTracing == InitTracing /\ [][Next]_vars

------------------------------------------------------------------------------
(* Properties. *)

TypeOK ==
  /\ now \in Nat
  /\ tstate \in [Pids -> TaskStates]
  /\ curr \in [CPUs -> Pids \cup {Idle}]
  /\ preparing \subseteq Pids
  /\ exited \subseteq Pids
  /\ attached \in 0 .. EXIT
  /\ DOMAIN wakeup_ts \subseteq {p \in Pids : should_trace(p)}
  /\ wakeup_ts \in [DOMAIN wakeup_ts -> Nat]
  /\ DOMAIN task_stats \subseteq {p \in Pids : should_trace(p)}
  /\ task_stats \in [DOMAIN task_stats -> TaskStats]
  /\ latency_hist \in [0 .. MaxBuckets - 1 -> Nat]
  /\ events \in Seq(Event)
  /\ cpuTime \in [Pids -> Nat]
  /\ queueTime \in [Pids -> Nat]
  /\ queuedFor \in [Pids -> Nat]
  /\ wakeups \in [Pids -> Nat]
  /\ observed \subseteq Pids

(* The part of a task's current slice that run_time_ns does not hold yet. *)
Slice(p) ==
  IF tstate[p] = "running" /\ task_stats[p].last_switch_in_ts > 0
  THEN now - task_stats[p].last_switch_in_ts ELSE 0

(* The run time reported for a pid never exceeds the CPU time its tasks    *)
(* have had, whenever the programs were attached, whichever entries were   *)
(* lost to a full map and however often the pid was reused                 *)
(* (handle_sched_switch accounts a slice only from a switch-in it saw).    *)
RunTimeSound ==
  \A p \in DOMAIN task_stats :
    task_stats[p].run_time_ns + Slice(p) <= cpuTime[p]

(* For a task whose whole life was traced the run time is exact: no slice  *)
(* is missed, although handle_sched_wakeup and handle_sched_wakeup_new     *)
(* ignore a failed insertion, because an entry that could not be inserted  *)
(* at the first wakeup is never inserted later.                            *)
RunTimeExact ==
  \A p \in DOMAIN task_stats \cap observed :
    task_stats[p].run_time_ns + Slice(p) = cpuTime[p]

(* The reported wait time of a traced task is time it was runnable and not *)
(* running: nothing is counted twice and no run time is counted as wait.   *)
WaitTimeSound ==
  \A p \in DOMAIN task_stats \cap observed :
    task_stats[p].wait_time_ns
      + (IF p \in DOMAIN wakeup_ts THEN now - wakeup_ts[p] ELSE 0)
        <= queueTime[p]

(* wakeups counts a pid's wakeups, possibly not all, and never twice. *)
WakeupsSound ==
  \A p \in DOMAIN task_stats : task_stats[p].wakeups \in 1 .. wakeups[p]

(* The units a function into Nat counts, and how many they are. *)
Units(f) == UNION {{x} \X (1 .. f[x]) : x \in DOMAIN f}

Samples == Cardinality(Units(latency_hist))

Delivered == Cardinality(Units(wakeups))

(* A wakeup is counted in the histogram at most once: samples taken and    *)
(* samples still to come never exceed the wakeups the tracepoints fired.   *)
OneSamplePerWakeup == Samples + Cardinality(DOMAIN wakeup_ts) <= Delivered

(* With every task traced from its fork, room in the map and no task woken *)
(* on its CPU, no wakeup goes missing either.                              *)
EveryWakeupSampled ==
  (Pids \subseteq observed /\ FilterPid = 0 /\ Cardinality(Pids) <= MAX_PIDS
     /\ ~SpuriousWakeups)
    => Samples + Cardinality(DOMAIN wakeup_ts) = Delivered

(* With the programs attached first and no task woken on its CPU, the maps *)
(* implement the promise of the latency mode: the tasks with an entry in   *)
(* wakeup_ts are those whose latency is being measured, and queuedFor, the *)
(* time they have really spent on the runqueue, is what gets sampled.      *)
Promise == INSTANCE RunqueueLatency WITH
             waiting <- [p \in DOMAIN wakeup_ts |-> queuedFor[p]],
             hist <- latency_hist

ImplementsPromise == Promise!Spec

------------------------------------------------------------------------------
(* What the lab's documents say, and the program does not do. *)

(* "Total time spent waiting" (schedlab.h): all the time a traced task     *)
(* spent runnable and not running.                                         *)
WaitTimeIsTotal ==
  \A p \in DOMAIN task_stats \cap observed :
    tstate[p] = "running" =>
      task_stats[p].wait_time_ns = queueTime[p]

==============================================================================
