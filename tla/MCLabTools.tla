----------------------------- MODULE MCLabTools -----------------------------
(***************************************************************************)
(* The small programs of the labs, each on its own: the first state says   *)
(* which of them is run.                                                   *)
(***************************************************************************)
EXTENDS Integers, Sequences, FiniteSets

CONSTANTS
  (* Quicksort *)      Ints, Junk, MaxTokens, MAX_SIZE, StackDepth, TailCall,
  (* WakeupProbe *)    Periods, Iterations, Microsecond, MaxClock,
  (* LatencyScripts *) Values, Counts, JunkLines,
  (* FairnessScripts *) Rows, Ms, MaxRows,
  (* ClusterMachine *) Machines, total_cpu, total_mem, Jobs, Algos, width, MaxJobs,
  (* ThrottleReport *) MaxPeriods, MaxSamples, MaxRestarts,
  (* SandboxBenchmark *) iterations, NotAnObject

VARIABLES
  tool,
  (* Quicksort *)      file, n, data, at, calls, low, high, depth, i, j, exit, output,
  (* WakeupProbe *)    clock, pc, period, iters, target, done, log, status,
                       started, woken,
  (* LatencyScripts *) script, counts, junk, outcome, percentiles,
  (* FairnessScripts *) rows, reading, fairness, ratio, analyze,
  (* ClusterMachine *) _allocs, completed, results,
  (* ThrottleReport *) stat, csv, measuring, restarts, passed, counted,
  (* SandboxBenchmark *) sandbox, latencies, overhead, silent, crashed, session, call_count,
                       allowed_count, blocked_count, error_count, request_counter,
                       audit, alive, started_tools

(* Run times, in tenths of a millisecond, on both sides of one millisecond *)
(* and so near each other that the two verdicts differ; and rows that      *)
(* break off, after whole columns or not, or have a bad column.            *)
MCRows ==
  [columns : {5}, good : {5}, run : {5, 10, 20, 24, 25, 36}, wait : {0}]
  \cup [columns : {5}, good : {3, 4}, run : {36}, wait : {0}]
  \cup [columns : {4}, good : {4}, run : {36}, wait : {0}]
  \cup [columns : {2}, good : {1, 2}, run : {36}, wait : {0}]
  \cup [columns : {0}, good : {0}, run : {36}, wait : {0}]

(* Jobs that fill a machine, that fit beside another, that need two        *)
(* machines, and that are submitted later.                                 *)
MCJobs ==
  [user : {"alice"}, submit_time : {0, 1}, duration : {1, 2}, cpu : {1}, mem : {1},
   nodes_required : {1}]
  \cup [user : {"bob"}, submit_time : {0}, duration : {2}, cpu : {2}, mem : {1},
        nodes_required : {1, 2}]
  \cup [user : {"charlie"}, submit_time : {1}, duration : {1}, cpu : {1}, mem : {2},
        nodes_required : {1}]

Sort    == INSTANCE Quicksort WITH pc <- at, status <- exit
Probe   == INSTANCE WakeupProbe
Latency == INSTANCE LatencyScripts
Fair    == INSTANCE FairnessScripts WITH pc <- reading
Cluster == INSTANCE ClusterMachine

Throttle == INSTANCE ThrottleReport WITH pc <- measuring

(* Two of the three tests, and what DEFAULT_POLICY says of them: it allows *)
(* a session twice the calls of a benchmark.                               *)
Tests ==
  <<[tool |-> "list_dir", args |-> [path |-> "."]],
    [tool |-> "shell_command", args |-> [command |-> "pwd"]]>>

Pattern(value) == [glob |-> {value}, inside |-> {}]

policy ==
  [tools |->
     [list_dir      |-> [allowed |-> TRUE, allowed_args |-> [path |-> {Pattern(".")}],
                         denied_args |-> [path |-> {Pattern("etc")}]],
      shell_command |-> [allowed |-> TRUE, allowed_args |-> [command |-> {Pattern("pwd")}],
                         denied_args |-> [command |-> {Pattern("rm log")}]]],
   default_deny |-> TRUE,
   max_calls_per_session |-> 2 * iterations]

Bench == INSTANCE SandboxBenchmark
  WITH pc <- session, log <- audit, started <- started_tools

ASSUME ToolsAssumption ==
  /\ Sort!SizeAssumption
  /\ Probe!ProbeAssumption
  /\ Latency!ScriptsAssumption
  /\ Fair!FairnessAssumption
  /\ Cluster!ClusterAssumption
  /\ Throttle!ThrottleAssumption
  /\ Bench!BenchmarkAssumption

sort    == <<file, n, data, at, calls, low, high, depth, i, j, exit, output>>
probe   == <<clock, pc, period, iters, target, done, log, status, started, woken>>
latency == <<script, counts, junk, outcome, percentiles>>
fair    == <<rows, reading, fairness, ratio, analyze>>
cluster == <<_allocs, completed, results>>
throttle == <<stat, csv, measuring, restarts, passed, counted>>
bench   == <<sandbox, latencies, overhead, silent, crashed, session, call_count, allowed_count,
             blocked_count, error_count, request_counter, audit, alive, started_tools>>
vars    == <<tool, sort, probe, latency, fair, cluster, throttle, bench>>

Tools == {"qs", "wakeup_lat", "percentiles", "fairness", "scheduler_sim",
          "throttling", "benchmark"}

(* The tools that are not run stay in one initial state. *)
Init ==
  /\ tool \in Tools
  /\ IF tool = "qs" THEN TRUE ELSE file = <<>>
  /\ IF tool = "wakeup_lat" THEN TRUE ELSE clock = 0
  /\ IF tool = "percentiles" THEN TRUE
     ELSE script = "ch04" /\ counts = [v \in Values |-> 0] /\ junk = 0
  /\ Sort!Init /\ Probe!Init /\ Latency!Init /\ Fair!Init /\ Cluster!Init
  /\ Throttle!Init /\ Bench!Init

RunQs ==
  /\ tool = "qs"
  /\ Sort!Next
  /\ UNCHANGED <<tool, probe, latency, fair, cluster, throttle, bench>>

ProbeRuns(Step) ==
  /\ tool = "wakeup_lat"
  /\ Step
  /\ UNCHANGED <<tool, sort, latency, fair, cluster, throttle, bench>>

RunPercentiles ==
  /\ tool = "percentiles"
  /\ Latency!Next
  /\ UNCHANGED <<tool, sort, probe, fair, cluster, throttle, bench>>

RunFairness ==
  /\ tool = "fairness"
  /\ Fair!Next
  /\ UNCHANGED <<tool, sort, probe, latency, cluster, throttle, bench>>

RunCluster ==
  /\ tool = "scheduler_sim"
  /\ Cluster!Next
  /\ UNCHANGED <<tool, sort, probe, latency, fair, throttle, bench>>

RunThrottling ==
  /\ tool = "throttling"
  /\ Throttle!Next
  /\ UNCHANGED <<tool, sort, probe, latency, fair, cluster, bench>>

RunBenchmark ==
  /\ tool = "benchmark"
  /\ Bench!Next
  /\ UNCHANGED <<tool, sort, probe, latency, fair, cluster, throttle>>

Next ==
  \/ RunQs \/ ProbeRuns(Probe!Next) \/ RunPercentiles \/ RunFairness \/ RunCluster
  \/ RunThrottling \/ RunBenchmark

(* As in Quicksort and WakeupProbe. *)
Spec ==
  /\ Init /\ [][Next]_vars
  /\ WF_vars(RunQs) /\ WF_vars(ProbeRuns(Probe!Program)) /\ WF_vars(ProbeRuns(Probe!Tick))

------------------------------------------------------------------------------
(* The properties of the tools, stated with each of them. *)

(* quicksort.c and main.c. *)
SortsInput == Sort!SortsInput
SortEnds   == tool = "qs" => Sort!SortEnds

(* wakeup_lat.c. *)
OnSchedule == Probe!OnSchedule

(* The percentile scripts. *)
TailNotHidden == Latency!TailNotHidden

(* Two programs that judge one file: fairness.py and analyze.py,           *)
(* measure_throttling.sh and analyze_throttling.py.                        *)
ScriptsAgree == Fair!VerdictsAgree /\ Throttle!SummariesAgree

(* scheduler_sim.py. *)
NeverOvercommitted == Cluster!NeverOvercommitted
MetricsSound       == Cluster!MetricsSound

(* benchmark.py, with sandbox.py. *)
SamplesAreResults == Bench!SamplesAreResults

=============================================================================
