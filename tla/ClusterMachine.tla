--------------------------- MODULE ClusterMachine ---------------------------
(***************************************************************************)
(* ch09-cluster-sched/sim/scheduler_sim.py: the timeline each Machine      *)
(* keeps of its allocations, run_all, which gives every algorithm a        *)
(* cluster of its own, and the metrics and the chart of its schedule.      *)
(*                                                                         *)
(* The schedulers are left to the reader of the book, schedule_fifo with   *)
(* this contract: find the earliest time at which nodes_required machines  *)
(* can all fit the job, and allocate it on them.  Schedule is such a       *)
(* scheduler, which may choose any machines.  A timeline holds the start   *)
(* of an allocation too; the code does not keep it and no operator that    *)
(* translates code looks at it.                                            *)
(***************************************************************************)
EXTENDS Integers, Sequences, FiniteSets, FiniteSetsExt, Functions

CONSTANTS
  Machines,
  total_cpu, total_mem,   \* of each machine
  Jobs,                   \* [user, submit_time, duration, cpu, mem, nodes_required]
  Algos,                  \* number of algorithms of run_all
  width,                  \* of the Gantt chart
  MaxJobs                 \* bound: jobs of a workload

ClusterAssumption ==
  /\ IsFiniteSet(Machines) /\ Machines # {}
  /\ total_cpu \in Nat \ {0}
  /\ total_mem \in Nat
  /\ \A job \in Jobs :
       /\ {job.submit_time, job.duration, job.mem} \subseteq Nat
       /\ {job.cpu, job.nodes_required} \subseteq Nat \ {0}
       /\ job.nodes_required <= Cardinality(Machines)
       /\ job.cpu <= total_cpu /\ job.mem <= total_mem
  /\ {Algos, MaxJobs} \subseteq Nat
  /\ width \in Nat \ {0}

VARIABLES
  _allocs,        \* the timeline of each machine
  completed,      \* jobs scheduled, with their start_time and end_time
  results         \* of the algorithms that are over: "metrics" or "None"

vars == <<_allocs, completed, results>>

(* The sum of Val over the elements of s at the places. *)
SumAt(s, places, Val(_)) == SumFunction([k \in places |-> Val(s[k])])

SumOver(s, Val(_)) == SumAt(s, DOMAIN s, Val)

_make_cluster == [m \in Machines |-> <<>>]

Init ==
  /\ _allocs = _make_cluster
  /\ completed = <<>>
  /\ results = <<>>

------------------------------------------------------------------------------
(* Machine. *)

(* Bug: an allocation that begins later is not counted. *)
used_now(m, t) ==
  {k \in DOMAIN _allocs[m] : _allocs[m][k].start <= t /\ _allocs[m][k].end > t}

(* Every allocation that ends after t counts, also one that begins later. *)
used(m, t) == {k \in DOMAIN _allocs[m] : _allocs[m][k].end > t}

free_at(m, t) ==
  [cpu |-> total_cpu - SumAt(_allocs[m], used(m, t), LAMBDA a : a.cpu),
   mem |-> total_mem - SumAt(_allocs[m], used(m, t), LAMBDA a : a.mem)]

can_fit(m, job, t) == free_at(m, t).cpu >= job.cpu /\ free_at(m, t).mem >= job.mem

ends(m) == {_allocs[m][k].end : k \in DOMAIN _allocs[m]}

(* A job that fits at no time is told to start at once. *)
earliest_fit(m, job, after) ==
  LET times == {t \in {after} \cup {e \in ends(m) : e > after} : can_fit(m, job, t)}
  IN  IF times # {} THEN Min(times)
      ELSE IF ends(m) # {} /\ can_fit(m, job, Max(ends(m))) THEN Max(ends(m))
      ELSE after

allocate(m, job, start) ==
  Append(_allocs[m], [start |-> start, end |-> start + job.duration,
                      cpu |-> job.cpu, mem |-> job.mem])

------------------------------------------------------------------------------
(* run_all *)

(* A scheduler places a job; all its nodes start together. *)
Schedule(job, nodes) ==
  LET start == Max({earliest_fit(m, job, job.submit_time) : m \in nodes}) IN
  /\ Len(results) < Algos
  /\ Len(completed) < MaxJobs
  /\ Cardinality(nodes) = job.nodes_required
  /\ _allocs' = [m \in Machines |-> IF m \in nodes THEN allocate(m, job, start)
                                    ELSE _allocs[m]]
  /\ completed' = Append(completed, [job |-> job, start_time |-> start,
                                     end_time |-> start + job.duration])
  /\ UNCHANGED results

(* Bug: one cluster for all algorithms. *)
FinishKeeps ==
  /\ Len(results) < Algos
  /\ \/ results' = Append(results, "metrics")
     \/ completed = <<>> /\ results' = Append(results, "None")
  /\ completed' = <<>>
  /\ UNCHANGED _allocs

(* The algorithm is over, or a stub: the next one has fresh jobs and a     *)
(* fresh cluster.                                                          *)
Finish ==
  /\ Len(results) < Algos
  /\ \/ results' = Append(results, "metrics")
     \/ completed = <<>> /\ results' = Append(results, "None")
  /\ completed' = <<>>
  /\ _allocs' = _make_cluster

Next ==
  \/ \E job \in Jobs, nodes \in SUBSET Machines : Schedule(job, nodes)
  \/ Finish

Spec == Init /\ [][Next]_vars

------------------------------------------------------------------------------
(* compute_metrics. *)

makespan == Max({completed[k].end_time : k \in DOMAIN completed})

cpu_time(c) == c.job.cpu * c.job.duration * c.job.nodes_required

total_cpu_time == SumOver(completed, cpu_time)

total_capacity ==
  IF makespan > 0 THEN Cardinality(Machines) * total_cpu * makespan ELSE 1

(* The numerators of avg_completion_time and avg_wait_time. *)
completion_time == SumOver(completed, LAMBDA c : c.end_time - c.job.submit_time)
wait_time       == SumOver(completed, LAMBDA c : c.start_time - c.job.submit_time)

users == {completed[k].job.user : k \in DOMAIN completed}

per_user_cpu_time ==
  [u \in users |->
     SumAt(completed, {k \in DOMAIN completed : completed[k].job.user = u}, cpu_time)]

(* Jain's index, as numerator and denominator. *)
square(x) == x * x

jain ==
  IF total_cpu_time > 0
  THEN <<square(SumFunction(per_user_cpu_time)),
         Cardinality(users) * SumFunction([u \in users |-> square(per_user_cpu_time[u])])>>
  ELSE <<1, 1>>

------------------------------------------------------------------------------
(* print_gantt: where the bar of a job begins and how long it is. *)

scaled(t) == IF makespan > 0 THEN (t * width) \div makespan ELSE t

left(c) == scaled(c.start_time)

bar(c) == Max({1, scaled(c.job.duration)})

------------------------------------------------------------------------------
(* Properties. *)

(* "Find the earliest time >= after when this machine can fit job": it     *)
(* fits then, at no moment before, and at every moment from then on, so    *)
(* that machines can be waited for together.                               *)
EarliestFit ==
  \A m \in Machines, job \in Jobs :
    LET after == job.submit_time
        fit   == earliest_fit(m, job, after)
    IN  /\ fit >= after
        /\ \A t \in after .. Max({fit} \cup ends(m)) : can_fit(m, job, t) <=> t >= fit

(* No machine ever runs more than it has, although a timeline forgets when *)
(* its allocations begin and jobs are placed before ones placed earlier,   *)
(* because a machine can be scheduled by its timeline.  So the utilization *)
(* that compute_metrics reports is never above one.                        *)
NeverOvercommitted ==
  /\ EarliestFit
  /\ completed # <<>> => total_cpu_time <= total_capacity
  /\ \A m \in Machines : \A t \in {_allocs[m][k].start : k \in DOMAIN _allocs[m]} :
       LET running == {k \in DOMAIN _allocs[m] : /\ _allocs[m][k].start <= t
                                                 /\ t < _allocs[m][k].end}
       IN  /\ SumAt(_allocs[m], running, LAMBDA a : a.cpu) <= total_cpu
           /\ SumAt(_allocs[m], running, LAMBDA a : a.mem) <= total_mem

(* The metrics are of this algorithm's schedule and of nothing else: the   *)
(* CPU time they count is what stands in the timelines.  The CPU times of  *)
(* the users make up the whole, no job waits less than nothing, Jain's     *)
(* index is between one user's share and one, and one for equal shares     *)
(* only.  The chart shows every job that takes time within its width,      *)
(* however the divisions round.                                            *)
MetricsSound ==
  completed # <<>> =>
    LET per_user == per_user_cpu_time
        Used(m) == SumOver(_allocs[m], LAMBDA a : a.cpu * (a.end - a.start))
    IN  /\ total_cpu_time = SumFunction([m \in Machines |-> Used(m)])
        /\ total_cpu_time = SumFunction(per_user)
        /\ 0 <= wait_time /\ wait_time <= completion_time
        /\ jain[1] <= jain[2] /\ jain[2] <= Cardinality(users) * jain[1]
        /\ jain[1] = jain[2] <=> \A u, v \in users : per_user[u] = per_user[v]
        /\ \A k \in DOMAIN completed :
             completed[k].job.duration > 0 => left(completed[k]) + bar(completed[k]) <= width

==============================================================================
