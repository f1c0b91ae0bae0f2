# Verification of the code in this repository

The repository is a book on operating systems and the programs of its labs.
This directory models those programs in TLA+, checks the models with TLC and
proves all safety properties that the runs check, for every value of the
constants, with TLAPS. The chapters are in
`src/src/part*`, the programs in `src/code/ch*` and `src/projects`; below, a
path like `ch05-schedlab/schedlab.bpf.c` is relative to `src/code`.

## 1. Inventory

The programs do not call one another: each lab stands alone. What interacts is
inside a lab: threads of control, the kernel, files that one program writes and
another reads (the CSV files of `schedlab` and of the throttling lab, the
sandbox's log, the tracer's trace).

| Component | State it keeps | Operations | What is hard about it | What makes it correct |
|---|---|---|---|---|
| **SchedLab kernel programs** (`ch05-schedlab/schedlab.bpf.c`, `schedlab.h`) | `wakeup_ts` and `task_stats_map` per pid, `latency_hist`, the ring buffer | four tracepoint handlers | handlers run on all CPUs, between each other, from the middle of any task's life; maps are finite, pids are reused, time stamps are subtracted unsigned | accounted run time is CPU time the task had; a wakeup is one sample; the histogram is the waiting time on the runqueue |
| **SchedLab latency report** (`run_latency_mode`, `scripts/percentiles.py`, `scripts/analyze.py`) | a copy of the histogram, the percentiles | read, scan, print, write CSV | the histogram moves while it is read; integer targets; the first and the last bucket | percentiles ordered, present, within a sample of their definition; the tools agree |
| **SchedLab fairness report** (`run_fairness_mode`, `scripts/fairness.py`, `scripts/analyze.py`) | the key of the walk, one copied record, the rows | `bpf_map_get_next_key`, lookup, print; the scripts' verdicts | handlers insert and update during the walk; a record is copied in pieces | every record listed exactly once, no row mixes two pids, the walk ends; the two verdicts are close if both count the same rows |
| **SchedLab program** (`main`, `parse_args`, the three mode loops, the signal handlers) | `running`, `opts`, the alarm, the poll | set up, loop, report, tear down | signals and SIGALRM at any point, a poll that is never out of events, whole seconds | it measures for its duration, and it stops |
| **SchedLab event stream** (the handlers' stamp, reserve and submit; `run_stream_mode`, `event_handler`) | the ring buffer, handlers in progress | stamp, reserve, submit, poll, print | stamping and reserving are two steps on several CPUs; an unsubmitted record holds up the others; the buffer is finite | what is submitted is printed once, in order, however late; nothing else is lost than what a full buffer refused |
| **Agent sandbox** (`ch12-agent-sandbox`: `sandbox.py`, `policy.py`, `audit.py`, `tools.py`) | the counts of a session, the audit log file, tool processes | `execute`, policy, log, subprocess with timeout, `close`, the log's statistics | several sessions append to one file; Ctrl-C, SIGKILL and timeouts between any two steps; exceptions of three kinds | decisions are logged before tools start; limit; counts match the log |
| **Sandbox tools** (`ch12-agent-sandbox/tools.py`) | files of a directory, the locals of a call | read, write, list, shell; a process per call, its timeout | each tool is several system calls on files that others use; killed between any two | what is reported is true of the files; a write is whole or leaves a part of one; every call ends |
| **Sandbox benchmark** (`ch12-agent-sandbox/benchmark.py`) | a sandbox per test and way, its latencies | call, measure, close, compare | calls fail, time out or would be refused | latencies are those of results, of all calls made |
| **ReAct agent and tracer** (`ch12-react-perf`: `agent.py`, `tracer.py`, `waterfall.py`) | messages, open spans, the context of each task, the trace file | chat, tool call, final answer; enter and exit of a span; the chart | gathered calls, several agents, exceptions in the middle of spans | the trace is the tree of what ran; the transcript is well formed; the chart holds every bar |
| **minictl** (`ch06-minictl/src`) | two processes and a pipe | `main`, `run`, `chroot`, the child | the parent sets up while the child waits; every call can fail; either may be killed | nothing runs before the set-up; success is the command's; no child is left, none waits for ever |
| **PagerUSE** (`ch03-pageruse`: `server.js`, `src/core.js`, `static/index.html`) | the page's scenario and terminal, requests in flight, the server process | load, run a command, the server's three handlers, the call of a model | answers in any order; awaits; an exception in an async handler ends the process | what the terminal shows belongs to the scenario on the page; commands end; no typed command ends the server |
| **Quicksort** (`ch02-quicksort`) | the array, the calls and how deep they nest | read, partition, write | equal elements, `i` and `j` at the borders, a full array, the C stack | output is the sorted input, or the program died of its stack |
| **wakeup_lat** (`ch04-sched-latency/wakeup_lat.c`) | the next target | sleep, log | EINTR; being preempted for several periods | latencies are against the fixed schedule |
| **Percentile scripts** (ch04, ch05, ch10, ch12 `benchmark.py`, `projects/01`) | none | read, sort, pick or interpolate | small samples, rounding, lines that do not parse | ordered, inside the data, tail not hidden |
| **Cluster simulator** (`ch09-cluster-sched/sim/scheduler_sim.py`) | the timeline of each machine, the results | `can_fit`, `earliest_fit`, `allocate`, `run_all`, metrics, Gantt chart | a timeline forgets starts; jobs placed out of order of their starts; algorithms one after the other | no machine overcommitted; `earliest_fit` is the earliest; metrics are of one schedule |
| **Throttling scripts** (`ch07-k8s-resources/scripts`) | the container's counters, the CSV rows | sample, summarise twice | reads that fail or break off, a container that restarts and counts from 0 | the two summaries agree, and are what was counted, where the rows are whole |
| fsync benchmark, lab scripts, book | | | | not modelled, or its percentiles only, see section 7 |

The hazards each component is exposed to, with the line where they bite and
the properties that would catch them, are listed in `PROJECT.json`.

## 2. Modules

| Module | Models | Composes or is used by |
|---|---|---|
| `BpfHashMap` | the kernel's hash map as the handlers use it (external) | extended by `SchedLabBpf` |
| `SchedLabBpf` | the four handlers, each one step with the scheduler event that fires it | refines `RunqueueLatency` |
| `RunqueueLatency` | abstract: which tasks wait, for how long, and a histogram of it | instantiated by `SchedLabBpf` |
| `SchedLabBpfProofs` | theorems: run time, wakeups, waiting, and the refinement | extends `SchedLabBpf` |
| `LatencyReport` | `run_latency_mode` after its loop, and the scripts on its CSV | instantiated by `MCSchedLabUser` |
| `FairnessReport` | `run_fairness_mode` after its loop | instantiated by `MCSchedLabUser` |
| `EventStream` | the stream mode from an event's stamp to its line | instantiated by `MCSchedLabUser` |
| `SchedLabMain` | `schedlab_user.c` from `main` to exit | instantiated by `MCSchedLabUser` |
| `SchedLabUserProofs` | theorems about the four modules above | extends `MCSchedLabUser` |
| `AgentSandbox` | all sessions on one audit log | instantiated by `SandboxBenchmark` |
| `AgentSandboxProofs` | theorems: the log, the limit and the counts | extends `AgentSandbox` |
| `SandboxTools` | the four tools and their processes, system call by system call | |
| `SandboxToolsProofs` | theorems: what is reported and what is written | extends `SandboxTools` |
| `SandboxBenchmark` | `benchmark.py` driving sandboxes | composes `AgentSandbox`; instantiated by `MCLabTools` |
| `ReactAgent` | agents, their spans, the trace file and its chart | |
| `ReactAgentProofs` | theorems: the transcript, the tree of spans, the chart | extends `ReactAgent` |
| `Minictl`, `MinictlProofs` | parent and child of `run` and `chroot`; theorems | |
| `PagerUse`, `PagerUseProofs` | one page, its requests, the server; theorems | |
| `Quicksort`, `WakeupProbe`, `LatencyScripts`, `FairnessScripts`, `ThrottleReport`, `ClusterMachine` | the small tools | instantiated by `MCLabTools` |
| `MCSchedLabUser`, `MCLabTools` | several programs in one run: the first state says which one moves | |
| `LabToolsProofs` | theorems about the small tools and the benchmark | extends `MCLabTools` |
| other `MC*` | small instances for TLC | |

### State and actions against the code

*SchedLabBpf.* `wakeup_ts`, `task_stats`, `latency_hist`, `events` are the
four maps; `attached` says how many of the four programs
`schedlab_bpf__attach` has attached, in the skeleton's order. A handler is an
operator with the handler's name; `Fork`, `Wake`, `ContextSwitch` and
`ProcessExit` are the scheduler's events. sched_wakeup, sched_wakeup_new and
sched_switch of one task fire under its runqueue lock, so one step per handler
is sound for everything that is kept by pid; different pids share only the
histogram, which handlers add to atomically, and the ring buffer. `Wake` has a
second case, a task that has set its state to sleep but is still on the CPU
(`PrepareToSleep`): the kernel then fires sched_wakeup for a running task.
`cpuTime`, `queueTime`, `queuedFor`, `wakeups` and `observed` are history
variables which say what the maps should hold; no action reads them. `Samples`
and `Delivered` count the samples of the histogram and the wakeups as
cardinalities (`Units` holds one pair for each).
Abstracted: comm, tgid, the CPU number and prev_state of streamed events.

*LatencyReport.* `ReadBucket` is one lookup of the loop of lines 173-186, so
`Record`, a handler's increment, may come between any two. The scan is one
step per bucket. `percentile_from_histogram`, `compute_percentiles` and
`weighted_sum` are what the scripts compute from the rows of the CSV; `cumsum`
is numpy's, a recursive function, and the weighted sum the last of the
cumulated products.

*FairnessReport.* `order` is the order in which the kernel walks the map; a
new key goes anywhere in it. A handler's accounting of a slice is two steps
and the copy of a record one step per field.

*SchedLabMain.* `pc` is the place in `main` or in the mode's loop. Time runs
in half seconds so that `time(NULL)` may truncate. A signal either ends a
sleep or arrives between the test of `running` and the call (`asleep'` keeps
its value).

*EventStream.* The handlers of `SchedLabBpf` are one step each; here a handler
is three, the stamp, `bpf_ringbuf_reserve` and `bpf_ringbuf_submit`, on several
CPUs, and the exit handler can be interrupted by a wakeup on its own CPU. The
reader takes records in the order of their reservation and stops at one that
is not submitted, as libbpf does. `late` is a history variable: the events
that were stamped and had no record yet when this one was stamped.

*AgentSandbox.* `execute` is cut where Ctrl-C can come: counting, deciding and
logging, counting the outcome, running the tool, logging the result. A session
is interactive (Ctrl-C ends the call, not the session) or has a scenario, which
Ctrl-C ends; the sandbox is closed all the same. A tool returns, fails, outlives its timeout, or raises another exception; the
process a shell command leaves behind ends on its own (`OrphanEnds`).
`DEFAULT_POLICY` is the shipped policy with one value of each kind its patterns
tell apart; a pattern is the set of values it matches as a glob and, if it has
no `*`, the set of those it is found inside.

*SandboxTools.* Every system call a tool makes on files is a step: `exists`,
`is_file`, `stat`, `open` and each block of a read or a write. Files are
inodes, so that an open file outlives its name; names are numbers, in the order
that `sorted` puts them in. A call with a subprocess may
time out or die between any two steps; without one the tool's own exception
is the outcome. `execute_in_subprocess` catches one exception, TimeoutExpired:
what `subprocess.run` itself raises, before the tool begins (no process to be
had, an argument longer than the kernel takes) or after (an answer that is no
text), leaves `execute_tool` as it is (outcome "exception"). `before` and `disturbed` are history variables: what a call
found, and whether another changed its files since. With two calls, the
writes are of the same file, which is where a listing or a read can see half
of one.

*SandboxBenchmark.* Each test makes one call `iterations` times in a sandbox
with subprocesses and then in one without; its steps are those of
`AgentSandbox`, instantiated with a session per sandbox. Nothing catches what
a tool without a subprocess raises, so `Crash` ends it. An error without a text
is an error for the log (`is None`) and none for the benchmark (`not
result.error`), so that its latency counts; `silent` is a history variable that
counts these. The shipped benchmark
makes 50 calls under a policy of 100; the run makes 2 of 4.

*ReactAgent.* `agent.py` itself does not import the tracer. The lab
(`src/src/part6-ai-era/ch12-agent-runtimes/lab-react-perf.md:78-126` and, with
`asyncio.gather`, 184-204) has its readers wrap the loop, every chat and every
tool call in a span, and `tracer.py:6-10` claims correct parents for both, so the
module is `run_agent` with those spans. `_current_parent` is a value per task,
copied when `gather` creates a task; `enter` and `exit` are the two halves of
`Tracer.span`, `exit` running as well when its body raises. A tool that raises
ends its gather while the other tasks go on. Prompts, tokens, times that are
not an order, and what tools compute are left out.

*Minictl.* The two processes step independently; the pipe is its two sets of
holders and one byte. The parts of minictl that are exercises (uid maps,
cgroups, mounts, the body of the chroot child) do nothing in the repository
and do nothing here; in particular the chroot child falls through to a
`waitpid` of its own and returns 1.

*PagerUse.* `requests` holds every request with its state, from sent over
reading a file and calling a model to answered and done; any of them may move
next. A handler that throws takes the process and all requests in it down,
because express 4 does not catch what an async handler throws.

*The tools.* The C programs step by loop iteration, the scripts by file. Sums
and counts are over sets of places (row numbers, indices of a timeline).
Floating-point numbers of the scripts are exact fractions of integers here
(percentiles in thousandths, squared coefficients of variation compared by
cross-multiplication), so rounding of the last digit is not modelled.
`Quicksort` keeps how deep a call is nested: the stack has room for `StackDepth`
of them, and with `TailCall` the second call of `quicksort` is a jump, as `gcc -O2`
(the Makefile's flags) makes it. A call beyond that is a SIGSEGV (`Overflow`).
In `FairnessScripts` a row has so many columns, of which so many from the first
are numbers: `fairness.py` skips a row with a bad column and ends with an
exception at one with a missing column, `analyze.py` skips a row of fewer than
four columns, ends with an exception at a bad one among the four, and never
looks at the fifth.
In `ThrottleReport` time that was throttled is counted in periods. A read
that fails is a sample that is not taken; one that breaks off leaves a row
without its last fields, which the shell's arithmetic takes for 0 and pandas for
NaN. It is assumed that a field is there whole or not at all.
`Schedule` stands for a scheduler that keeps the contract of `schedule_fifo`
but may choose any machines, since the repository's schedulers raise
NotImplementedError.

Definitions whose comment begins with "Bug" are mutated forms of the
definition below them. They are used by nothing in the models; they are there
to show which property would notice such a bug.

## 3. Runs and what they show

| Run | Bounds | Shows |
|---|---|---|
| `attach` | 2 pids, 1 CPU, a map of one record, 6 time units | whatever is attached when, with a full map, reused pids and wakeups on the CPU: run time sound, and exact for traced tasks; no wakeup counted or sampled twice |
| `traced` | 2 pids, 2 CPUs, ring buffer of 1, steps of 1 or 3, 8 time units, 2 buckets | with the programs attached first, the histogram implements `RunqueueLatency`, no wakeup is lost and wait time is time on the runqueue, however full the ring buffer is |
| `waittotal` | 1 CPU | finding, section 6 |
| `user` | latency report: 3 buckets, counts 0, 1, 49, 50, 100, 2 late samples; walk: 3 pids and idle, 1 slice each; stream: 2 CPUs, 2 records, 3 events; program: 4 modes, durations 0-2 s, signals at any point, 2 ring slots | percentiles ordered, within a sample of their definition, and the scripts agree with them; every record listed exactly once and not mixed with another; events printed in order and, unless refused, all of them; the program measures long enough and ends, and so does its walk |
| `p99` | 3 buckets | finding, section 6 |
| `sessions` | an interactive and a scenario session, 2 calls each, limit 1, one request for each answer of the policy | a tool that started has its decision in the log and is within the limit; log form; counts match the log; scenarios end, interrupted ones too |
| `toolcalls` | 2 calls, 2 files of which one may not be looked at, 2-3 blocks, limit 2, one removal by somebody else | results are true of the files, writes are whole or leave a part, every call ends, with a result, a ToolExecutionError or the exception of `subprocess.run` |
| `result` | one scenario with `--direct` | finding, section 6 |
| `minictl` | all commands, 3 exit statuses, each call failing, SIGKILL of either | set-up before exec, success is real, no child left, and neither process left waiting for one that is gone |
| `pager` | 4 files, 2 commands, 5 requests in flight | transcript belongs to the scenario, a command ends, typed commands do not end the server |
| `trace` | one agent with every script of up to 2 turns of 8 kinds, or 2 agents with a turn each; 2 steps; calls in sequence or gathered; a chart of 5 columns | spans form the tree of what ran and all reach the file; transcripts are well formed; the chart holds every bar |
| `tools` | files of up to 5 tokens with an array of 4 and a stack of 3 calls, tail calls on; 2 iterations of the probe; 3 latencies with 8 counts; 3 rows of 12 kinds; 3 periods, 3 samples and a restart; 2 algorithms with 3 jobs on 2 machines; 2 tests of 2 calls | each tool does what it is for |

Why these bounds are enough. In `attach` six time units hold a whole life of a
task with a wakeup, two slices and an exit, and a second life of its pid; the
map of one record makes every insertion of the second pid fail until it never
succeeds, which is the case `RunTimeExact` is about; two pids are needed for a
switch to have both sides. In `traced` two buckets and steps of three put
latencies below, at and above the last bucket's edge. In `user` the counts of the latency report
make targets fall on, just below and just above a bucket's end. The rate limit
of `sessions` is one below the number of calls, so that both sides of it
occur. Five requests of the page are the list, the first load, a second load
and two commands, which is the least for an answer to overtake another and
belong to a scenario that is no longer loaded. Four tokens fill the array and
a fifth is beyond it; a stack of three calls is enough for any three numbers and
too small for some files of four. The rows of `FairnessScripts` have six run times
in whole rows; the others have a bad fourth or fifth column, break off after the
fourth or the second, or are empty. Three events on two CPUs are what it takes for two records
to stand in the wrong order and a third to be refused or to wait behind one
that is not submitted; two algorithms for one to find what another left.
Files of two blocks can be torn, and one of three is beyond the limit. The counts 19, 20, 49, 50, 100 and 900 lie on both sides
of where a percentile script moves to the next sample. Every run stops at its
bounds, so deadlock is not checked.

## 4. Fairness

| Module | Fairness | Why the code justifies it |
|---|---|---|
| `SchedLabBpf`, `LatencyReport`, `LatencyScripts`, `FairnessScripts`, `ThrottleReport`, `ClusterMachine`, `SandboxBenchmark`, `ReactAgent` | none | safety only |
| `FairnessReport` | WF of the walk | the process is scheduled; none of the handlers |
| `SchedLabMain` | WF of the program, of time and of the delivery of SIGALRM | the kernel's promises; SIGINT and the supply of events are free |
| `EventStream` | WF of the reader and of a handler on each CPU | the process is scheduled, a handler runs to its end; events and signals are free |
| `SandboxTools` | WF of a call's begin and return and of `TimedOut` | `subprocess.run(timeout=...)`; that a tool gets any further is not assumed |
| `AgentSandbox` | WF of the session's own steps and of `TimedOut` | `subprocess.run(timeout=...)`; that a tool returns or an orphan ends is not assumed |
| `Minictl` | WF of parent and of child | both are runnable processes; that the command ends is not assumed |
| `PagerUse` | WF of the page and the server together, while a request can move | browser and event loop run on; that a model answers or someone restarts the server is not assumed |
| `Quicksort`, `WakeupProbe` | WF of the program, and of time | the process is scheduled |

What needs an assumption about time says so: `AlwaysEnds`, a part of
`ReportsEnd`, is for durations of at least a second, since `alarm(0)` arms nothing and `--duration 0` in stream
mode goes on until a signal.

## 5. Proofs

Each proof module is about the `Spec` of the module it extends, for all values
of the constants: any sets of pids, CPUs, sessions, calls, files or agents and
any bounds, from the named assumptions of the modules, which the runs
evaluate. What they assume beyond the types is that `Pids` and `Names` are
finite (there are only so many processes and file names), so are the machines
of a cluster and the latencies of a file, that a duration fits
into the bounded clock of `SchedLabMain`, and that the model values for
"nothing" (`NoSpan`, `NoAnswer`, `Absent`, `None`) are not ids, answers or
files. All 33 safety properties that the passing runs check are theorems; what
is only model-checked is liveness.

Every proof has the same shape: an inductive invariant, a lemma per action that
it is kept, and the theorem from it. All invariants were checked by TLC on the
runs' instances before they were proved. What follows says why each invariant is
stronger than what is proved from it.

**`SchedLabBpfProofs`, run time.**

1. `TypeCorrect`: `TypeOK`, together with `Stamped`: no time stamp in a map is
   ahead of the clock. Without the second the type is not inductive, since the
   handlers subtract time stamps and store the result in unsigned fields. One
   lemma per handler (`WakeupHandler` and its like) says what it does to the
   maps; `TypeStep` has one step per action.
2. `Inductive`: the invariant `IInv`. `RunTimeSound` alone is not inductive: a
   switch-out adds the time since `last_switch_in_ts`, which is right only if
   that stamp is of the current slice. So `IInv` ties records to the
   scheduler: a CPU's task is running and on no other CPU (`CpuOK`), a task on
   its way to sleep is on a runqueue (`PreparingOK`), before the switch
   program is attached no record has a switch-in stamp (`NoSwitchYet`), an
   entry of `wakeup_ts` was woken (`PendingCounted`), and a task traced from
   its fork that runs has a stamp and lacks a record only if the map was full
   (`ObservedOK`). That a full map stays full is why a record that could not
   be inserted at once never appears later with time missing.
3. `RunTimeIsSound`, `RunTimeIsExact`, `WakeupsAreSound`: its consequences.

**`SchedLabBpfProofs`, waiting.** `LatencyInv` adds to `IInv` that the samples
and the wakeups counted are finite sets (`UnitsFinite`) and that a traced task
with an entry in `wakeup_ts` waits on a runqueue (`TracedQueued`).
`StepCounts` says what each action adds to the two counts, and the lemmas
`UnitsAdd` and `UnitsZero` turn that into cardinalities, so that no sum over the
histogram is needed. From it `NoWakeupSampledTwice`, `NoWakeupLost` and
`WaitTimeIsSound`. The last has the hypothesis `~SpuriousWakeups`: a
wakeup of a task that is still on its CPU leaves an entry in `wakeup_ts` while
the task runs, and the next switch to it counts that running as waiting.
`EveryWakeupSampled` has the same hypothesis in its statement.

`PromiseKept` is the refinement: with the programs attached first
(`SpecTracing`) the maps implement `RunqueueLatency`, `waiting` being read off
`wakeup_ts`. `TracingInv` says that `now - wakeup_ts[p]` is the time `p` has been
queued for; each action then is a step of the abstract specification or a
stutter (`RefinementStep`). It needs `~SpuriousWakeups` and `NoWrap`: the bucket
number of a latency of 2^32 microseconds, over an hour, is cut to 32 bits
(`schedlab.bpf.c:78`), and the sample lands in a low bucket.

**`MinictlProofs`** proves the three safety properties of `minictl` from an
invariant `IInv`: the byte in the pipe is there only after the
set-up, a child exists exactly between clone and wait, and a status of 0 needs
a command that ran. `NoChildLeft` is part of it, because that a minictl which
has exited has no child is what keeps its reported status from going stale.

**`SchedLabUserProofs`** has four invariants, one for each part of
`schedlab_user.c`.

* Stream (`StreamIsInOrder`, from `StreamInv`). `late` has to be right before an
  event has a record: an event that is stamped and not reserved is late to every
  younger one, in progress (`LateToHandlers`) or in the buffer
  (`LateToRecords`), and on one CPU only a wakeup can be on top of an exit
  (`Nested`).
* Walk (`ListedOnce`, from `WalkInv`). New keys are inserted anywhere in the
  order, so the invariant is about what the walk has passed, not about
  positions: of the keys that were there at the start each is passed and listed,
  is the next key, or comes after it.
* Modes (`ModeRunsItsTime`, from `MainInv`): what is left of an armed alarm and what
  has passed are no less than the duration together, nothing but that alarm
  clears `running` unless a signal does, and the loops are left only then or
  when their time is over.
* Report (`PercentilesInOrder` and `ScriptsNameTheBucket`, from `ReportInv`).
  `ReadInv`: the copy lies between the histogram at the start of the read and
  as it is, bucket by bucket, and `total` and `sum` are those of what has been
  copied. `ScanInv`: each percentile is the first bucket scanned so far at
  which the target is reached. The scripts' percentiles are compared with that
  bucket by lemmas about `cumsum`, which is monotone.

**`AgentSandboxProofs`** (`StartsOnlyAllowed`, `LogStaysWellFormed`,
`StatsAgreeWithLog`). The three are one invariant: that a started tool has its
decision (`StartedLogged`) is inductive only if the ids of a session are those
up to its counter (`IdsCounted`) and its last request is at the place its `pc`
says (`InFlight`); the counts are bounded by tallies of the log with a
lag of at most one for each place where an interrupt can come between a count
and its entry. A session's part of the log is kept by steps of all others
(`GoodLog` is stated for one session).

**`SandboxToolsProofs`** (`ResultIsWhole`, `WriteIsWhole`). `FileInv`: a file has
one name, and who has it open opened it under that name, though it may have
lost it since. `DataInv`: every block of a file, and every length, is that of
a version a running call may see. `ReadInv`, `WriteInv` and `ListInv` say for
each place of a tool how far what it holds agrees with the file, with and
without disturbance.

**`PagerUseProofs`** (`TranscriptIsEvidence`, `ServerSurvivesStudents`). Answers
arrive in any order, so the invariant `GoodPage` is about the requests
as well as about the terminal: a command sent since the last load has its line
(`Entered`), an answer's line stands below it (`Below`), and what a request
carries agrees with the policy of the scenario it was sent for (`Checked`).

**`ReactAgentProofs`** (`AnswersEveryCall`, `TraceIsATree`, `ChartShowsTheTree`).
`TalkInv` says what any prefix of the messages looks like, `TurnInv` how the
calls of the current turn relate to it, in sequence and gathered. `TreeInv`
needs that the context of an agent, and of each task that has not started yet,
is the span it will be the parent of (`ContextInv`), and that exactly the
spans of code in progress are open (`OpenInv`); `FileInv` ties the file to the
spans that ended. `Waterfall` follows from the tree by arithmetic.

**`LabToolsProofs`.** `QuicksortSorts` is full correctness of `main.c` with
`quicksort.c`, but for termination. `QsInv` says that the array is a permutation
of what was read (`Permuted`), that the calls still to be entered are of
ranges from left to right (`InOrder`), that of two elements which no such
range has both of the earlier is the smaller (`Outer`), and inside
`partition()` that what `i` and `j` have passed is on its side of the pivot
(`Scanned`). `SwapKeepsOuter` is why moving elements inside a range disturbs no
other. At the end a bijection between positions gives that each number is
written as often as it was read. `StackInv` bounds the stack: a call's depth
plus `high - low` is at most `n` (`Shallow`), so a stack with room for `n` calls is never used up, whatever the
compiler does with the second call. `MeasuresAgainstSchedule` holds because the
target is a function of the number of latencies logged (`ScheduleInv`).

`BenchmarkComparesResults` is about `AgentSandbox` as `benchmark.py` drives it. `BenchInv`
counts, for each sandbox, calls, latencies and entries of the log
(`MeasuredIn`): every call but the one in progress has ended in a result or an
error, and there are as many latencies as results and errors without a text. It is inductive because the
sandboxes are used in turn (`InTurn`): all before the current one are closed,
all after it are untouched, so a step moves the counts of one. That no
call is refused rests on the policy allowing twice the calls that are made. The
two tests and the policy are fixed; the number of iterations is not.

`MachinesNotOvercommitted` and `MetricsOfTheSchedule` rest on `ClusterInv`. A timeline
keeps the end of an allocation and forgets its start, so what `free_at` says of
a moment is only that no more is in use then. The invariant says what the
timelines stand for: at every moment, not only at starts, the allocations
that run are within the machine (`WithinLimits`), every end is before the end of
some job, and the work in the timelines is the cost of the schedule. `Placed`
keeps the first when a job is added: before its start nothing changes, and
from then on `can_fit` left room for it, since what is in use only falls as `t`
grows (`FitsLater`). That utilization is at most one is `WorkBounded`, which adds up
what runs moment by moment. Jain's index is bounded by the squares of the
differences of the shares (`Jain`).

`ProgramsAgree` has an invariant for each of its two pairs of programs, and says
when they agree, not that they always do. `FairInv` says that what the scripts said
is what their operators say of the rows; `Variances` and `TwoVerdicts` bound how
far dividing by `n - 1` and by `n` are apart on one set of tasks. On a file with a
bad or missing fifth column the scripts judge different sets of tasks and may say
"very fair" and "unfair"; then only the clauses about each script alone are left.
`ThrottleInv`: unless the container was restarted, each row has grown from all
before it and `cpu.stat` as it is from all of them, in the fields both have
(`Grows`), however many reads failed or broke off. The sums of a whole column's differences
telescope (`Telescope`, `FullColumn`); a column with gaps has at most what the kernel
counted (`RowsGrow`, `SumsInOrder`), since an interval counts only between two rows that
have the field; and the largest ratio of an interval is no less than the overall
one (`Mediant`).

`PercentilesKeepTail`: `PercentInv` says that what was printed are the percentiles of
the samples read. The rest is arithmetic on them: the sample at a place has
more than so many up to it (`Sorted`), an interpolated value lies between
its two neighbours and grows with the percentile (`BetweenBounds`, `BetweenGrows`),
and `int(n * p)` is far enough (`PickIsFarEnough`).

Sums and induction. A sum over a set is a fold in the community modules, which
recurses over sets; `SumsExist` shows that a function with the rule of a sum exists for
every finite set, `Sum` is that function, and `FoldIsSum` that the
fold the modules use is the same. From there sums are handled by a dozen
lemmas (`SumPlus`, `SumLe`, `SumDisjoint`, `SumGroups`). Induction is used in the
form of sets instead of predicates: a set of numbers that holds 0 and with
each number the next one holds all of them (`NatInd`), and likewise for finite
sets (`SetInd`), both from a least counterexample (`LeastNat`, which comes from
`NatLessThanWellFounded` and `WFMin`). `SchedLabUserProofs` proves in the same way
that `cumsum` is monotone.

Only model-checked: every liveness property (`SortEnds`, `CommandEnds` and their
like), because the prover has no support for fairness and ENABLED.

## 6. Findings

* `waittotal`: `schedlab.h:39` documents `wait_time_ns` as "Total time spent
  waiting". A preempted task waits without an entry in `wakeup_ts`, so
  `handle_sched_switch` adds nothing for that wait. What the field does hold,
  time on the runqueue after a wakeup and nothing else, is `WaitTimeSound`.
* `p99`: chapter 1 defines p99 as a value that 99% of the requests were no
  slower than. `schedlab` rounds its target down, so the p99 it prints may
  cover fewer. That it is off by less than one sample is part of `ToolsAgree`.
* `result`: the docstring of `execute` promises that the result is logged.
  With `--direct` an exception other than `ToolExecutionError` leaves a call
  without one, in a log that ends in good order.

## 7. Not modelled

- The fsync benchmark (ch10) apart from its percentiles: `write_latency.c` is a
  loop of `write`, `fsync` and a clock, whose promise is the file system's.
- `cgroup.c` and `util.c` of minictl: stubs that nothing calls, and string
  handling.
- The schedulers of ch09, which raise NotImplementedError, and
  `sim/scheduler.py`, a skeleton of the same exercise.
- The contents of the sandbox's two other policies (`create_strict_policy`,
  `create_permissive_policy`) and the printing of results and of the log
  (`format_result`, `print_audit_log`): text.
- `cpu_hog.c`, plots, the figure scripts (`scripts/figures`), and the shell
  scripts of the other labs, whose state is that of docker, kubectl, etcd and
  Redis, which are not in the repository.
- The book's text, build and page decoration.
- A negative `--duration` of schedlab, and the last digit of floating-point
  numbers. A read of `cpu.stat` that is cut within a number.
- How large the stack of the quicksort lab really is: `StackDepth` is a constant. Input
  sorted the other way round nests the calls about `n / 2` deep even where the second
  call is a jump, so an array near `MAX_SIZE` (a million) can be more than the
  usual 8 MiB hold, and the program then dies unsorted. The model has
  that end (`Overflow`), and `SortsInput` says it never comes unless there
  are more numbers than room for calls.
- What a process that outlived its call (`OrphanEnds`) does to files, and two writers
  of one file at once: nothing in the code keeps them apart, and no property
  promises anything about them.

## 8. Plan

The modelling went from the kernel programs with their abstract specification,
as the core, to the userspace side of SchedLab, the other concurrent programs
(sandbox, minictl, PagerUSE, ReAct agent) and the small tools; then the safety
properties were proved, component by component, and none is left. Next, most
valuable first:

1. Refinements for further components, as `RunqueueLatency` is for the kernel
   programs: a queue that `EventStream` implements, an append-only decision log
   that `AgentSandbox` implements.
2. `BenchmarkComparesResults` for any tests and any policy that allows them.
3. The schedulers of ch09 once they are written, in place of `Schedule`, and the
   fsync benchmark with the page cache and a power failure.
