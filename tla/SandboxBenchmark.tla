-------------------------- MODULE SandboxBenchmark --------------------------
(***************************************************************************)
(* ch12-agent-sandbox/benchmark.py: each test makes the same call over and *)
(* over, in a sandbox with subprocesses and then in one without, and       *)
(* compares the mean latencies of the calls that succeeded.                *)
(*                                                                         *)
(* The sandboxes are those of AgentSandbox, each a session with a log of   *)
(* its own; here the logs are one, whose entries name their session.       *)
(***************************************************************************)
EXTENDS Integers, Sequences, FiniteSets, Functions

CONSTANTS
  Tests,          \* the calls of the tests, in order
  iterations,
  policy,
  NotAnObject     \* as in AgentSandbox

BenchmarkAssumption ==
  /\ iterations \in Nat \ {0}
  /\ iterations <= policy.max_calls_per_session

VARIABLES
  sandbox,        \* the sandbox in use, or one more than there are
  latencies,      \* how many latencies were measured in each
  overhead,       \* tests whose overhead was printed
  silent,         \* history: how many calls of each failed with an empty text
  crashed,        \* an exception has ended the benchmark
  (* AgentSandbox *)
  pc, call_count, allowed_count, blocked_count, error_count, request_counter,
  log, alive, started

sandboxes == 1 .. 2 * Len(Tests)

(* The sandboxes of a test have numbers 2 * test - 1 and 2 * test. *)
request == Tests[(sandbox + 1) \div 2]

use_subprocess == sandbox % 2 = 1

Sandbox == INSTANCE AgentSandbox
  WITH Sessions <- sandboxes, Requests <- Range(Tests), UseSubprocess <- TRUE,
       Interactive <- {}, Interrupted <- sandboxes, Raising <- TRUE,
       MaxRequests <- iterations

bench == <<sandbox, latencies, overhead, silent, crashed>>
execution == <<pc, call_count, allowed_count, blocked_count, error_count, request_counter,
               log, alive, started>>

vars == <<bench, execution>>

Init ==
  /\ sandbox = 1
  /\ latencies = [s \in sandboxes |-> 0]
  /\ overhead = {}
  /\ silent = [s \in sandboxes |-> 0]
  /\ crashed = FALSE
  /\ Sandbox!Init

Running == ~crashed /\ sandbox \in sandboxes

------------------------------------------------------------------------------
(* benchmark() *)

(* The call of one iteration, up to its result: without a process only a   *)
(* command can fail with a ToolExecutionError ...                          *)
Execute ==
  /\ Running
  /\ \/ Sandbox!Open(sandbox)
     \/ Sandbox!Receive(sandbox)
     \/ Sandbox!RateLimited(sandbox)
     \/ Sandbox!Decide(sandbox, request)
     \/ Sandbox!Blocked(sandbox)
     \/ Sandbox!StartTool(sandbox)
     \/ (use_subprocess \/ request.tool = "shell_command") /\ Sandbox!Failed(sandbox)
     \/ use_subprocess /\ Sandbox!TimedOut(sandbox)
     \/ Sandbox!Raise(sandbox)
     \/ Sandbox!Interrupt(sandbox)
  /\ UNCHANGED bench

Measure(counts, textless) ==
  /\ latencies' = [latencies EXCEPT ![sandbox] = IF counts THEN @ + 1 ELSE @]
  /\ silent' = [silent EXCEPT ![sandbox] = IF textless THEN @ + 1 ELSE @]
  /\ UNCHANGED <<sandbox, overhead, crashed>>

(* Bug: a latency for every call that was allowed. *)
SampleAllowed ==
  /\ Running
  /\ \/ Sandbox!Executed(sandbox) /\ Measure(TRUE, FALSE)
     \/ Sandbox!LogError(sandbox) /\ Measure(TRUE, FALSE)

(* ... of which the latency counts if the error is missing or empty, as    *)
(* that of an exception without a text in the process is.                  *)
Sample ==
  /\ Running
  /\ \/ Sandbox!Executed(sandbox) /\ Measure(TRUE, FALSE)
     \/ \E textless \in {FALSE, use_subprocess} :
          Sandbox!LogError(sandbox) /\ Measure(textless, textless)

------------------------------------------------------------------------------
(* main() *)

Close ==
  /\ Running
  /\ pc[sandbox] = "idle"
  /\ Sandbox!Close(sandbox)
  /\ sandbox' = sandbox + 1
  /\ overhead' = IF ~use_subprocess /\ latencies[sandbox - 1] > 0 /\ latencies[sandbox] > 0
                 THEN overhead \cup {sandbox \div 2} ELSE overhead
  /\ UNCHANGED <<latencies, silent, crashed>>

(* Nothing catches the exception or the Ctrl-C: the sandbox is not closed. *)
Crash ==
  /\ Running
  /\ pc[sandbox] = "raised"
  /\ crashed' = TRUE
  /\ UNCHANGED <<sandbox, latencies, overhead, silent, execution>>

Next ==
  \/ Execute \/ Sample \/ Close \/ Crash
  \/ \E t \in alive : Sandbox!OrphanEnds(t) /\ UNCHANGED bench

Spec == Init /\ [][Next]_vars

------------------------------------------------------------------------------
(* Properties. *)

Entries(s, decision) ==
  Cardinality({n \in DOMAIN log : log[n].session = s /\ log[n].decision = decision})

(* What is compared is like with like: the latencies of a sandbox are as   *)
(* many as the results in its log, whatever failed or timed out, but for   *)
(* the failures without a text, of which there are none without a process; *)
(* no call was refused, by the rate limit or by the policy, so that all    *)
(* went to the tool; and an overhead is printed exactly for the tests of   *)
(* which both ways have been measured.                                     *)
SamplesAreResults ==
  /\ \A s \in sandboxes :
       /\ latencies[s] = Entries(s, "EXECUTED") + silent[s]
       /\ Entries(s, "BLOCKED") = 0
       /\ Entries(s, "END") = 1 =>
            latencies[s] + Entries(s, "ERROR") = iterations + silent[s]
  /\ \A test \in DOMAIN Tests :
       /\ silent[2 * test] = 0
       /\ test \in overhead <=> /\ Entries(2 * test, "END") = 1
                                /\ latencies[2 * test - 1] > 0
                                /\ Entries(2 * test, "EXECUTED") > 0

==============================================================================
