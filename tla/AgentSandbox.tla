---------------------------- MODULE AgentSandbox ----------------------------
(***************************************************************************)
(* The agent sandbox: sessions, each a process of its own, take tool calls *)
(* through AgentSandbox.execute and append their decisions and results to  *)
(* one audit log file.  A tool runs in a process of its own, or in the     *)
(* session itself with --direct.                                           *)
(*                                                                         *)
(* A request is its tool and its arguments.  A pattern is the values it    *)
(* matches as a glob, and those it is a part of, none if it has a *.  An   *)
(* append to the log is one write and atomic.                              *)
(***************************************************************************)
EXTENDS Integers, Sequences, FiniteSets

CONSTANTS
  Sessions,
  Requests,           \* [tool |-> name, args |-> argument -> value, or NotAnObject]
  NotAnObject,        \* the JSON value of "args" is not an object
  policy,             \* SandboxPolicy
  UseSubprocess,      \* FALSE with --direct
  Interactive,        \* the sessions at a prompt; the others have a scenario
  Interrupted,        \* the sessions that may get a Ctrl-C
  Raising,            \* a tool call may raise another exception than
                      \* ToolExecutionError
  MaxRequests         \* bound: requests a session receives

ASSUME SandboxAssumption ==
  /\ UseSubprocess \in BOOLEAN
  /\ Interactive \cup Interrupted \subseteq Sessions
  /\ Raising \in BOOLEAN
  /\ MaxRequests \in Nat
  /\ policy.max_calls_per_session \in Nat

VARIABLES
  pc,                 \* where a session is; idle between two requests
  call_count, allowed_count, blocked_count, error_count,
  request_counter,    \* of the session's AuditLogger
  log,                \* the audit log file
  alive,              \* tool processes, by session and request
  started             \* history: the requests whose tool was started

counts == <<call_count, allowed_count, blocked_count, error_count>>
vars == <<pc, counts, request_counter, log, alive, started>>

Entry == [session : Sessions, id : Nat,
          decision : {"START", "ALLOWED", "BLOCKED", "EXECUTED", "ERROR", "END"}]

------------------------------------------------------------------------------
(* policy.py *)

glob(values) == [glob |-> values, inside |-> {}]

text(value, longer) == [glob |-> {value}, inside |-> {value} \cup longer]

(* Of the values the patterns tell apart, one of each kind: a path below   *)
(* data/, one of a key file there, below /tmp and /etc, the directory      *)
(* itself, one with a dot in it, and commands that match a pattern of      *)
(* either list or have it somewhere in them.                               *)
DEFAULT_POLICY ==
  LET data == glob({"data/log", "data/key"})
      tmp  == glob({"tmp/log"})
      Tool(arg, allowed, denied) ==
        [allowed |-> TRUE, allowed_args |-> [a \in {arg} |-> allowed],
         denied_args |-> [a \in {arg} |-> denied]]
  IN  [tools |->
         [read_file     |-> Tool("path", {data, tmp},
                                 {text("etc/passwd", {}), glob({"data/key"})}),
          write_file    |-> Tool("path", {tmp}, {glob({"etc/passwd"})}),
          list_dir      |-> Tool("path", {data, tmp, text(".", {"var/x.d"})},
                                 {text("etc", {"etc/passwd"})}),
          shell_command |-> Tool("command",
                                 {glob({"echo $(date)"}),
                                  text("date", {"date -u", "echo $(date)"})},
                                 {glob({"rm log"}), text("$(", {"echo $(date)"})}),
          http_request  |-> [Tool("url", {}, {glob({"site"})}) EXCEPT !.allowed = FALSE]],
       default_deny |-> TRUE,
       max_calls_per_session |-> 100]

matches_pattern(value, patterns) ==
  \E pattern \in patterns : value \in pattern.glob \cup pattern.inside

argument_ok(tool_policy, arg, value) ==
  /\ arg \in DOMAIN tool_policy.denied_args =>
       ~matches_pattern(value, tool_policy.denied_args[arg])
  /\ arg \in DOMAIN tool_policy.allowed_args
       /\ tool_policy.allowed_args[arg] # {} =>
       matches_pattern(value, tool_policy.allowed_args[arg])

validate_tool_call(request) ==
  IF request.tool \notin DOMAIN policy.tools
  THEN ~policy.default_deny
  ELSE LET tool_policy == policy.tools[request.tool]
       IN  /\ tool_policy.allowed
           /\ \A arg \in DOMAIN request.args :
                argument_ok(tool_policy, arg, request.args[arg])

(* Without an object of arguments args.items() raises, unless the tool is  *)
(* refused before the arguments are looked at.                             *)
validation_raises(request) ==
  /\ request.args = NotAnObject
  /\ request.tool \in DOMAIN policy.tools
  /\ policy.tools[request.tool].allowed

------------------------------------------------------------------------------
(* audit.py: the log file is opened, appended to and closed every time. *)

_write_entry(s, id, decision) ==
  log' = Append(log, [session |-> s, id |-> id, decision |-> decision])

(* Bug: every request has the same id. *)
LogSameId(s, allowed) ==
  /\ UNCHANGED request_counter
  /\ _write_entry(s, request_counter[s] + 1,
                  IF allowed THEN "ALLOWED" ELSE "BLOCKED")

log_decision(s, allowed) ==
  /\ request_counter' = [request_counter EXCEPT ![s] = @ + 1]
  /\ _write_entry(s, request_counter[s] + 1,
                  IF allowed THEN "ALLOWED" ELSE "BLOCKED")

log_execution(s, decision) == _write_entry(s, request_counter[s], decision)

close(s) == _write_entry(s, 0, "END")

(* What the log's reader counts, of the entries of one session. *)
analyze_audit_log(s) ==
  [d \in {"START", "ALLOWED", "BLOCKED", "EXECUTED", "ERROR", "END"} |->
     Cardinality({n \in DOMAIN log : /\ log[n].session = s
                                     /\ log[n].decision = d})]

ToolOf(s) == <<s, request_counter[s]>>

Inc(count, s) == [count EXCEPT ![s] = @ + 1]

At(s, here, there) == pc[s] = here /\ pc' = [pc EXCEPT ![s] = there]

------------------------------------------------------------------------------
(* sandbox.py *)

Init ==
  /\ pc = [s \in Sessions |-> "new"]
  /\ call_count = [s \in Sessions |-> 0]
  /\ allowed_count = [s \in Sessions |-> 0]
  /\ blocked_count = [s \in Sessions |-> 0]
  /\ error_count = [s \in Sessions |-> 0]
  /\ request_counter = [s \in Sessions |-> 0]
  /\ log = <<>>
  /\ alive = {}
  /\ started = {}

Open(s) ==
  /\ At(s, "new", "idle")
  /\ _write_entry(s, 0, "START")
  /\ UNCHANGED <<counts, request_counter, alive, started>>

(* The calls of a scenario, or the lines of an interactive session. *)
more_calls(s) == call_count[s] < MaxRequests

(* execute, one action for what no interrupt can divide.  Ctrl-C can come  *)
(* between any two of them.                                                *)
Receive(s) ==
  /\ more_calls(s)
  /\ At(s, "idle", "checking")
  /\ call_count' = Inc(call_count, s)
  /\ UNCHANGED <<allowed_count, blocked_count, error_count, request_counter,
                 log, alive, started>>

(* Bug: the count is tested as it was before this call. *)
LimitLate(s) == call_count[s] - 1 > policy.max_calls_per_session

over_limit(s) == call_count[s] > policy.max_calls_per_session

RateLimited(s) ==
  \/ /\ over_limit(s)
     /\ At(s, "checking", "limited")
     /\ blocked_count' = Inc(blocked_count, s)
     /\ UNCHANGED <<call_count, allowed_count, error_count, request_counter,
                    log, alive, started>>
  \/ /\ At(s, "limited", "idle")
     /\ log_decision(s, FALSE)
     /\ UNCHANGED <<counts, alive, started>>

Decide(s, request) ==
  /\ ~over_limit(s)
  /\ \/ /\ validation_raises(request)
        /\ At(s, "checking", "raised")
        /\ UNCHANGED <<request_counter, log>>
     \/ /\ ~validation_raises(request)
        /\ log_decision(s, validate_tool_call(request))
        /\ At(s, "checking",
              IF validate_tool_call(request) THEN "allowed" ELSE "blocked")
  /\ UNCHANGED <<counts, alive, started>>

Blocked(s) ==
  /\ At(s, "blocked", "idle")
  /\ blocked_count' = Inc(blocked_count, s)
  /\ UNCHANGED <<call_count, allowed_count, error_count, request_counter,
                 log, alive, started>>

(* execute_tool: the tool runs, in a process of its own or in this one. *)
StartTool(s) ==
  /\ At(s, "allowed", "tool")
  /\ allowed_count' = Inc(allowed_count, s)
  /\ started' = started \cup {ToolOf(s)}
  /\ alive' = alive \cup {ToolOf(s)}
  /\ UNCHANGED <<call_count, blocked_count, error_count, request_counter, log>>

(* The tool returns a result ... *)
Executed(s) ==
  /\ At(s, "tool", "idle")
  /\ alive' = alive \ {ToolOf(s)}
  /\ log_execution(s, "EXECUTED")
  /\ UNCHANGED <<counts, request_counter, started>>

(* Bug: the error is not counted. *)
FailedUncounted(s) ==
  /\ At(s, "tool", "failed")
  /\ alive' = alive \ {ToolOf(s)}
  /\ UNCHANGED <<counts, request_counter, log, started>>

(* ... or fails with a ToolExecutionError: any exception in the subprocess *)
(* does, and in the session itself only a command that timed out ...       *)
Failed(s) ==
  /\ At(s, "tool", "failed")
  /\ alive' = alive \ {ToolOf(s)}
  /\ error_count' = Inc(error_count, s)
  /\ UNCHANGED <<call_count, allowed_count, blocked_count, request_counter,
                 log, started>>

(* Bug: the timeout is not passed to the subprocess. *)
TimedOutNever(s) == pc[s] = "none" /\ UNCHANGED vars

(* ... or outlives the timeout of the subprocess.  What is killed then is  *)
(* the python process; a command its shell started may live on.            *)
TimedOut(s) ==
  /\ UseSubprocess
  /\ At(s, "tool", "failed")
  /\ alive' \in {alive, alive \ {ToolOf(s)}}
  /\ error_count' = Inc(error_count, s)
  /\ UNCHANGED <<call_count, allowed_count, blocked_count, request_counter,
                 log, started>>

LogError(s) ==
  /\ At(s, "failed", "idle")
  /\ log_execution(s, "ERROR")
  /\ UNCHANGED <<counts, request_counter, alive, started>>

(* Any other exception: raised by the tool itself with --direct, or by     *)
(* subprocess.run, which cannot pass arguments beyond the kernel's limit.  *)
Raise(s) ==
  /\ Raising
  /\ At(s, "tool", "raised")
  /\ alive' = alive \ {ToolOf(s)}
  /\ UNCHANGED <<counts, request_counter, log, started>>

(* Ctrl-C: interactive_mode goes on with the next line; a scenario is      *)
(* over, also between two of its calls.                                    *)
Interrupt(s) ==
  /\ s \in Interrupted
  /\ \/ pc[s] \in {"checking", "limited", "blocked", "allowed", "tool", "failed"}
     \/ pc[s] = "idle" /\ s \notin Interactive
  /\ pc' = [pc EXCEPT ![s] = IF s \in Interactive THEN "idle" ELSE "raised"]
  /\ alive' \in {alive, alive \ {ToolOf(s)}}
  /\ UNCHANGED <<counts, request_counter, log, started>>

(* quit, the end of the scenario, or an exception nobody catches: finally. *)
Close(s) ==
  /\ \/ pc[s] = "raised"
     \/ pc[s] = "idle" /\ (s \in Interactive \/ ~more_calls(s))
  /\ pc' = [pc EXCEPT ![s] = "closed"]
  /\ close(s)
  /\ UNCHANGED <<counts, request_counter, alive, started>>

get_stats(s) ==
  [total_calls |-> call_count[s], allowed |-> allowed_count[s],
   blocked |-> blocked_count[s], errors |-> error_count[s]]

(* The session is killed. *)
Kill(s) ==
  /\ pc[s] \notin {"new", "closed", "killed"}
  /\ pc' = [pc EXCEPT ![s] = "killed"]
  /\ UNCHANGED <<counts, request_counter, log, alive, started>>

(* A tool process that outlived its call ends. *)
OrphanEnds(t) ==
  /\ t \in alive
  /\ ~(pc[t[1]] = "tool" /\ t = ToolOf(t[1]))
  /\ alive' = alive \ {t}
  /\ UNCHANGED <<pc, counts, request_counter, log, started>>

Execute(s) ==
  \/ Receive(s)
  \/ RateLimited(s)
  \/ \E request \in Requests : Decide(s, request)
  \/ Blocked(s)
  \/ StartTool(s)
  \/ LogError(s)

Next ==
  \/ \E s \in Sessions :
       \/ Open(s) \/ Execute(s) \/ Executed(s) \/ Failed(s) \/ TimedOut(s)
       \/ Raise(s) \/ Interrupt(s) \/ Close(s) \/ Kill(s)
  \/ \E t \in alive : OrphanEnds(t)

(* A session runs on, and the timeout of a subprocess comes; that a tool   *)
(* returns is not assumed.                                                 *)
Fairness ==
  \A s \in Sessions :
    /\ WF_vars(Open(s))
    /\ WF_vars(Execute(s))
    /\ WF_vars(TimedOut(s))
    /\ WF_vars(Close(s))

Spec == Init /\ [][Next]_vars /\ Fairness

------------------------------------------------------------------------------
(* Properties. *)

Entries(s, decisions) ==
  {n \in DOMAIN log : log[n].session = s /\ log[n].decision \in decisions}

Of(s, id, decisions) == {n \in Entries(s, decisions) : log[n].id = id}

(* Write-ahead: no tool is started before its own ALLOWED entry is in the  *)
(* log, so the log of a killed session names all it may have done.         *)
WriteAhead ==
  \A t \in started : /\ Of(t[1], t[2], {"ALLOWED"}) # {}
                     /\ Of(t[1], t[2], {"BLOCKED"}) = {}

(* A request has one decision, and at most one outcome, which comes after  *)
(* an ALLOWED; nothing of a session follows its end.                       *)
LogWellFormed ==
  /\ log \in Seq(Entry)
  /\ \A s \in Sessions :
       /\ \A m, n \in Entries(s, {"ALLOWED", "BLOCKED"}) :
            log[m].id = log[n].id => m = n
       /\ \A n \in Entries(s, {"EXECUTED", "ERROR"}) :
            /\ Of(s, log[n].id, {"EXECUTED", "ERROR"}) = {n}
            /\ \E m \in Of(s, log[n].id, {"ALLOWED"}) : m < n
       /\ \A e \in Entries(s, {"END"}), n \in DOMAIN log :
            log[n].session = s => n <= e

(* A session starts no more tools than its rate limit, whatever it was     *)
(* asked and however the calls ended.                                      *)
RateLimit ==
  \A s \in Sessions :
    Cardinality({t \in started : t[1] = s}) <= policy.max_calls_per_session

(* No tool is started that is not in the log as allowed, or beyond the     *)
(* limit, at whatever point a session is interrupted or killed.            *)
StartsAllowed == WriteAhead /\ RateLimit

(* The statistics of a session between two calls are those of its part of  *)
(* the log, and a Ctrl-C makes them differ only in the way execute orders  *)
(* its steps: a call may miss in the log, an entry in the counts of the    *)
(* allowed, and an error in the log.                                       *)
StatsMatchLog ==
  \A s \in Sessions : pc[s] = "idle" =>
    LET stats  == get_stats(s)
        logged == analyze_audit_log(s)
    IN  /\ logged["ALLOWED"] + logged["BLOCKED"] <= stats.total_calls
        /\ stats.allowed <= logged["ALLOWED"]
        /\ stats.allowed + stats.blocked <= stats.total_calls
        /\ logged["ERROR"] <= stats.errors
        /\ s \notin Interactive =>
             /\ stats.allowed = logged["ALLOWED"]
             /\ stats.blocked = logged["BLOCKED"]
             /\ stats.total_calls = stats.allowed + stats.blocked
             /\ stats.errors = logged["ERROR"]

(* A session with a scenario ends, whatever its tools do. *)
ScenarioEnds ==
  UseSubprocess =>
    \A s \in Sessions \ Interactive :
      pc[s] = "idle" ~> pc[s] \in {"closed", "killed"}

------------------------------------------------------------------------------
(* What the sandbox's documents say, and the program does not do. *)

(* "4. If allowed, execute in subprocess  5. Log the result" (execute): a  *)
(* session that was closed in good order has logged an outcome for every   *)
(* tool it started.                                                        *)
ResultLogged ==
  \A s \in Sessions : pc[s] = "closed" =>
    \A t \in started : t[1] = s => Of(s, t[2], {"EXECUTED", "ERROR"}) # {}

=============================================================================
