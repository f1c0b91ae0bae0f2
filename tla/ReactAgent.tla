------------------------------ MODULE ReactAgent ------------------------------
(***************************************************************************)
(* ch12-react-perf: the ReAct loop of agent.py, the spans that tracer.py   *)
(* records around its steps, and the chart that waterfall.py makes of the  *)
(* trace file.                                                             *)
(*                                                                         *)
(* Several agents may run on one event loop, each in a task of its own.    *)
(* Their tool calls run one after the other, as in agent.py, or with       *)
(* parallel a turn's calls are tasks that asyncio.gather waits for, which  *)
(* is what tracer.py is written for.  A task has a copy of the context it  *)
(* was created in.  What happens between two awaits is one step.           *)
(*                                                                         *)
(* A script is what the mock model says turn by turn: a sequence of calls, *)
(* which succeed, raise, or are the final answer; <<>> is a text.          *)
(***************************************************************************)
EXTENDS Integers, Sequences, SequencesExt, FiniteSets, FiniteSetsExt

CONSTANTS
  Agents,
  Workloads,      \* the scripts the agents are given: [Agents -> Seq(turn)], or
                  \* Absent for an agent that is not there
  Absent, NoSpan, NoAnswer,
  max_steps,      \* of run_agent
  width           \* of the chart

ASSUME AgentAssumption ==
  /\ max_steps \in Nat
  /\ width \in Nat \ {0}
  /\ \A w \in Workloads, a \in Agents :
       w[a] = Absent \/ w[a] \in Seq(Seq({"ok", "raises", "final"}))
  /\ NoSpan \notin Agents \X {"agent.task", "gen_ai.client.request", "tool.call"}
                    \X Nat \X Nat            \* which is what a span has for its id
  /\ NoAnswer \notin {"text", "final"}

VARIABLES
  script, parallel,
  pc,             \* where run_agent stands
  round,          \* turns of its loop begun
  step,           \* MockLLM.step
  messages, answer,
  calls,          \* the calls of this turn: "ready", "running", "ok" or "raised"
  _current_parent,  \* in the context of each task
  spans,          \* span_id -> the record, end_s = 0 while it is open
  file,           \* the span_ids in the trace file, line by line
  now             \* time.perf_counter()

agent  == <<pc, round, step, messages, answer, calls>>
tracer == <<_current_parent, spans, file, now>>
vars   == <<script, parallel, agent, tracer>>

Main(a) == <<a, 0>>                  \* the task of run_agent

TaskOf(a, k) == IF parallel THEN <<a, k>> ELSE Main(a)

(* The spans of the loop: the whole of it, a chat, and a tool call. *)
TaskSpan(a)    == <<a, "agent.task", 0, 0>>
ChatSpan(a)    == <<a, "gen_ai.client.request", round[a], 0>>
ToolSpan(a, k) == <<a, "tool.call", round[a], k>>

------------------------------------------------------------------------------
(* tracer.py *)

With(f, x, v) == [y \in DOMAIN f \cup {x} |-> IF y = x THEN v ELSE f[y]]

(* Bug: one stack for all tasks, so that the parent is the span that was   *)
(* opened last.                                                            *)
EnterShared(t, id) ==
  LET open == {s \in DOMAIN spans : spans[s].end_s = 0}
  IN  /\ spans' = With(spans, id, [parent  |-> IF open = {} THEN NoSpan
                                               ELSE CHOOSE s \in open : \A r \in open :
                                                      spans[r].start_s <= spans[s].start_s,
                                   start_s |-> now, end_s |-> 0])
      /\ _current_parent' = With(_current_parent, t, id)
      /\ now' = now + 1
      /\ UNCHANGED file

enter(t, id) ==
  /\ spans' = With(spans, id, [parent |-> _current_parent[t], start_s |-> now, end_s |-> 0])
  /\ _current_parent' = With(_current_parent, t, id)
  /\ now' = now + 1
  /\ UNCHANGED file

(* The finally clause, also when the body raises: the record is appended   *)
(* to the file, under _lock, and the token gives the parent back.          *)
exit(t, id) ==
  /\ spans' = [spans EXCEPT ![id].end_s = now]
  /\ file' = Append(file, id)
  /\ _current_parent' = With(_current_parent, t, spans[id].parent)
  /\ now' = now + 1

------------------------------------------------------------------------------
(* agent.py *)

(* With parallel the final answer is a turn of its own. *)
NoMixedTurn(turns) ==
  \A n \in DOMAIN turns : Contains(turns[n], "final") => Len(turns[n]) = 1

Init ==
  /\ script \in Workloads
  /\ parallel \in BOOLEAN
  /\ parallel => \A a \in Agents : script[a] # Absent => NoMixedTurn(script[a])
  /\ pc = [a \in Agents |-> IF script[a] = Absent THEN "done" ELSE "start"]
  /\ round = [a \in Agents |-> 0]
  /\ step = [a \in Agents |-> 0]
  /\ messages = [a \in Agents |-> <<>>]
  /\ answer = [a \in Agents |-> NoAnswer]
  /\ calls = [a \in Agents |-> <<>>]
  /\ _current_parent = [t \in {Main(a) : a \in Agents} |-> NoSpan]
  /\ spans = [id \in {} |-> NoSpan]
  /\ file = <<>>
  /\ now = 1

At(a, here, there) == pc[a] = here /\ pc' = [pc EXCEPT ![a] = there]

Say(a, more) == messages' = [messages EXCEPT ![a] = @ \o more]

Start(a) ==
  /\ At(a, "start", "loop")
  /\ Say(a, <<[role |-> "user"]>>)
  /\ enter(Main(a), TaskSpan(a))
  /\ UNCHANGED <<script, parallel, round, step, answer, calls>>

(* for _ in range(max_steps) *)
Chat(a) ==
  /\ round[a] < max_steps
  /\ At(a, "loop", "chat")
  /\ enter(Main(a), ChatSpan(a))
  /\ UNCHANGED <<script, parallel, round, step, messages, answer, calls>>

StepsExhausted(a) ==
  /\ round[a] = max_steps
  /\ At(a, "loop", "return")
  /\ UNCHANGED <<script, parallel, round, step, messages, answer, calls, tracer>>

(* The script's next turn, or a last text when it is over. *)
turn(a) == IF step[a] < Len(script[a]) THEN script[a][step[a] + 1] ELSE <<>>

Response(a) ==
  /\ pc[a] = "chat"
  /\ exit(Main(a), ChatSpan(a))
  /\ Say(a, <<[role |-> "assistant", tool_calls |-> turn(a)]>>)
  /\ step' = [step EXCEPT ![a] = Min({@ + 1, Len(script[a])})]
  /\ IF turn(a) = <<>>
     THEN /\ answer' = [answer EXCEPT ![a] = "text"]
          /\ pc' = [pc EXCEPT ![a] = "return"]
          /\ UNCHANGED calls
     ELSE /\ calls' = [calls EXCEPT ![a] = [k \in DOMAIN turn(a) |-> "ready"]]
          /\ pc' = [pc EXCEPT ![a] = "calls"]
          /\ UNCHANGED answer
  /\ UNCHANGED <<script, parallel, round>>

(* The positions of the assistant's messages, and what the last one says. *)
turns(a) == {n \in DOMAIN messages[a] : messages[a][n].role = "assistant"}

said(a) == messages[a][Max(turns(a))].tool_calls

answered(a, k) == \A j \in 1 .. k : calls[a][j] = "ok"

(* Bug: the answer ends the turn, not the loop. *)
FinalBreaks(a, k) ==
  /\ At(a, "calls", "loop")
  /\ said(a)[k] = "final"
  /\ answered(a, k - 1)
  /\ answer' = [answer EXCEPT ![a] = "final"]
  /\ round' = [round EXCEPT ![a] = @ + 1]
  /\ UNCHANGED <<script, parallel, step, messages, calls, tracer>>

(* final_answer returns at once; calls behind it are not made. *)
FinalAnswer(a, k) ==
  /\ At(a, "calls", "return")
  /\ said(a)[k] = "final"
  /\ answered(a, k - 1)
  /\ answer' = [answer EXCEPT ![a] = "final"]
  /\ UNCHANGED <<script, parallel, round, step, messages, calls, tracer>>

(* gather: a task for every call, with a copy of this one's context. *)
Gather(a) ==
  LET tasks == {<<a, k>> : k \in DOMAIN calls[a]} IN
  /\ parallel
  /\ At(a, "calls", "gather")
  /\ said(a)[1] # "final"
  /\ _current_parent' = [t \in tasks \cup DOMAIN _current_parent |->
                           _current_parent[IF t \in tasks THEN Main(a) ELSE t]]
  /\ UNCHANGED <<script, parallel, round, step, messages, answer, calls, spans, file, now>>

ToolBegins(a, k) ==
  /\ calls[a][k] = "ready"
  /\ said(a)[k] # "final"
  /\ IF parallel THEN pc[a] = "gather" ELSE pc[a] = "calls" /\ answered(a, k - 1)
  /\ enter(TaskOf(a, k), ToolSpan(a, k))
  /\ calls' = [calls EXCEPT ![a][k] = "running"]
  /\ UNCHANGED <<script, parallel, pc, round, step, messages, answer>>

(* The tool returns or raises.  In a task its message waits for the others *)
(* of the turn.                                                            *)
ToolEnds(a, k) ==
  /\ calls[a][k] = "running"
  /\ exit(TaskOf(a, k), ToolSpan(a, k))
  /\ calls' = [calls EXCEPT ![a][k] = IF said(a)[k] = "ok" THEN "ok" ELSE "raised"]
  /\ IF said(a)[k] = "ok" /\ ~parallel THEN Say(a, <<[role |-> "tool", call |-> k]>>)
     ELSE UNCHANGED messages
  /\ UNCHANGED <<script, parallel, pc, round, step, answer>>

(* Every call of the turn was made: the loop goes on. *)
NextTurn(a) ==
  /\ answered(a, Len(calls[a]))
  /\ At(a, IF parallel THEN "gather" ELSE "calls", "loop")
  /\ IF parallel THEN Say(a, [k \in DOMAIN calls[a] |-> [role |-> "tool", call |-> k]])
     ELSE UNCHANGED messages
  /\ round' = [round EXCEPT ![a] = @ + 1]
  /\ UNCHANGED <<script, parallel, step, answer, calls, tracer>>

(* The exception of a tool leaves run_agent.  Of tasks that were gathered  *)
(* the others run on; all of them have begun by then.                      *)
Raise(a) ==
  /\ \E k \in DOMAIN calls[a] : calls[a][k] = "raised"
  /\ parallel => \A k \in DOMAIN calls[a] : calls[a][k] # "ready"
  /\ At(a, IF parallel THEN "gather" ELSE "calls", "raised")
  /\ UNCHANGED <<script, parallel, round, step, messages, answer, calls, tracer>>

(* The end of the with statement around the loop. *)
Return(a) ==
  /\ pc[a] \in {"return", "raised"}
  /\ pc' = [pc EXCEPT ![a] = IF pc[a] = "return" THEN "done" ELSE "failed"]
  /\ exit(Main(a), TaskSpan(a))
  /\ UNCHANGED <<script, parallel, round, step, messages, answer, calls>>

run_agent(a) ==
  \/ Start(a) \/ Chat(a) \/ StepsExhausted(a) \/ Response(a)
  \/ \E k \in DOMAIN calls[a] : FinalAnswer(a, k) \/ ToolBegins(a, k) \/ ToolEnds(a, k)
  \/ Gather(a) \/ NextTurn(a) \/ Raise(a) \/ Return(a)

Next == \E a \in Agents : run_agent(a)

Spec == Init /\ [][Next]_vars

------------------------------------------------------------------------------
(* waterfall.py, reading the trace file at any time. *)

(* The row of a span when they are sorted: no two begin at the same time. *)
row(s) == Cardinality({r \in Range(file) : spans[r].start_s <= spans[s].start_s})

(* Bug: the first line of the file is taken for the first span. *)
t0FirstLine == spans[file[1]].start_s

t0 == Min({spans[s].start_s : s \in Range(file)})

total == Max({spans[s].end_s : s \in Range(file)}) - t0

left(s) == ((spans[s].start_s - t0) * width) \div total

barlen(s) == Max({1, ((spans[s].end_s - spans[s].start_s) * width) \div total})

------------------------------------------------------------------------------
(* Properties. *)

(* The trace of a process that dies at any time has exactly the spans that *)
(* had ended, one line each, children before the agent they belong to; and *)
(* a run_agent that ended, also by an exception, leaves no span open but   *)
(* those of tasks it no longer waits for.                                  *)
EverySpanOnce ==
  /\ Range(file) = {s \in DOMAIN spans : spans[s].end_s > 0}
  /\ \A m, n \in DOMAIN file : m < n => spans[file[m]].end_s < spans[file[n]].end_s
  /\ \A a \in Agents : script[a] # Absent =>
       /\ pc[a] = "done" => \A s \in DOMAIN spans : s[1] = a => spans[s].end_s > 0
       /\ pc[a] = "failed" => Contains(file, TaskSpan(a))

(* "parent-child links are correct in BOTH synchronous code and under      *)
(* asyncio" (tracer.py): chats and tool calls are children of their own    *)
(* agent's span, never of a sibling's or of another agent's, and lie       *)
(* within it in time, unless a tool of their turn raised: then tasks       *)
(* gather has given up may outlive it.  All of them reach the file.        *)
TraceTree ==
  /\ EverySpanOnce
  /\ \A a \in Agents : \A s \in {id \in DOMAIN spans : id[1] = a} :
       IF s = TaskSpan(a) THEN spans[s].parent = NoSpan
       ELSE LET whole == spans[TaskSpan(a)]
            IN  /\ spans[s].parent = TaskSpan(a)
                /\ whole.start_s < spans[s].start_s
                /\ pc[a] = "done" => spans[s].end_s \in spans[s].start_s .. whole.end_s

(* Every tool message answers the next call of the last assistant message, *)
(* and the model is not asked again before all its calls are answered.  A  *)
(* run_agent that returns has the answer of its last turn, or none if      *)
(* max_steps turns with calls are over; and no call behind a final answer  *)
(* or a failing one of the same task was made.                             *)
Transcript ==
  \A a \in Agents : script[a] # Absent /\ pc[a] # "start" =>
    LET said_at(n) == messages[a][n].tool_calls
        talk == messages[a]
    IN  /\ \A n \in 2 .. Len(talk) :
             LET before == talk[n - 1]
             IN  IF talk[n].role = "tool"
                 THEN LET asked == Max({m \in 1 .. n : talk[m].role = "assistant"})
                      IN  talk[n].call = n - asked /\ said_at(asked)[n - asked] = "ok"
                 ELSE before.role = "tool" =>
                        LET asked == Max({m \in 1 .. n - 1 : talk[m].role = "assistant"})
                        IN  before.call = Len(said_at(asked))
        /\ \A n \in 2 .. Len(talk) - 1 :
             talk[n].role = "assistant" => talk[n + 1].role = "tool"
        /\ pc[a] = "done" =>
             /\ answer[a] = NoAnswer => Cardinality(turns(a)) = max_steps
             /\ answer[a] = "text" =>
                  Last(talk) = [role |-> "assistant", tool_calls |-> <<>>]
             /\ answer[a] = "final" =>
                  /\ Contains(said(a), "final")
                  /\ \A k \in DOMAIN calls[a] :
                       calls[a][k] # "ready" => \A j \in 1 .. k : said(a)[j] # "final"

(* Whenever the file is read, the chart's rows are in the order in which   *)
(* the spans began, so that an agent's row is above those of its chats and *)
(* calls, and no bar leaves the chart on either side.                      *)
Waterfall ==
  \A s \in Range(file) :
    /\ left(s) >= 0
    /\ left(s) + barlen(s) <= width
    /\ \A r \in Range(file) :
         r = spans[s].parent => row(r) < row(s) /\ left(r) <= left(s)

==============================================================================
