--------------------------- MODULE ReactAgentProofs ---------------------------
(***************************************************************************)
(* Theorems about the ReAct loop and its tracer, for every number of       *)
(* agents, turns and calls: the trace is a tree that has every span once,  *)
(* the transcript answers every call, and the chart shows both in bounds.  *)
(***************************************************************************)
EXTENDS ReactAgent, FiniteSetTheorems, TLAPS

Says == {"ok", "raises", "final"}

States == {"ready", "running", "ok", "raised"}

Message == {[role |-> "user"]} \cup [role : {"assistant"}, tool_calls : Seq(Says)]
             \cup [role : {"tool"}, call : Nat]

Ids == Agents \X {"agent.task", "gen_ai.client.request", "tool.call"} \X Nat \X Nat

Record == [parent : Ids \cup {NoSpan}, start_s : Nat, end_s : Nat]

Places == {"start", "loop", "chat", "calls", "gather", "return", "raised", "done", "failed"}

AgentType ==
  /\ script \in Workloads
  /\ parallel \in BOOLEAN
  /\ pc \in [Agents -> Places]
  /\ round \in [Agents -> Nat]
  /\ step \in [Agents -> Nat]
  /\ messages \in [Agents -> Seq(Message)]
  /\ answer \in [Agents -> {NoAnswer, "text", "final"}]
  /\ calls \in [Agents -> Seq(States)]

(* Which calls of a turn have begun. *)
CallsInv(a) ==
  /\ script[a] = Absent => pc[a] = "done" /\ calls[a] = <<>>
  /\ \/ pc[a] \in {"start", "loop", "chat", "return", "done"}
     \/ ~parallel /\ pc[a] \in {"raised", "failed"}
     => \A k \in DOMAIN calls[a] : calls[a][k] # "running"
  /\ pc[a] = "calls" /\ parallel => \A k \in DOMAIN calls[a] : calls[a][k] = "ready"
  /\ ~parallel => /\ pc[a] # "gather"
                  /\ \A k \in DOMAIN calls[a] :
                       calls[a][k] # "ready" => answered(a, k - 1)

------------------------------------------------------------------------------
(* The messages. *)

(* Message n is the answer to the next call of message q. *)
Answers(talk, n, q) ==
  /\ talk[q].role = "assistant"
  /\ \A j \in q + 1 .. n : talk[j].role = "tool"
  /\ talk[n].role = "tool" /\ talk[n].call = n - q
  /\ n - q <= Len(talk[q].tool_calls) /\ talk[q].tool_calls[n - q] = "ok"

(* After the first n messages the model may be asked. *)
Asks(talk, n) ==
  \/ n = 1
  \/ \E q \in 2 .. n - 1 : Answers(talk, n, q) /\ n - q = Len(talk[q].tool_calls)

Spoken(talk, n) ==
  \/ \E q \in 2 .. n - 1 : Answers(talk, n, q)
  \/ talk[n].role = "assistant" /\ Asks(talk, n - 1)

TalkInv(talk) ==
  /\ Len(talk) >= 1 /\ talk[1].role = "user"
  /\ \A n \in 2 .. Len(talk) : Spoken(talk, n)

(* The turn of a that message q began. *)
TurnInv(a, q) ==
  LET talk == messages[a] IN
  /\ q \in 2 .. Len(talk) /\ talk[q].role = "assistant"
  /\ \A j \in q + 1 .. Len(talk) : talk[j].role = "tool"
  /\ Len(calls[a]) = Len(talk[q].tool_calls) /\ talk[q].tool_calls # <<>>
  /\ Len(talk) <= q + Len(calls[a])
  /\ \A k \in DOMAIN calls[a] :
       /\ calls[a][k] = "ok" => talk[q].tool_calls[k] = "ok"
       /\ calls[a][k] # "ready" => talk[q].tool_calls[k] # "final"
       /\ ~parallel => (calls[a][k] = "ok" <=> k <= Len(talk) - q)
  /\ parallel => Len(talk) = q

Turns(a) == round[a] + (IF pc[a] \in {"calls", "gather"} THEN 1 ELSE 0)

(* What run_agent has to say. *)
AnswerInv(a) ==
  /\ answer[a] = NoAnswer => Cardinality(turns(a)) = max_steps
  /\ answer[a] = "text" => Last(messages[a]) = [role |-> "assistant", tool_calls |-> <<>>]
  /\ answer[a] = "final" =>
       /\ Contains(said(a), "final")
       /\ \A k \in DOMAIN calls[a] :
            calls[a][k] # "ready" => \A j \in 1 .. k : said(a)[j] # "final"

TranscriptInv(a) ==
  script[a] # Absent =>
    /\ pc[a] = "start" => messages[a] = <<>> /\ round[a] = 0
    /\ pc[a] # "start" => TalkInv(messages[a])
    /\ pc[a] \in {"loop", "chat"} => Asks(messages[a], Len(messages[a]))
    /\ pc[a] \in {"calls", "gather"} => TurnInv(a, Max(turns(a)))
    /\ pc[a] \in {"start", "loop", "chat", "calls", "gather"} =>
         answer[a] = NoAnswer /\ Cardinality(turns(a)) = Turns(a)
    /\ pc[a] \in {"return", "done"} => AnswerInv(a)

------------------------------------------------------------------------------
(* The trace. *)

TraceType ==
  /\ now \in Nat \ {0}
  /\ DOMAIN spans \subseteq Ids
  /\ spans \in [DOMAIN spans -> Record]
  /\ file \in Seq(Ids)
  /\ _current_parent \in [DOMAIN _current_parent -> Ids \cup {NoSpan}]
  /\ {Main(a) : a \in Agents} \subseteq DOMAIN _current_parent

Open(s) == s \in DOMAIN spans /\ spans[s].end_s = 0

(* Time, and the file. *)
FileInv ==
  /\ \A s \in DOMAIN spans :
       /\ 0 < spans[s].start_s /\ spans[s].start_s < now
       /\ spans[s].end_s # 0 => spans[s].start_s < spans[s].end_s /\ spans[s].end_s < now
  /\ \A r, s \in DOMAIN spans : spans[r].start_s = spans[s].start_s => r = s
  /\ Range(file) = {s \in DOMAIN spans : spans[s].end_s # 0}
  /\ \A m, n \in DOMAIN file : m < n => spans[file[m]].end_s < spans[file[n]].end_s

Tool(s) == s[2] = "tool.call"
ChatId(s) == s[2] = "gen_ai.client.request"

(* A span of a. *)
SpanInv(a, s) ==
  /\ pc[a] # "start"
  /\ IF s = TaskSpan(a) THEN spans[s].parent = NoSpan
     ELSE /\ spans[s].parent = TaskSpan(a) /\ TaskSpan(a) \in DOMAIN spans
          /\ spans[TaskSpan(a)].start_s < spans[s].start_s
  /\ ChatId(s) => s[3] < round[a] \/ (s[3] = round[a] /\ pc[a] \notin {"start", "loop"})
  /\ Tool(s) => \/ s[3] < round[a]
                \/ /\ s[3] = round[a] /\ pc[a] \notin {"start", "loop", "chat"}
                   /\ s[4] \in DOMAIN calls[a] /\ calls[a][s[4]] # "ready"
  /\ Open(s) => \/ s = TaskSpan(a) /\ pc[a] \notin {"done", "failed"}
                \/ s = ChatSpan(a) /\ pc[a] = "chat"
                \/ \E k \in DOMAIN calls[a] : s = ToolSpan(a, k) /\ calls[a][k] = "running"
  /\ pc[a] = "done" => TaskSpan(a) \in DOMAIN spans
                       /\ spans[s].end_s <= spans[TaskSpan(a)].end_s

(* Which spans a has, and what is its parent now. *)
OpenInv(a) ==
  /\ pc[a] \in {"start", "done"} \/ TaskSpan(a) \in DOMAIN spans
  /\ pc[a] \in {"start", "done", "failed"} \/ Open(TaskSpan(a))
  /\ pc[a] = "failed" => ~Open(TaskSpan(a))
  /\ pc[a] = "chat" => Open(ChatSpan(a))
  /\ \A k \in DOMAIN calls[a] : calls[a][k] = "running" => Open(ToolSpan(a, k))

ContextInv(a) ==
  /\ pc[a] = "start" => _current_parent[Main(a)] = NoSpan
  /\ \/ pc[a] = "loop"
     \/ pc[a] \in {"calls", "gather"}
        /\ (parallel \/ \A k \in DOMAIN calls[a] : calls[a][k] # "running")
     => _current_parent[Main(a)] = TaskSpan(a)
  /\ pc[a] = "gather" =>
       \A k \in DOMAIN calls[a] :
         calls[a][k] = "ready" => /\ <<a, k>> \in DOMAIN _current_parent
                                  /\ _current_parent[<<a, k>>] = TaskSpan(a)

AgentInv == AgentType /\ \A a \in Agents : CallsInv(a) /\ TranscriptInv(a)

TreeInv(a) ==
  /\ \A s \in DOMAIN spans : s[1] = a => SpanInv(a, s)
  /\ OpenInv(a) /\ ContextInv(a)

TraceInv == TraceType /\ FileInv /\ \A a \in Agents : TreeInv(a)

------------------------------------------------------------------------------
(* About sets of positions, and messages that are added to others. *)

LEMMA MaxIs ==
  ASSUME NEW S, S \subseteq Int, NEW x \in S, \A y \in S : y <= x
  PROVE  Max(S) = x
  <1>1. x \in Int /\ \E z \in S : \A y \in S : z >= y
    OBVIOUS
  <1>2. Max(S) \in S /\ \A y \in S : Max(S) >= y
    BY <1>1 DEF Max
  <1>3. Max(S) \in Int /\ Max(S) <= x /\ Max(S) >= x
    BY <1>2
  <1> QED
    BY <1>1, <1>3

LEMMA Elements ==
  ASSUME NEW S, NEW s \in Seq(S)
  PROVE  Len(s) \in Nat /\ DOMAIN s = 1 .. Len(s) /\ \A j \in 1 .. Len(s) : s[j] \in S
  OBVIOUS

LEMMA Agree ==
  ASSUME NEW s, NEW t, NEW n \in Nat, \A j \in 1 .. n : t[j] = s[j]
  PROVE  /\ \A m \in 1 .. n : \A q \in 1 .. m : Answers(t, m, q) = Answers(s, m, q)
         /\ \A m \in 1 .. n : Asks(t, m) = Asks(s, m)
         /\ \A m \in 2 .. n : Spoken(t, m) = Spoken(s, m)
  <1>1. ASSUME NEW m \in 1 .. n, NEW q \in 1 .. m
        PROVE  Answers(t, m, q) = Answers(s, m, q)
    <2>1. t[m] = s[m] /\ t[q] = s[q] /\ \A j \in q + 1 .. m : t[j] = s[j]
      OBVIOUS
    <2> QED
      BY <2>1 DEF Answers
  <1>2. ASSUME NEW m \in 1 .. n PROVE Asks(t, m) = Asks(s, m)
    <2>1. \A q \in 2 .. m - 1 : q \in 1 .. m /\ t[q] = s[q]
      OBVIOUS
    <2> QED
      BY <1>1, <2>1 DEF Asks
  <1>3. ASSUME NEW m \in 2 .. n PROVE Spoken(t, m) = Spoken(s, m)
    <2>1. m \in 1 .. n /\ m - 1 \in 1 .. n /\ \A q \in 2 .. m - 1 : q \in 1 .. m
      OBVIOUS
    <2> QED
      BY <1>1, <1>2, <2>1 DEF Spoken
  <1> QED
    BY <1>1, <1>2, <1>3

LEMMA TalkGrows ==
  ASSUME NEW s \in Seq(Message), NEW t \in Seq(Message), Len(s) <= Len(t),
         \A j \in 1 .. Len(s) : t[j] = s[j], TalkInv(s),
         \A n \in Len(s) + 1 .. Len(t) : Spoken(t, n)
  PROVE  TalkInv(t)
  <1>1. Len(s) \in Nat /\ Len(t) \in Nat
    OBVIOUS
  <1>2. \A n \in 2 .. Len(s) : Spoken(t, n)
    BY <1>1, Agree DEF TalkInv
  <1> QED
    BY <1>1, <1>2 DEF TalkInv

LEMMA Positions ==
  ASSUME AgentType, NEW a \in Agents
  PROVE  /\ Len(messages[a]) \in Nat /\ turns(a) \subseteq 1 .. Len(messages[a])
         /\ IsFiniteSet(turns(a)) /\ Cardinality(turns(a)) \in Nat
         /\ messages[a] \in Seq(Message)
  <1>1. messages[a] \in Seq(Message)
    BY DEF AgentType
  <1>2. turns(a) \subseteq 1 .. Len(messages[a])
    BY <1>1 DEF turns
  <1>3. IsFiniteSet(1 .. Len(messages[a]))
    BY <1>1, FS_Interval
  <1> QED
    BY <1>1, <1>2, <1>3, FS_Subset, FS_CardinalityType

(* The last turn is the one that nobody spoke after. *)
LEMMA LastTurn ==
  ASSUME NEW talk \in Seq(Message), NEW q \in DOMAIN talk, talk[q].role = "assistant",
         \A j \in q + 1 .. Len(talk) : talk[j].role # "assistant"
  PROVE  Max({n \in DOMAIN talk : talk[n].role = "assistant"}) = q
  <1> DEFINE S == {n \in DOMAIN talk : talk[n].role = "assistant"}
  <1>1. DOMAIN talk = 1 .. Len(talk) /\ Len(talk) \in Nat
    BY Elements
  <1>2. q \in S /\ q \in Int /\ S \subseteq Int
    BY <1>1
  <1>3. \A y \in S : y <= q
    BY <1>1
  <1> HIDE DEF S
  <1>4. Max(S) = q
    BY <1>2, <1>3, MaxIs
  <1> QED
    BY <1>4 DEF S

(* Which message an answer answers. *)
LEMMA OneQuestion ==
  ASSUME NEW talk, NEW n \in Nat, NEW p \in 1 .. n, NEW q \in 1 .. n,
         talk[p].role = "assistant", talk[q].role = "assistant",
         \A j \in p + 1 .. n : talk[j].role = "tool",
         \A j \in q + 1 .. n : talk[j].role = "tool"
  PROVE  p = q
  <1>1. CASE p < q
    BY <1>1
  <1>2. CASE q < p
    BY <1>2
  <1> QED
    BY <1>1, <1>2

------------------------------------------------------------------------------
(* What the steps of others leave as it was, and the step of a itself. *)

Untouched(b) ==
  /\ pc'[b] = pc[b] /\ round'[b] = round[b] /\ messages'[b] = messages[b]
  /\ answer'[b] = answer[b] /\ calls'[b] = calls[b]

LEMMA Others ==
  ASSUME NEW b, UNCHANGED <<script, parallel>>, Untouched(b),
         CallsInv(b), TranscriptInv(b)
  PROVE  CallsInv(b)' /\ TranscriptInv(b)'
  <1>1. turns(b)' = turns(b)
    BY DEF turns, Untouched
  <1>2. said(b)' = said(b)
    BY <1>1 DEF said, Untouched
  <1>3. \A k : answered(b, k)' = answered(b, k)
    BY DEF answered, Untouched
  <1>4. CallsInv(b)'
    BY <1>3 DEF CallsInv, Untouched
  <1>5. AnswerInv(b)' = AnswerInv(b)
    BY <1>1, <1>2 DEF AnswerInv, Untouched
  <1>6. TurnInv(b, Max(turns(b)))' = TurnInv(b, Max(turns(b)))
    BY <1>1 DEF TurnInv, Untouched
  <1>7. Turns(b)' = Turns(b)
    BY DEF Turns, Untouched
  <1>8. TranscriptInv(b)'
    BY <1>1, <1>5, <1>6, <1>7 DEF TranscriptInv, Untouched
  <1> QED
    BY <1>4, <1>8

LEMMA AgentStep ==
  ASSUME AgentInv, NEW a \in Agents, UNCHANGED <<script, parallel>>, AgentType',
         \A b \in Agents : b # a => Untouched(b),
         CallsInv(a)', TranscriptInv(a)'
  PROVE  AgentInv'
  BY Others DEF AgentInv

(* What At and Say do. *)
LEMMA Going ==
  ASSUME AgentType, NEW a \in Agents, NEW here, NEW there \in Places, At(a, here, there)
  PROVE  /\ pc[a] = here /\ pc' \in [Agents -> Places] /\ pc'[a] = there
         /\ \A b \in Agents : b # a => pc'[b] = pc[b]
  BY DEF At, AgentType

LEMMA Saying ==
  ASSUME AgentType, NEW a \in Agents, NEW more \in Seq(Message), Say(a, more)
  PROVE  /\ messages' \in [Agents -> Seq(Message)]
         /\ \A b \in Agents : b # a => messages'[b] = messages[b]
         /\ Len(messages'[a]) = Len(messages[a]) + Len(more)
         /\ \A j \in 1 .. Len(messages[a]) : messages'[a][j] = messages[a][j]
         /\ \A j \in 1 .. Len(more) : messages'[a][Len(messages[a]) + j] = more[j]
  <1> DEFINE old == messages[a]
             new == old \o more
  <1>1. old \in Seq(Message) /\ messages \in [Agents -> Seq(Message)]
    BY DEF AgentType
  <1>2. /\ new \in Seq(Message) /\ Len(new) = Len(old) + Len(more)
        /\ \A j \in 1 .. Len(old) : new[j] = old[j]
        /\ \A j \in 1 .. Len(more) : new[Len(old) + j] = more[j]
    <2> HIDE DEF old
    <2> QED
      BY <1>1
  <1>3. messages' = [messages EXCEPT ![a] = new]
    BY DEF Say
  <1> HIDE DEF new
  <1> QED
    BY <1>1, <1>2, <1>3

------------------------------------------------------------------------------
(* The steps of run_agent, and the transcript. *)

LEMMA Silent ==
  ASSUME AgentType, NEW a \in Agents, messages'[a] = messages[a]
  PROVE  turns(a)' = turns(a) /\ said(a)' = said(a)
  BY DEF turns, said

LEMMA StartTalk ==
  ASSUME AgentInv, NEW a \in Agents, Start(a)
  PROVE  AgentInv'
  <1> DEFINE user == [role |-> "user"]
  <1>1. /\ At(a, "start", "loop") /\ Say(a, <<user>>)
        /\ UNCHANGED <<script, parallel, round, step, answer, calls>>
    BY DEF Start
  <1>2. AgentType /\ CallsInv(a) /\ TranscriptInv(a)
    BY DEF AgentInv
  <1>3. /\ pc[a] = "start" /\ pc' \in [Agents -> Places] /\ pc'[a] = "loop"
        /\ \A b \in Agents : b # a => pc'[b] = pc[b]
    BY <1>1, <1>2, Going DEF Places
  <1>4. script[a] # Absent /\ messages[a] = <<>> /\ round[a] = 0 /\ answer[a] = NoAnswer
    BY <1>2, <1>3 DEF CallsInv, TranscriptInv
  <1>5. <<user>> \in Seq(Message) /\ Len(<<user>>) = 1 /\ <<user>>[1] = user
    BY DEF Message
  <1>6. /\ messages' \in [Agents -> Seq(Message)]
        /\ \A b \in Agents : b # a => messages'[b] = messages[b]
        /\ Len(messages'[a]) = Len(messages[a]) + 1
        /\ messages'[a][Len(messages[a]) + 1] = user
    <2> HIDE DEF user
    <2>1. 1 \in 1 .. Len(<<user>>)
      BY <1>5
    <2> QED
      BY <1>1, <1>2, <1>5, <2>1, Saying
  <1>7. /\ Len(messages'[a]) = 1 /\ messages'[a][1] = user
        /\ messages'[a] \in Seq(Message)
    BY <1>4, <1>6
  <1>8. turns(a)' = {}
    <2>1. DOMAIN messages'[a] = {1} /\ messages'[a][1].role = "user"
      BY <1>7
    <2> QED
      BY <2>1 DEF turns
  <1>9. Cardinality(turns(a))' = 0
    BY <1>8, FS_EmptySet
  <1>10. TalkInv(messages[a])' /\ Asks(messages[a], Len(messages[a]))'
    BY <1>7 DEF TalkInv, Asks
  <1>11. TranscriptInv(a)'
    BY <1>1, <1>3, <1>4, <1>9, <1>10 DEF TranscriptInv, Turns
  <1>12. CallsInv(a)'
    BY <1>1, <1>2, <1>3, <1>4 DEF CallsInv, answered
  <1>13. AgentType'
    BY <1>1, <1>2, <1>3, <1>6 DEF AgentType
  <1> QED
    BY <1>1, <1>3, <1>6, <1>11, <1>12, <1>13, AgentStep DEF Untouched

LEMMA ChatTalk ==
  ASSUME AgentInv, NEW a \in Agents, Chat(a)
  PROVE  AgentInv'
  <1>1. /\ At(a, "loop", "chat")
        /\ UNCHANGED <<script, parallel, round, step, messages, answer, calls>>
    BY DEF Chat
  <1>2. AgentType /\ CallsInv(a) /\ TranscriptInv(a)
    BY DEF AgentInv
  <1>3. /\ pc[a] = "loop" /\ pc' \in [Agents -> Places] /\ pc'[a] = "chat"
        /\ \A b \in Agents : b # a => pc'[b] = pc[b]
    BY <1>1, <1>2, Going DEF Places
  <1>4. TranscriptInv(a)'
    BY <1>1, <1>2, <1>3, Silent DEF TranscriptInv, Turns
  <1>5. CallsInv(a)'
    BY <1>1, <1>2, <1>3 DEF CallsInv, answered
  <1>6. AgentType'
    BY <1>1, <1>2, <1>3 DEF AgentType
  <1> QED
    BY <1>1, <1>3, <1>4, <1>5, <1>6, AgentStep DEF Untouched

LEMMA StepsExhaustedTalk ==
  ASSUME AgentInv, NEW a \in Agents, StepsExhausted(a)
  PROVE  AgentInv'
  <1>1. /\ At(a, "loop", "return") /\ round[a] = max_steps
        /\ UNCHANGED <<script, parallel, round, step, messages, answer, calls>>
    BY DEF StepsExhausted
  <1>2. AgentType /\ CallsInv(a) /\ TranscriptInv(a)
    BY DEF AgentInv
  <1>3. /\ pc[a] = "loop" /\ pc' \in [Agents -> Places] /\ pc'[a] = "return"
        /\ \A b \in Agents : b # a => pc'[b] = pc[b]
    BY <1>1, <1>2, Going DEF Places
  <1>4. script[a] # Absent => answer[a] = NoAnswer /\ Cardinality(turns(a)) = max_steps
    <2>1. round[a] + 0 = max_steps
      BY <1>1, AgentAssumption
    <2> QED
      BY <1>1, <1>2, <1>3, <2>1 DEF TranscriptInv, Turns
  <1>5. TranscriptInv(a)'
    BY <1>1, <1>2, <1>3, <1>4, Silent, AgentAssumption DEF TranscriptInv, AnswerInv
  <1>6. CallsInv(a)'
    BY <1>1, <1>2, <1>3 DEF CallsInv, answered
  <1>7. AgentType'
    BY <1>1, <1>2, <1>3 DEF AgentType
  <1> QED
    BY <1>1, <1>3, <1>5, <1>6, <1>7, AgentStep DEF Untouched

(* The next turn of the script. *)
LEMMA TurnType ==
  ASSUME AgentType, NEW a \in Agents, script[a] # Absent
  PROVE  turn(a) \in Seq(Says) /\ Min({step[a] + 1, Len(script[a])}) \in Nat
  <1>1. script[a] \in Seq(Seq(Says)) /\ step[a] \in Nat
    BY AgentAssumption DEF AgentType, Says
  <1> DEFINE S == Seq(Says)
  <1>2. <<>> \in S /\ script[a] \in Seq(S)
    BY <1>1
  <1>3. turn(a) \in S
    <2> HIDE DEF S
    <2> QED
      BY <1>1, <1>2, Elements DEF turn
  <1>4. Len(script[a]) \in Nat
    BY <1>1
  <1>5. Min({step[a] + 1, Len(script[a])}) \in {step[a] + 1, Len(script[a])}
    <2>1. \E x \in {step[a] + 1, Len(script[a])} :
            \A y \in {step[a] + 1, Len(script[a])} : x <= y
      BY <1>1, <1>4
    <2> QED
      BY <2>1 DEF Min
  <1> QED
    BY <1>1, <1>3, <1>4, <1>5

LEMMA ResponseTalk ==
  ASSUME AgentInv, NEW a \in Agents, Response(a)
  PROVE  AgentInv'
  <1> DEFINE said_now == turn(a)
             reply == [role |-> "assistant", tool_calls |-> said_now]
             talk == messages[a]
             ready == [k \in DOMAIN said_now |-> "ready"]
  <1> PICK n : n = Len(talk) + 1
    OBVIOUS
  <1>1. /\ pc[a] = "chat" /\ Say(a, <<reply>>)
        /\ step' = [step EXCEPT ![a] = Min({@ + 1, Len(script[a])})]
        /\ UNCHANGED <<script, parallel, round>>
    BY DEF Response
  <1>2. AgentType /\ CallsInv(a) /\ TranscriptInv(a)
    BY DEF AgentInv
  <1>3. /\ script[a] # Absent /\ TalkInv(talk) /\ Asks(talk, Len(talk))
        /\ answer[a] = NoAnswer /\ Cardinality(turns(a)) = round[a]
    BY <1>1, <1>2 DEF CallsInv, TranscriptInv, Turns, AgentType
  <1>4. said_now \in Seq(Says) /\ Min({step[a] + 1, Len(script[a])}) \in Nat
    BY <1>2, <1>3, TurnType
  <1>5. \/ /\ said_now = <<>> /\ answer' = [answer EXCEPT ![a] = "text"]
           /\ pc' = [pc EXCEPT ![a] = "return"] /\ UNCHANGED calls
        \/ /\ said_now # <<>> /\ calls' = [calls EXCEPT ![a] = ready]
           /\ pc' = [pc EXCEPT ![a] = "calls"] /\ UNCHANGED answer
    BY DEF Response
  <1> HIDE DEF said_now
  <1>6. reply \in Message /\ reply.role = "assistant" /\ reply.tool_calls = said_now
    BY <1>4 DEF Message
  <1> HIDE DEF reply
  <1>7. <<reply>> \in Seq(Message) /\ Len(<<reply>>) = 1 /\ <<reply>>[1] = reply
    BY <1>6
  <1>8. /\ messages' \in [Agents -> Seq(Message)]
        /\ \A b \in Agents : b # a => messages'[b] = messages[b]
        /\ Len(messages'[a]) = n /\ messages'[a][n] = reply
        /\ \A j \in 1 .. Len(talk) : messages'[a][j] = talk[j]
    <2>1. 1 \in 1 .. Len(<<reply>>)
      BY <1>7
    <2> QED
      BY <1>1, <1>2, <1>7, <2>1, Saying
  <1>9. messages'[a] \in Seq(Message) /\ talk \in Seq(Message) /\ Len(talk) \in Nat
    BY <1>2, <1>8, Positions
  <1>10. Len(talk) >= 1 /\ talk[1].role = "user"
    BY <1>3 DEF TalkInv
  <1>11. Spoken(messages'[a], n)
    <2>1. \A m \in 1 .. Len(talk) : Asks(messages'[a], m) = Asks(talk, m)
      BY <1>8, <1>9, Agree
    <2>2. n - 1 = Len(talk) /\ Len(talk) \in 1 .. Len(talk)
      BY <1>9, <1>10
    <2> QED
      BY <1>3, <1>6, <1>8, <2>1, <2>2 DEF Spoken
  <1>12. TalkInv(messages'[a])
    <2>1. Len(talk) <= Len(messages'[a]) /\ \A m \in Len(talk) + 1 .. Len(messages'[a]) : m = n
      BY <1>8, <1>9
    <2> QED
      BY <1>3, <1>8, <1>9, <1>11, <2>1, TalkGrows
  <1>13. turns(a)' = turns(a) \cup {n} /\ n \notin turns(a)
    <2>1. DOMAIN messages'[a] = DOMAIN talk \cup {n} /\ n \notin DOMAIN talk
      BY <1>8, <1>9
    <2>2. \A j \in DOMAIN talk : messages'[a][j] = talk[j]
      BY <1>8, <1>9
    <2>3. \A j : j \in turns(a)' <=> j \in turns(a) \/ j = n
      BY <1>6, <1>8, <2>1, <2>2 DEF turns
    <2> QED
      BY <2>1, <2>3 DEF turns
  <1>14. Cardinality(turns(a))' = round[a] + 1
    <2>1. IsFiniteSet(turns(a))
      BY <1>2, Positions
    <2>2. Cardinality(turns(a) \cup {n}) = Cardinality(turns(a)) + 1
      BY <1>13, <2>1, FS_AddElement
    <2> QED
      BY <1>3, <1>13, <2>2
  <1>15. AgentType'
    <2>1. answer' \in [Agents -> {NoAnswer, "text", "final"}]
      BY <1>2, <1>5 DEF AgentType
    <2>2. ready \in Seq(States)
      BY <1>4 DEF States
    <2>3. calls' \in [Agents -> Seq(States)]
      BY <1>2, <1>5, <2>2 DEF AgentType
    <2>4. pc' \in [Agents -> Places]
      BY <1>2, <1>5 DEF AgentType, Places
    <2>5. step' \in [Agents -> Nat]
      BY <1>1, <1>2, <1>4 DEF AgentType
    <2> QED
      BY <1>1, <1>2, <1>8, <2>1, <2>3, <2>4, <2>5 DEF AgentType
  <1>16. said(a)' = said_now /\ Max(turns(a))' = n
    <2>1. n \in DOMAIN messages'[a] /\ messages'[a][n].role = "assistant"
      BY <1>6, <1>8, <1>9
    <2>2. \A j \in n + 1 .. Len(messages'[a]) : FALSE
      BY <1>8, <1>9
    <2>3. Max(turns(a)') = n
      BY <1>9, <2>1, <2>2, LastTurn DEF turns
    <2> QED
      BY <1>6, <1>8, <2>3 DEF said
  <1>17. CASE /\ said_now = <<>> /\ answer' = [answer EXCEPT ![a] = "text"]
              /\ pc' = [pc EXCEPT ![a] = "return"] /\ UNCHANGED calls
    <2>1. /\ pc'[a] = "return" /\ answer'[a] = "text"
          /\ \A b \in Agents : b # a => pc'[b] = pc[b] /\ answer'[b] = answer[b]
      BY <1>2, <1>17 DEF AgentType
    <2>2. Last(messages'[a]) = [role |-> "assistant", tool_calls |-> <<>>]
      BY <1>8, <1>17 DEF Last, reply
    <2>3. AnswerInv(a)'
      BY <2>1, <2>2, AgentAssumption DEF AnswerInv
    <2>4. TranscriptInv(a)'
      BY <1>12, <2>1, <2>3 DEF TranscriptInv
    <2>5. CallsInv(a)'
      BY <1>1, <1>2, <1>3, <1>17, <2>1 DEF CallsInv, answered
    <2> QED
      BY <1>1, <1>8, <1>15, <1>17, <2>1, <2>4, <2>5, AgentStep DEF Untouched
  <1>18. CASE /\ said_now # <<>> /\ calls' = [calls EXCEPT ![a] = ready]
              /\ pc' = [pc EXCEPT ![a] = "calls"] /\ UNCHANGED answer
    <2>1. /\ pc'[a] = "calls" /\ calls'[a] = ready
          /\ \A b \in Agents : b # a => pc'[b] = pc[b] /\ calls'[b] = calls[b]
      BY <1>2, <1>18 DEF AgentType
    <2>2. /\ DOMAIN ready = 1 .. Len(said_now) /\ Len(said_now) \in Nat
          /\ Len(ready) = Len(said_now) /\ \A k \in DOMAIN ready : ready[k] = "ready"
      BY <1>4
    <2> HIDE DEF ready
    <2>3. TurnInv(a, n)'
      <3> DEFINE t == messages'[a]
      <3>1. /\ n \in 2 .. Len(t) /\ t[n].role = "assistant" /\ t[n].tool_calls = said_now
            /\ Len(t) = n
        BY <1>6, <1>8, <1>9, <1>10
      <3>2. \A j \in n + 1 .. Len(t) : FALSE
        BY <1>8, <1>9
      <3>3. n <= n + Len(said_now) /\ \A k \in 1 .. Len(said_now) : ~(k <= n - n)
        BY <1>9, <2>2
      <3> HIDE DEF t
      <3> QED
        BY <1>18, <2>1, <2>2, <3>1, <3>2, <3>3 DEF TurnInv, t
    <2>4. TranscriptInv(a)'
      BY <1>1, <1>3, <1>12, <1>14, <1>16, <1>18, <2>1, <2>3 DEF TranscriptInv, Turns
    <2>5. CallsInv(a)'
      BY <1>1, <1>3, <2>1, <2>2 DEF CallsInv, answered
    <2> QED
      BY <1>1, <1>8, <1>15, <1>18, <2>1, <2>4, <2>5, AgentStep DEF Untouched
  <1> QED
    BY <1>5, <1>17, <1>18

LEMMA FinalAnswerTalk ==
  ASSUME AgentInv, NEW a \in Agents, NEW k \in DOMAIN calls[a], FinalAnswer(a, k)
  PROVE  AgentInv'
  <1>1. /\ At(a, "calls", "return") /\ said(a)[k] = "final" /\ answered(a, k - 1)
        /\ answer' = [answer EXCEPT ![a] = "final"]
        /\ UNCHANGED <<script, parallel, round, step, messages, calls>>
    BY DEF FinalAnswer
  <1>2. AgentType /\ CallsInv(a) /\ TranscriptInv(a)
    BY DEF AgentInv
  <1>3. /\ pc[a] = "calls" /\ pc' \in [Agents -> Places] /\ pc'[a] = "return"
        /\ \A b \in Agents : b # a => pc'[b] = pc[b]
    BY <1>1, <1>2, Going DEF Places
  <1>4. /\ answer' \in [Agents -> {NoAnswer, "text", "final"}] /\ answer'[a] = "final"
        /\ \A b \in Agents : b # a => answer'[b] = answer[b]
    BY <1>1, <1>2 DEF AgentType
  <1>5. script[a] # Absent /\ TalkInv(messages[a]) /\ TurnInv(a, Max(turns(a)))
    BY <1>2, <1>3 DEF CallsInv, TranscriptInv
  <1>6. /\ Len(calls[a]) = Len(said(a))
        /\ \A j \in DOMAIN calls[a] : calls[a][j] # "ready" => said(a)[j] # "final"
    BY <1>5 DEF TurnInv, said
  <1>7. Len(calls[a]) \in Nat /\ DOMAIN calls[a] = 1 .. Len(calls[a])
    BY <1>2, Elements DEF AgentType
  <1>8. \A j \in DOMAIN calls[a] : calls[a][j] \in {"ready", "ok"}
    <2>1. CASE parallel
      BY <1>2, <1>3, <2>1 DEF CallsInv
    <2>2. CASE ~parallel
      <3> SUFFICES ASSUME NEW j \in DOMAIN calls[a], calls[a][j] # "ready"
                   PROVE  calls[a][j] = "ok"
        OBVIOUS
      <3>1. \A i \in 1 .. j - 1 : calls[a][i] = "ok"
        BY <1>2, <2>2 DEF CallsInv, answered
      <3>2. calls[a][k] = "ready"
        BY <1>1, <1>6
      <3>3. j < k
        BY <1>7, <3>1, <3>2
      <3> QED
        BY <1>1, <1>7, <3>3 DEF answered
    <2> QED
      BY <2>1, <2>2
  <1>9. Contains(said(a), "final")
    BY <1>1, <1>6, <1>7 DEF Contains
  <1>10. \A j \in DOMAIN calls[a] : calls[a][j] # "ready" =>
           \A i \in 1 .. j : said(a)[i] # "final"
    <2> SUFFICES ASSUME NEW j \in DOMAIN calls[a], calls[a][j] # "ready", NEW i \in 1 .. j
                 PROVE  said(a)[i] # "final"
      OBVIOUS
    <2>1. ~parallel
      BY <1>2, <1>3 DEF CallsInv
    <2>2. i \in DOMAIN calls[a] /\ (i = j \/ i \in 1 .. j - 1)
      BY <1>7
    <2>3. calls[a][i] # "ready"
      BY <1>2, <2>1, <2>2 DEF CallsInv, answered
    <2> QED
      BY <1>6, <2>2, <2>3
  <1>11. AnswerInv(a)'
    BY <1>1, <1>2, <1>4, <1>9, <1>10, Silent, AgentAssumption DEF AnswerInv
  <1>12. TranscriptInv(a)'
    BY <1>1, <1>3, <1>5, <1>11 DEF TranscriptInv
  <1>13. CallsInv(a)'
    BY <1>1, <1>2, <1>3, <1>5, <1>8 DEF CallsInv, answered
  <1>14. AgentType'
    BY <1>1, <1>2, <1>3, <1>4 DEF AgentType
  <1> QED
    BY <1>1, <1>3, <1>4, <1>12, <1>13, <1>14, AgentStep DEF Untouched

LEMMA GatherTalk ==
  ASSUME AgentInv, NEW a \in Agents, Gather(a)
  PROVE  AgentInv'
  <1>1. /\ At(a, "calls", "gather") /\ parallel
        /\ UNCHANGED <<script, parallel, round, step, messages, answer, calls>>
    BY DEF Gather
  <1>2. AgentType /\ CallsInv(a) /\ TranscriptInv(a)
    BY DEF AgentInv
  <1>3. /\ pc[a] = "calls" /\ pc' \in [Agents -> Places] /\ pc'[a] = "gather"
        /\ \A b \in Agents : b # a => pc'[b] = pc[b]
    BY <1>1, <1>2, Going DEF Places
  <1>4. TurnInv(a, Max(turns(a))) => TurnInv(a, Max(turns(a)))'
    BY <1>1, <1>2, Silent DEF TurnInv
  <1>5. TranscriptInv(a)'
    BY <1>1, <1>2, <1>3, <1>4, Silent DEF TranscriptInv, Turns
  <1>6. CallsInv(a)'
    BY <1>1, <1>2, <1>3 DEF CallsInv, answered
  <1>7. AgentType'
    BY <1>1, <1>2, <1>3 DEF AgentType
  <1> QED
    BY <1>1, <1>3, <1>5, <1>6, <1>7, AgentStep DEF Untouched

LEMMA RaiseTalk ==
  ASSUME AgentInv, NEW a \in Agents, Raise(a)
  PROVE  AgentInv'
  <1>1. /\ At(a, IF parallel THEN "gather" ELSE "calls", "raised")
        /\ UNCHANGED <<script, parallel, round, step, messages, answer, calls>>
    BY DEF Raise
  <1> PICK k \in DOMAIN calls[a] : calls[a][k] = "raised"
    BY DEF Raise
  <1>2. AgentType /\ CallsInv(a) /\ TranscriptInv(a)
    BY DEF AgentInv
  <1>3. /\ pc[a] \in {"calls", "gather"}
        /\ pc' \in [Agents -> Places] /\ pc'[a] = "raised"
        /\ \A b \in Agents : b # a => pc'[b] = pc[b]
    BY <1>1, <1>2, Going DEF Places
  <1>4. TranscriptInv(a)'
    BY <1>1, <1>2, <1>3 DEF TranscriptInv
  <1>5. ~parallel => \A j \in DOMAIN calls[a] : calls[a][j] # "running"
    <2> SUFFICES ASSUME ~parallel, NEW j \in DOMAIN calls[a], calls[a][j] = "running"
                 PROVE  FALSE
      OBVIOUS
    <2>1. DOMAIN calls[a] = 1 .. Len(calls[a]) /\ Len(calls[a]) \in Nat
      BY <1>2, Elements DEF AgentType
    <2>2. /\ \A i \in 1 .. j - 1 : calls[a][i] = "ok"
          /\ \A i \in 1 .. k - 1 : calls[a][i] = "ok"
      BY <1>2 DEF CallsInv, answered
    <2> QED
      BY <2>1, <2>2
  <1>6. CallsInv(a)'
    BY <1>1, <1>2, <1>3, <1>5 DEF CallsInv, answered
  <1>7. AgentType'
    BY <1>1, <1>2, <1>3 DEF AgentType
  <1> QED
    BY <1>1, <1>3, <1>4, <1>6, <1>7, AgentStep DEF Untouched

LEMMA ReturnTalk ==
  ASSUME AgentInv, NEW a \in Agents, Return(a)
  PROVE  AgentInv'
  <1>1. /\ pc[a] \in {"return", "raised"}
        /\ pc' = [pc EXCEPT ![a] = IF pc[a] = "return" THEN "done" ELSE "failed"]
        /\ UNCHANGED <<script, parallel, round, step, messages, answer, calls>>
    BY DEF Return
  <1>2. AgentType /\ CallsInv(a) /\ TranscriptInv(a)
    BY DEF AgentInv
  <1>3. /\ pc' \in [Agents -> Places]
        /\ pc'[a] = IF pc[a] = "return" THEN "done" ELSE "failed"
        /\ \A b \in Agents : b # a => pc'[b] = pc[b]
    BY <1>1, <1>2 DEF AgentType, Places
  <1>4. AnswerInv(a) => AnswerInv(a)'
    BY <1>1, <1>2, Silent DEF AnswerInv
  <1>5. TranscriptInv(a)'
    BY <1>1, <1>2, <1>3, <1>4 DEF TranscriptInv
  <1>6. CallsInv(a)'
    BY <1>1, <1>2, <1>3 DEF CallsInv, answered
  <1>7. AgentType'
    BY <1>1, <1>2, <1>3 DEF AgentType
  <1> QED
    BY <1>1, <1>3, <1>5, <1>6, <1>7, AgentStep DEF Untouched

(* One call of a goes on. *)
LEMMA Calling ==
  ASSUME AgentType, NEW a \in Agents, NEW k \in DOMAIN calls[a], NEW v \in States,
         calls' = [calls EXCEPT ![a][k] = v]
  PROVE  /\ calls' \in [Agents -> Seq(States)]
         /\ Len(calls'[a]) = Len(calls[a]) /\ DOMAIN calls'[a] = DOMAIN calls[a]
         /\ calls'[a][k] = v
         /\ \A j \in DOMAIN calls[a] : j # k => calls'[a][j] = calls[a][j]
         /\ \A b \in Agents : b # a => calls'[b] = calls[b]
  <1> DEFINE old == calls[a]
             new == [old EXCEPT ![k] = v]
  <1>1. old \in Seq(States) /\ calls \in [Agents -> Seq(States)]
    BY DEF AgentType
  <1>2. /\ new \in Seq(States) /\ Len(new) = Len(old) /\ DOMAIN new = DOMAIN old
        /\ new[k] = v /\ \A j \in DOMAIN old : j # k => new[j] = old[j]
    <2> HIDE DEF old
    <2> QED
      BY <1>1 DEF old
  <1>3. calls' = [calls EXCEPT ![a] = new]
    OBVIOUS
  <1> HIDE DEF new
  <1> QED
    BY <1>1, <1>2, <1>3

LEMMA ToolBeginsTalk ==
  ASSUME AgentInv, NEW a \in Agents, NEW k \in DOMAIN calls[a], ToolBegins(a, k)
  PROVE  AgentInv'
  <1>1. /\ calls[a][k] = "ready" /\ said(a)[k] # "final"
        /\ IF parallel THEN pc[a] = "gather" ELSE pc[a] = "calls" /\ answered(a, k - 1)
        /\ calls' = [calls EXCEPT ![a][k] = "running"]
        /\ UNCHANGED <<script, parallel, pc, round, step, messages, answer>>
    BY DEF ToolBegins
  <1>2. AgentType /\ CallsInv(a) /\ TranscriptInv(a)
    BY DEF AgentInv
  <1>3. /\ calls' \in [Agents -> Seq(States)]
        /\ Len(calls'[a]) = Len(calls[a]) /\ DOMAIN calls'[a] = DOMAIN calls[a]
        /\ calls'[a][k] = "running"
        /\ \A j \in DOMAIN calls[a] : j # k => calls'[a][j] = calls[a][j]
        /\ \A b \in Agents : b # a => calls'[b] = calls[b]
    <2>1. "running" \in States
      BY DEF States
    <2> QED
      BY <1>1, <1>2, <2>1, Calling
  <1>4. script[a] # Absent /\ pc[a] \in {"calls", "gather"}
    BY <1>1, <1>2 DEF CallsInv
  <1> PICK q : q = Max(turns(a))
    OBVIOUS
  <1>5. TurnInv(a, q) /\ said(a) = messages[a][q].tool_calls
    BY <1>2, <1>4 DEF TranscriptInv, said
  <1>6. TurnInv(a, q)'
    BY <1>1, <1>3, <1>5 DEF TurnInv
  <1>7. turns(a)' = turns(a)
    BY <1>1, <1>2, Silent
  <1>8. TranscriptInv(a)'
    BY <1>1, <1>2, <1>4, <1>6, <1>7 DEF TranscriptInv, Turns
  <1>9. DOMAIN calls[a] = 1 .. Len(calls[a]) /\ Len(calls[a]) \in Nat
    BY <1>2, Elements DEF AgentType
  <1>10. ASSUME ~parallel, NEW j \in DOMAIN calls[a], calls'[a][j] # "ready"
         PROVE  answered(a, j - 1)'
    <2>1. CASE j = k
      BY <1>1, <1>3, <1>9, <1>10, <2>1 DEF answered
    <2>2. CASE j # k
      <3>1. \A i \in 1 .. j - 1 : calls[a][i] = "ok"
        BY <1>2, <1>3, <1>10, <2>2 DEF CallsInv, answered
      <3>2. j < k
        BY <1>1, <1>9, <2>2, <3>1
      <3> QED
        BY <1>3, <1>9, <3>1, <3>2 DEF answered
    <2> QED
      BY <2>1, <2>2
  <1>11. CallsInv(a)'
    BY <1>1, <1>3, <1>4, <1>10 DEF CallsInv
  <1>12. AgentType'
    BY <1>1, <1>2, <1>3 DEF AgentType
  <1> QED
    BY <1>1, <1>3, <1>8, <1>11, <1>12, AgentStep DEF Untouched

LEMMA ToolEndsTalk ==
  ASSUME AgentInv, NEW a \in Agents, NEW k \in DOMAIN calls[a], ToolEnds(a, k)
  PROVE  AgentInv'
  <1> DEFINE end == IF said(a)[k] = "ok" THEN "ok" ELSE "raised"
             reply == [role |-> "tool", call |-> k]
             talk == messages[a]
  <1>1. /\ calls[a][k] = "running" /\ calls' = [calls EXCEPT ![a][k] = end]
        /\ UNCHANGED <<script, parallel, pc, round, step, answer>>
        /\ IF end = "ok" /\ ~parallel THEN Say(a, <<reply>>) ELSE UNCHANGED messages
    BY DEF ToolEnds
  <1>2. AgentType /\ CallsInv(a) /\ TranscriptInv(a)
    BY DEF AgentInv
  <1>3. /\ calls' \in [Agents -> Seq(States)]
        /\ Len(calls'[a]) = Len(calls[a]) /\ DOMAIN calls'[a] = DOMAIN calls[a]
        /\ calls'[a][k] = end
        /\ \A j \in DOMAIN calls[a] : j # k => calls'[a][j] = calls[a][j]
        /\ \A b \in Agents : b # a => calls'[b] = calls[b]
    <2>1. end \in States
      BY DEF States
    <2> QED
      BY <1>1, <1>2, <2>1, Calling
  <1>4. /\ script[a] # Absent /\ pc[a] \in {"calls", "gather", "raised", "failed"}
        /\ ~parallel => pc[a] = "calls"
    BY <1>1, <1>2 DEF CallsInv, AgentType, Places
  <1>5. DOMAIN calls[a] = 1 .. Len(calls[a]) /\ Len(calls[a]) \in Nat
    BY <1>2, Elements DEF AgentType
  <1>6. CallsInv(a)'
    <2>1. ASSUME ~parallel, NEW j \in DOMAIN calls[a], calls'[a][j] # "ready"
          PROVE  answered(a, j - 1)'
      <3>1. calls[a][j] # "ready"
        BY <1>1, <1>3, <2>1
      <3>2. \A i \in 1 .. j - 1 : calls[a][i] = "ok"
        BY <1>2, <2>1, <3>1 DEF CallsInv, answered
      <3>3. \A i \in 1 .. j - 1 : i # k /\ i \in DOMAIN calls[a]
        BY <1>1, <1>5, <3>2
      <3> QED
        BY <1>3, <3>2, <3>3 DEF answered
    <2>2. parallel => pc[a] # "calls"
      BY <1>1, <1>2 DEF CallsInv
    <2> QED
      BY <1>1, <1>3, <1>4, <2>1, <2>2 DEF CallsInv
  <1> PICK q : q = Max(turns(a))
    OBVIOUS
  <1>7. CASE ~parallel /\ end = "ok"
    <2>1. TurnInv(a, q) /\ said(a) = talk[q].tool_calls /\ TalkInv(talk)
      BY <1>2, <1>4, <1>7 DEF TranscriptInv, said
    <2>2. reply \in Message /\ reply.role = "tool" /\ reply.call = k /\ k \in Nat
      BY <1>5 DEF Message
    <2> HIDE DEF reply
    <2>3. <<reply>> \in Seq(Message) /\ Len(<<reply>>) = 1 /\ <<reply>>[1] = reply
      BY <2>2
    <2>4. talk \in Seq(Message) /\ Len(talk) \in Nat /\ q \in 2 .. Len(talk)
      BY <1>2, <2>1, Positions DEF TurnInv
    <2> PICK n : n = Len(talk) + 1
      OBVIOUS
    <2>5. /\ messages' \in [Agents -> Seq(Message)]
          /\ \A b \in Agents : b # a => messages'[b] = messages[b]
          /\ Len(messages'[a]) = n /\ messages'[a][n] = reply
          /\ \A j \in 1 .. Len(talk) : messages'[a][j] = talk[j]
      <3>1. 1 \in 1 .. Len(<<reply>>)
        BY <2>3
      <3> QED
        BY <1>1, <1>2, <1>7, <2>3, <3>1, Saying
    <2>6. n = q + k
      <3>1. \A j \in DOMAIN calls[a] : calls[a][j] = "ok" <=> j <= Len(talk) - q
        BY <1>7, <2>1 DEF TurnInv
      <3>2. ~(k <= Len(talk) - q)
        BY <1>1, <3>1
      <3>3. k - 1 <= Len(talk) - q
        <4>1. CASE k = 1
          BY <2>4, <4>1
        <4>2. CASE k # 1
          <5>1. k - 1 \in DOMAIN calls[a] /\ k - 1 \in 1 .. k - 1
            BY <1>5, <4>2
          <5>2. calls[a][k - 1] = "ok"
            BY <1>1, <1>2, <1>7, <5>1 DEF CallsInv, answered
          <5> QED
            BY <3>1, <5>1, <5>2
        <4> QED
          BY <4>1, <4>2
      <3> QED
        BY <1>5, <2>4, <3>2, <3>3
    <2>7. turns(a)' = turns(a)
      <3> DOMAIN talk = 1 .. Len(talk)
        BY <2>4
      <3>1. DOMAIN messages'[a] = DOMAIN talk \cup {n} /\ n \notin DOMAIN talk
        BY <2>4, <2>5
      <3>2. \A j \in DOMAIN talk : messages'[a][j] = talk[j]
        BY <2>5
      <3>3. \A j : j \in turns(a)' <=> j \in turns(a)
        BY <2>2, <2>5, <3>1, <3>2 DEF turns
      <3> QED
        BY <3>1, <3>3 DEF turns
    <2>8. /\ talk[q].role = "assistant" /\ messages'[a][q] = talk[q]
          /\ \A j \in q + 1 .. n : messages'[a][j].role = "tool"
      <3>1. talk[q].role = "assistant" /\ messages'[a][q] = talk[q]
        BY <2>1, <2>4, <2>5 DEF TurnInv
      <3>2. ASSUME NEW j \in q + 1 .. n PROVE messages'[a][j].role = "tool"
        <4>1. j = n \/ (j \in q + 1 .. Len(talk) /\ j \in 1 .. Len(talk))
          BY <2>4
        <4>2. j \in q + 1 .. Len(talk) => talk[j].role = "tool"
          BY <2>1 DEF TurnInv
        <4> QED
          BY <2>2, <2>5, <4>1, <4>2
      <3> QED
        BY <3>1, <3>2
    <2>9. k <= Len(talk[q].tool_calls) /\ talk[q].tool_calls[k] = "ok"
      BY <1>5, <1>7, <2>1 DEF TurnInv
    <2>10. Spoken(messages'[a], n)
      <3>1. n - q = k
        BY <1>5, <2>4, <2>6
      <3>2. messages'[a][n].role = "tool" /\ messages'[a][n].call = n - q
        BY <2>2, <2>5, <3>1
      <3>3. Answers(messages'[a], n, q)
        BY <2>8, <2>9, <3>1, <3>2 DEF Answers
      <3>4. q \in 2 .. n - 1
        BY <2>4
      <3> QED
        BY <3>3, <3>4 DEF Spoken
    <2>11. TalkInv(messages'[a])
      <3>1. /\ Len(talk) <= Len(messages'[a]) /\ messages'[a] \in Seq(Message)
            /\ \A m \in Len(talk) + 1 .. Len(messages'[a]) : m = n
        BY <2>4, <2>5
      <3> QED
        BY <2>1, <2>4, <2>5, <2>10, <3>1, TalkGrows
    <2>12. TurnInv(a, q)'
      <3>1. \A j \in DOMAIN calls[a] : calls'[a][j] = "ok" <=> j <= n - q
        <4> SUFFICES ASSUME NEW j \in DOMAIN calls[a] PROVE calls'[a][j] = "ok" <=> j <= n - q
          OBVIOUS
        <4>1. calls[a][j] = "ok" <=> j <= Len(talk) - q
          BY <1>7, <2>1 DEF TurnInv
        <4>2. j \in Nat /\ k \in Nat /\ Len(talk) - q = k - 1 /\ n - q = k
          BY <1>5, <2>4, <2>6
        <4>3. calls'[a][j] = IF j = k THEN end ELSE calls[a][j]
          BY <1>3
        <4> QED
          BY <1>7, <4>1, <4>2, <4>3
      <3>2. \A j \in DOMAIN calls[a] :
              /\ calls'[a][j] = "ok" => talk[q].tool_calls[j] = "ok"
              /\ calls'[a][j] # "ready" => talk[q].tool_calls[j] # "final"
        BY <1>1, <1>3, <2>1, <2>9 DEF TurnInv
      <3>3. q \in 2 .. n /\ n <= q + Len(calls[a])
        BY <1>5, <2>4, <2>6
      <3>4. /\ Len(calls[a]) = Len(talk[q].tool_calls) /\ talk[q].tool_calls # <<>>
        BY <2>1 DEF TurnInv
      <3> QED
        BY <1>1, <1>3, <1>7, <2>5, <2>8, <3>1, <3>2, <3>3, <3>4 DEF TurnInv
    <2>13. TranscriptInv(a)'
      BY <1>1, <1>2, <1>4, <1>7, <2>7, <2>11, <2>12 DEF TranscriptInv, Turns
    <2>14. AgentType'
      BY <1>1, <1>2, <1>3, <2>5 DEF AgentType
    <2> QED
      BY <1>1, <1>3, <1>6, <2>5, <2>13, <2>14, AgentStep DEF Untouched
  <1>8. CASE ~(~parallel /\ end = "ok")
    <2>1. UNCHANGED messages
      BY <1>1, <1>8
    <2>2. turns(a)' = turns(a)
      BY <1>2, <2>1, Silent
    <2>3. pc[a] \in {"calls", "gather"} => TurnInv(a, q)'
      <3> SUFFICES ASSUME pc[a] \in {"calls", "gather"} PROVE TurnInv(a, q)'
        OBVIOUS
      <3>1. TurnInv(a, q) /\ said(a) = talk[q].tool_calls
        BY <1>2, <1>4 DEF TranscriptInv, said
      <3> QED
        BY <1>1, <1>3, <1>8, <2>1, <3>1 DEF TurnInv
    <2>4. TranscriptInv(a)'
      BY <1>1, <1>2, <1>4, <2>1, <2>2, <2>3 DEF TranscriptInv, Turns
    <2>5. AgentType'
      BY <1>1, <1>2, <1>3, <2>1 DEF AgentType
    <2> QED
      BY <1>1, <1>3, <1>6, <2>1, <2>4, <2>5, AgentStep DEF Untouched
  <1> QED
    BY <1>7, <1>8

LEMMA NextTurnTalk ==
  ASSUME AgentInv, NEW a \in Agents, NextTurn(a)
  PROVE  AgentInv'
  <1> DEFINE talk == messages[a]
             more == [k \in DOMAIN calls[a] |-> [role |-> "tool", call |-> k]]
  <1> PICK q : q = Max(turns(a))
    OBVIOUS
  <1> PICK c : c = Len(calls[a])
    OBVIOUS
  <1>1. /\ answered(a, c) /\ At(a, IF parallel THEN "gather" ELSE "calls", "loop")
        /\ IF parallel THEN Say(a, more) ELSE UNCHANGED messages
        /\ round' = [round EXCEPT ![a] = @ + 1]
        /\ UNCHANGED <<script, parallel, step, answer, calls>>
    BY DEF NextTurn
  <1>2. AgentType /\ CallsInv(a) /\ TranscriptInv(a)
    BY DEF AgentInv
  <1>3. /\ pc[a] \in {"calls", "gather"}
        /\ pc' \in [Agents -> Places] /\ pc'[a] = "loop"
        /\ \A b \in Agents : b # a => pc'[b] = pc[b]
    BY <1>1, <1>2, Going DEF Places
  <1>4. /\ script[a] # Absent /\ TalkInv(talk) /\ TurnInv(a, q)
        /\ answer[a] = NoAnswer /\ Cardinality(turns(a)) = round[a] + 1
    BY <1>2, <1>3 DEF CallsInv, TranscriptInv, Turns
  <1>5. talk \in Seq(Message) /\ Len(talk) \in Nat /\ q \in 2 .. Len(talk)
    BY <1>2, <1>4, Positions DEF TurnInv
  <1>6. /\ DOMAIN calls[a] = 1 .. c /\ c \in Nat
        /\ \A k \in 1 .. c : calls[a][k] = "ok"
    BY <1>1, <1>2, Elements DEF AgentType, answered
  <1>7. /\ talk[q].role = "assistant" /\ c = Len(talk[q].tool_calls)
        /\ \A j \in q + 1 .. Len(talk) : talk[j].role = "tool"
        /\ \A k \in 1 .. c : talk[q].tool_calls[k] = "ok"
    BY <1>4, <1>6 DEF TurnInv
  <1>8. c >= 1
    <2>1. talk[q] \in Message
      BY <1>5, Elements
    <2>2. talk[q].tool_calls \in Seq(Says) /\ talk[q].tool_calls # <<>>
      BY <1>4, <1>7, <2>1 DEF Message, TurnInv
    <2> QED
      BY <1>6, <1>7, <2>2
  <1>9. round' \in [Agents -> Nat] /\ round'[a] = round[a] + 1
        /\ \A b \in Agents : b # a => round'[b] = round[b]
    BY <1>1, <1>2 DEF AgentType
  <1>10. CallsInv(a)'
    BY <1>1, <1>2, <1>3, <1>4, <1>6 DEF CallsInv, answered
  <1>11. /\ messages' \in [Agents -> Seq(Message)]
         /\ \A b \in Agents : b # a => messages'[b] = messages[b]
         /\ TalkInv(messages'[a]) /\ Asks(messages'[a], Len(messages'[a]))
         /\ turns(a)' = turns(a)
    <2>1. CASE ~parallel
      <3>1. UNCHANGED messages
        BY <1>1, <2>1
      <3>2. Len(talk) = q + c
        <4>1. c \in DOMAIN calls[a] /\ calls[a][c] = "ok"
          BY <1>6, <1>8
        <4>2. c <= Len(talk) - q /\ Len(talk) <= q + Len(calls[a])
          BY <1>4, <2>1, <4>1 DEF TurnInv
        <4> HIDE DEF talk
        <4> QED
          BY <1>5, <1>6, <4>2
      <3>3. /\ Len(talk) \in q + 1 .. Len(talk) /\ Len(talk) \in 2 .. Len(talk)
            /\ q \in 2 .. Len(talk) - 1 /\ q \in 1 .. Len(talk)
        BY <1>5, <1>6, <1>8, <3>2
      <3>4. talk[Len(talk)].role = "tool" /\ Spoken(talk, Len(talk))
        BY <1>4, <1>7, <3>3 DEF TalkInv
      <3>5. PICK p \in 2 .. Len(talk) - 1 : Answers(talk, Len(talk), p)
        BY <3>4 DEF Spoken
      <3>6. p = q
        <4>1. p \in 1 .. Len(talk)
          BY <1>5
        <4>2. talk[p].role = "assistant" /\ \A j \in p + 1 .. Len(talk) : talk[j].role = "tool"
          BY <3>5 DEF Answers
        <4> HIDE DEF talk
        <4> QED
          BY <1>5, <1>7, <3>3, <4>1, <4>2, OneQuestion
      <3>7. Asks(talk, Len(talk))
        <4>1. Len(talk) - q = Len(talk[q].tool_calls)
          BY <1>5, <1>6, <1>7, <3>2
        <4> QED
          BY <3>3, <3>5, <3>6, <4>1 DEF Asks
      <3> QED
        BY <1>2, <1>4, <3>1, <3>7, Silent DEF AgentType
    <2>2. CASE parallel
      <3> PICK old : old = Len(talk)
        OBVIOUS
      <3>1. old = q /\ Say(a, more)
        BY <1>1, <1>4, <2>2 DEF TurnInv
      <3>2. /\ more \in Seq(Message) /\ Len(more) = c
            /\ \A k \in 1 .. c : more[k] = [role |-> "tool", call |-> k]
        BY <1>6 DEF Message
      <3> HIDE DEF more
      <3>3. /\ messages' \in [Agents -> Seq(Message)]
            /\ \A b \in Agents : b # a => messages'[b] = messages[b]
            /\ Len(messages'[a]) = q + c
            /\ \A j \in 1 .. q : messages'[a][j] = talk[j]
            /\ \A k \in 1 .. c : messages'[a][q + k] = more[k]
        <4>1. /\ messages' \in [Agents -> Seq(Message)]
              /\ \A b \in Agents : b # a => messages'[b] = messages[b]
              /\ Len(messages'[a]) = Len(messages[a]) + Len(more)
              /\ \A j \in 1 .. Len(messages[a]) : messages'[a][j] = messages[a][j]
              /\ \A j \in 1 .. Len(more) : messages'[a][Len(messages[a]) + j] = more[j]
          BY <1>2, <3>1, <3>2, Saying
        <4>2. Len(messages[a]) = q /\ Len(more) = c
          BY <3>1, <3>2
        <4> QED
          BY <4>1, <4>2
      <3>4. messages'[a] \in Seq(Message)
        BY <3>3
      <3> DEFINE new == messages'[a]
      <3>5. new[q] = talk[q] /\ \A j \in q + 1 .. q + c : /\ j - q \in 1 .. c
                                                          /\ new[j].role = "tool"
                                                          /\ new[j].call = j - q
        <4>1. q \in 1 .. q
          BY <1>5
        <4>2. ASSUME NEW j \in q + 1 .. q + c
              PROVE  j - q \in 1 .. c /\ new[j].role = "tool" /\ new[j].call = j - q
          <5>1. j - q \in 1 .. c /\ j = q + (j - q)
            BY <1>5, <1>6
          <5>2. new[j] = [role |-> "tool", call |-> j - q]
            BY <3>2, <3>3, <5>1
          <5> QED
            BY <5>1, <5>2
        <4> QED
          BY <3>3, <4>1, <4>2
      <3>6. turns(a)' = turns(a)
        <4>1. DOMAIN new = 1 .. q + c /\ DOMAIN talk = 1 .. q
          <5> HIDE DEF new, talk
          <5>1. Len(new) = q + c /\ new \in Seq(Message)
            BY <3>3, <3>4 DEF new
          <5> QED
            BY <1>5, <3>1, <5>1, Elements
        <4>2. \A j : j \in turns(a)' <=> j \in turns(a)
          <5>1. \A j \in 1 .. q + c : j \in 1 .. q \/ j \in q + 1 .. q + c
            BY <1>5, <1>6
          <5>2. \A j \in 1 .. q : j \in 1 .. q + c
            BY <1>5, <1>6
          <5> QED
            BY <3>3, <3>5, <4>1, <5>1, <5>2 DEF turns
        <4> QED
          BY <4>2 DEF turns
      <3> HIDE DEF new
      <3>7. ASSUME NEW m \in q + 1 .. q + c
            PROVE  Answers(new, m, q)
        <4>1. m - q \in 1 .. c /\ m \in q + 1 .. q + c /\ \A j \in q + 1 .. m : j \in q + 1 .. q + c
          BY <1>5, <1>6
        <4>2. m - q <= c
          BY <4>1, <1>6
        <4> QED
          BY <1>7, <3>5, <4>1, <4>2 DEF Answers
      <3>8. TalkInv(new)
        <4>1. \A m \in q + 1 .. q + c : q \in 2 .. m - 1
          BY <1>5, <1>6
        <4>2. \A m \in Len(talk) + 1 .. Len(new) : Spoken(new, m)
          BY <3>1, <3>3, <3>7, <4>1 DEF Spoken, new
        <4>3. /\ Len(talk) <= Len(new) /\ new \in Seq(Message)
              /\ \A j \in 1 .. Len(talk) : new[j] = talk[j]
          BY <1>5, <1>6, <3>1, <3>3 DEF new
        <4> HIDE DEF talk
        <4> QED
          BY <1>4, <1>5, <4>2, <4>3, TalkGrows
      <3>9. Asks(new, Len(new))
        <4>1. /\ q + c \in q + 1 .. q + c /\ q \in 2 .. (q + c) - 1 /\ (q + c) - q = c
              /\ Len(new) = q + c
          BY <1>5, <1>6, <1>8, <3>3 DEF new
        <4>2. Answers(new, q + c, q)
          BY <3>7, <4>1
        <4>3. q + c - q = Len(new[q].tool_calls)
          <5> HIDE DEF talk
          <5>1. Len(new[q].tool_calls) = c
            BY <1>7, <3>5
          <5> QED
            BY <4>1, <5>1
        <4> PICK m : m = q + c
          OBVIOUS
        <4>4. Answers(new, m, q) /\ m - q = Len(new[q].tool_calls) /\ q \in 2 .. m - 1
          BY <4>1, <4>2, <4>3
        <4>5. Asks(new, m)
          BY <4>4 DEF Asks
        <4> QED
          BY <4>1, <4>5
      <3> QED
        BY <3>3, <3>6, <3>8, <3>9 DEF new
    <2> QED
      BY <2>1, <2>2
  <1>12. TranscriptInv(a)'
    <2>1. round'[a] + 0 = round[a] + 1
      BY <1>2, <1>9 DEF AgentType
    <2> QED
      BY <1>1, <1>3, <1>4, <1>11, <2>1 DEF TranscriptInv, Turns
  <1>13. AgentType'
    BY <1>1, <1>2, <1>3, <1>9, <1>11 DEF AgentType
  <1> QED
    BY <1>1, <1>3, <1>9, <1>10, <1>11, <1>12, <1>13, AgentStep DEF Untouched

LEMMA AgentInit == Init => AgentInv
  <1> SUFFICES ASSUME Init PROVE AgentInv
    OBVIOUS
  <1>1. AgentType
    BY DEF Init, AgentType, Places
  <1>2. \A a \in Agents : turns(a) = {}
    BY DEF Init, turns
  <1>3. \A a \in Agents : Cardinality(turns(a)) = 0
    BY <1>2, FS_EmptySet
  <1>4. \A a \in Agents : TranscriptInv(a)
    BY <1>3 DEF Init, TranscriptInv, Turns
  <1>5. \A a \in Agents : CallsInv(a)
    BY DEF Init, CallsInv
  <1> QED
    BY <1>1, <1>4, <1>5 DEF AgentInv

LEMMA AgentNext == AgentInv /\ [Next]_vars => AgentInv'
  <1> SUFFICES ASSUME AgentInv, [Next]_vars PROVE AgentInv'
    OBVIOUS
  <1>1. CASE UNCHANGED vars
    <2>1. /\ UNCHANGED <<script, parallel, pc, round, step, messages, answer, calls>>
      BY <1>1 DEF vars, agent
    <2>2. AgentType'
      BY <2>1 DEF AgentInv, AgentType
    <2>3. \A b \in Agents : CallsInv(b)' /\ TranscriptInv(b)'
      BY <2>1, Others DEF AgentInv, Untouched
    <2> QED
      BY <2>2, <2>3 DEF AgentInv
  <1>2. ASSUME NEW a \in Agents, run_agent(a) PROVE AgentInv'
    BY <1>2, StartTalk, ChatTalk, StepsExhaustedTalk, ResponseTalk, FinalAnswerTalk,
       ToolBeginsTalk, ToolEndsTalk, GatherTalk, NextTurnTalk, RaiseTalk, ReturnTalk
       DEF run_agent
  <1> QED
    BY <1>1, <1>2 DEF Next

(* The message that the tools before message n answer. *)
LEMMA Asked ==
  ASSUME NEW talk, NEW n \in Nat, NEW q \in 1 .. n, talk[q].role = "assistant",
         \A j \in q + 1 .. n : talk[j].role = "tool"
  PROVE  Max({m \in 1 .. n : talk[m].role = "assistant"}) = q
  <1> DEFINE S == {m \in 1 .. n : talk[m].role = "assistant"}
  <1>1. q \in S /\ S \subseteq Int
    OBVIOUS
  <1>2. \A y \in S : y <= q
    OBVIOUS
  <1> HIDE DEF S
  <1>3. Max(S) = q
    BY <1>1, <1>2, MaxIs
  <1> QED
    BY <1>3 DEF S

LEMMA TranscriptHolds == AgentInv => Transcript
  <1> SUFFICES ASSUME AgentInv PROVE Transcript
    OBVIOUS
  <1>1. ASSUME NEW talk \in Seq(Message), TalkInv(talk), NEW n \in 2 .. Len(talk)
        PROVE  IF talk[n].role = "tool"
               THEN LET asked == Max({m \in 1 .. n : talk[m].role = "assistant"})
                    IN  talk[n].call = n - asked /\ talk[asked].tool_calls[n - asked] = "ok"
               ELSE talk[n - 1].role = "tool" =>
                      LET asked == Max({m \in 1 .. n - 1 : talk[m].role = "assistant"})
                      IN  talk[n - 1].call = Len(talk[asked].tool_calls)
    <2>1. Len(talk) \in Nat /\ n \in Nat /\ n - 1 \in Nat /\ talk[1].role = "user"
      BY <1>1 DEF TalkInv
    <2>2. Spoken(talk, n)
      BY <1>1 DEF TalkInv
    <2>3. ASSUME talk[n].role = "tool"
          PROVE  LET asked == Max({m \in 1 .. n : talk[m].role = "assistant"})
                 IN  talk[n].call = n - asked /\ talk[asked].tool_calls[n - asked] = "ok"
      <3> PICK q \in 2 .. n - 1 : Answers(talk, n, q)
        BY <2>2, <2>3 DEF Spoken
      <3>1. q \in 1 .. n
        BY <2>1
      <3>2. Max({m \in 1 .. n : talk[m].role = "assistant"}) = q
        BY <2>1, <3>1, Asked DEF Answers
      <3> QED
        BY <3>2 DEF Answers
    <2>4. ASSUME talk[n].role # "tool", talk[n - 1].role = "tool"
          PROVE  LET asked == Max({m \in 1 .. n - 1 : talk[m].role = "assistant"})
                 IN  talk[n - 1].call = Len(talk[asked].tool_calls)
      <3>1. Asks(talk, n - 1)
        BY <2>2, <2>4 DEF Spoken, Answers
      <3>2. PICK q \in 2 .. n - 1 - 1 : /\ Answers(talk, n - 1, q)
                                        /\ n - 1 - q = Len(talk[q].tool_calls)
        BY <2>1, <2>4, <3>1 DEF Asks
      <3>3. q \in 1 .. n - 1
        BY <2>1
      <3>4. Max({m \in 1 .. n - 1 : talk[m].role = "assistant"}) = q
        BY <2>1, <3>2, <3>3, Asked DEF Answers
      <3> QED
        BY <3>2, <3>4 DEF Answers
    <2> QED
      BY <2>3, <2>4
  <1>2. ASSUME NEW talk \in Seq(Message), TalkInv(talk), NEW n \in 2 .. Len(talk) - 1,
               talk[n].role = "assistant"
        PROVE  talk[n + 1].role = "tool"
    <2>1. n + 1 \in 2 .. Len(talk) /\ (n + 1) - 1 = n /\ n # 1
      BY <1>2
    <2>2. Spoken(talk, n + 1)
      BY <1>2, <2>1 DEF TalkInv
    <2> QED
      BY <1>2, <2>1, <2>2 DEF Spoken, Asks, Answers
  <1>3. ASSUME NEW a \in Agents, script[a] # Absent, pc[a] # "start"
        PROVE  /\ messages[a] \in Seq(Message) /\ TalkInv(messages[a])
               /\ pc[a] = "done" => AnswerInv(a)
    BY <1>3 DEF AgentInv, AgentType, TranscriptInv
  <1> QED
    BY <1>1, <1>2, <1>3 DEF Transcript, AnswerInv

(* Every tool message answers the next call of the last assistant message, *)
(* the model is asked when all its calls are answered, and a run_agent     *)
(* that returns says what its last turn said.                              *)
THEOREM AnswersEveryCall == Spec => []Transcript
  <1>1. AgentInv => Transcript
    BY TranscriptHolds
  <1>2. Init => AgentInv
    BY AgentInit
  <1>3. AgentInv /\ [Next]_vars => AgentInv'
    BY AgentNext
  <1> QED
    BY <1>1, <1>2, <1>3, PTL DEF Spec

------------------------------------------------------------------------------
(* What the tracer does when a span begins and when it ends. *)

LEMMA Entering ==
  ASSUME TraceType, FileInv, NEW t \in DOMAIN _current_parent,
         NEW id \in Ids, id \notin DOMAIN spans, enter(t, id)
  PROVE  /\ TraceType' /\ FileInv'
         /\ DOMAIN spans' = DOMAIN spans \cup {id}
         /\ spans'[id] = [parent |-> _current_parent[t], start_s |-> now, end_s |-> 0]
         /\ \A s \in DOMAIN spans : spans'[s] = spans[s]
         /\ DOMAIN _current_parent' = DOMAIN _current_parent
         /\ _current_parent'[t] = id
         /\ \A u \in DOMAIN _current_parent : u # t => _current_parent'[u] = _current_parent[u]
  <1> DEFINE new == [parent |-> _current_parent[t], start_s |-> now, end_s |-> 0]
  <1>1. /\ spans' = [s \in DOMAIN spans \cup {id} |-> IF s = id THEN new ELSE spans[s]]
        /\ _current_parent' = [u \in DOMAIN _current_parent \cup {t} |->
                                 IF u = t THEN id ELSE _current_parent[u]]
        /\ now' = now + 1 /\ file' = file
    BY DEF enter, With
  <1>2. new \in Record /\ new.start_s = now /\ new.end_s = 0 /\ now \in Nat \ {0}
    BY DEF TraceType, Record
  <1>3. /\ DOMAIN spans' = DOMAIN spans \cup {id} /\ spans'[id] = new
        /\ \A s \in DOMAIN spans : spans'[s] = spans[s]
    BY <1>1
  <1>4. /\ DOMAIN _current_parent' = DOMAIN _current_parent /\ _current_parent'[t] = id
        /\ \A u \in DOMAIN _current_parent : u # t => _current_parent'[u] = _current_parent[u]
    BY <1>1
  <1> HIDE DEF new
  <1>5. TraceType'
    BY <1>1, <1>2 DEF TraceType
  <1>6. \A s \in DOMAIN spans : spans[s] \in Record
    BY DEF TraceType
  <1>7. FileInv'
    <2>1. \A s \in DOMAIN spans' :
            /\ 0 < spans'[s].start_s /\ spans'[s].start_s < now'
            /\ spans'[s].end_s # 0 => /\ spans'[s].start_s < spans'[s].end_s
                                      /\ spans'[s].end_s < now'
      BY <1>1, <1>2, <1>3, <1>6 DEF FileInv, Record
    <2>2. \A r, s \in DOMAIN spans' : spans'[r].start_s = spans'[s].start_s => r = s
      BY <1>2, <1>3, <1>6 DEF FileInv, Record
    <2>3. Range(file') = {s \in DOMAIN spans' : spans'[s].end_s # 0}
      BY <1>1, <1>2, <1>3 DEF FileInv, Range
    <2>4. \A m \in DOMAIN file : spans'[file[m]] = spans[file[m]]
      BY <1>3 DEF FileInv, Range
    <2>5. \A m, n \in DOMAIN file' : m < n => spans'[file'[m]].end_s < spans'[file'[n]].end_s
      <3>1. \A m, n \in DOMAIN file : m < n => spans[file[m]].end_s < spans[file[n]].end_s
        BY DEF FileInv
      <3>2. file' = file
        BY <1>1
      <3> QED
        BY <2>4, <3>1, <3>2
    <2> QED
      BY <2>1, <2>2, <2>3, <2>5 DEF FileInv
  <1> QED
    BY <1>3, <1>4, <1>5, <1>7 DEF new

LEMMA Leaving ==
  ASSUME TraceType, FileInv, NEW t \in Agents \X Nat, NEW id \in DOMAIN spans, Open(id),
         exit(t, id)
  PROVE  /\ TraceType' /\ FileInv'
         /\ DOMAIN spans' = DOMAIN spans
         /\ spans'[id].parent = spans[id].parent
         /\ spans'[id].start_s = spans[id].start_s /\ spans'[id].end_s = now /\ now > 0
         /\ \A s \in DOMAIN spans : s # id => spans'[s] = spans[s]
         /\ DOMAIN _current_parent' = DOMAIN _current_parent \cup {t}
         /\ _current_parent'[t] = spans[id].parent
         /\ \A u \in DOMAIN _current_parent : u # t => _current_parent'[u] = _current_parent[u]
  <1> DEFINE new == [spans[id] EXCEPT !.end_s = now]
  <1>1. /\ spans' = [spans EXCEPT ![id] = new] /\ file' = Append(file, id)
        /\ _current_parent' = [u \in DOMAIN _current_parent \cup {t} |->
                                 IF u = t THEN spans[id].parent ELSE _current_parent[u]]
        /\ now' = now + 1
    BY DEF exit, With
  <1>2. /\ id \in DOMAIN spans /\ spans[id].end_s = 0 /\ id \in Ids /\ now \in Nat \ {0}
        /\ spans \in [DOMAIN spans -> Record] /\ spans[id] \in Record
        /\ file \in Seq(Ids)
    BY DEF Open, TraceType
  <1>3. /\ new \in Record /\ new.end_s = now /\ new.start_s = spans[id].start_s
        /\ new.parent = spans[id].parent
    BY <1>2 DEF Record
  <1> HIDE DEF new
  <1>4. /\ DOMAIN spans' = DOMAIN spans /\ spans'[id] = new
        /\ spans' \in [DOMAIN spans -> Record]
        /\ \A s \in DOMAIN spans : s # id => spans'[s] = spans[s]
    BY <1>1, <1>2, <1>3
  <1>5. /\ file' \in Seq(Ids) /\ Len(file') = Len(file) + 1 /\ file'[Len(file) + 1] = id
        /\ DOMAIN file = 1 .. Len(file) /\ DOMAIN file' = 1 .. Len(file) + 1
        /\ Len(file) \in Nat /\ \A n \in 1 .. Len(file) : file'[n] = file[n]
    BY <1>1, <1>2
  <1>6. TraceType'
    <2>1. spans[id].parent \in Ids \cup {NoSpan}
      BY <1>2 DEF Record
    <2> QED
      BY <1>1, <1>2, <1>4, <1>5, <2>1 DEF TraceType
  <1>7. \A s \in DOMAIN spans : spans[s] \in Record
    BY DEF TraceType
  <1>8. FileInv'
    <2>1. \A s \in DOMAIN spans' :
            /\ 0 < spans'[s].start_s /\ spans'[s].start_s < now'
            /\ spans'[s].end_s # 0 => /\ spans'[s].start_s < spans'[s].end_s
                                      /\ spans'[s].end_s < now'
      BY <1>1, <1>2, <1>3, <1>4, <1>7 DEF FileInv, Record
    <2>2. \A r, s \in DOMAIN spans' : spans'[r].start_s = spans'[s].start_s => r = s
      <3>1. \A s \in DOMAIN spans : spans'[s].start_s = spans[s].start_s
        BY <1>3, <1>4
      <3> QED
        BY <1>4, <3>1 DEF FileInv
    <2>3. \A s : s \in Range(file') <=> s \in Range(file) \/ s = id
      BY <1>5 DEF Range
    <2>4. Range(file') = {s \in DOMAIN spans' : spans'[s].end_s # 0}
      BY <1>2, <1>3, <1>4, <2>3 DEF FileInv
    <2>5. \A m \in DOMAIN file : /\ file[m] \in DOMAIN spans /\ file[m] # id
                                 /\ spans[file[m]].end_s # 0
      BY <1>2 DEF FileInv, Range
    <2>6. ASSUME NEW m \in DOMAIN file', NEW n \in DOMAIN file', m < n
          PROVE  spans'[file'[m]].end_s < spans'[file'[n]].end_s
      <3>1. m \in DOMAIN file
        BY <1>5, <2>6
      <3>2. CASE n \in DOMAIN file
        BY <1>4, <1>5, <2>5, <2>6, <3>1, <3>2 DEF FileInv
      <3>3. CASE n \notin DOMAIN file
        <4>1. n = Len(file) + 1
          BY <1>5, <3>3
        <4>2. spans[file[m]].end_s < now
          BY <2>5, <3>1 DEF FileInv
        <4>3. spans'[file'[m]] = spans[file[m]] /\ spans'[file'[n]] = new
          BY <1>4, <1>5, <2>5, <3>1, <4>1
        <4> QED
          BY <1>3, <4>2, <4>3
      <3> QED
        BY <3>2, <3>3
    <2> QED
      BY <2>1, <2>2, <2>4, <2>6 DEF FileInv
  <1>9. /\ DOMAIN _current_parent' = DOMAIN _current_parent \cup {t}
        /\ _current_parent'[t] = spans[id].parent
        /\ \A u \in DOMAIN _current_parent : u # t => _current_parent'[u] = _current_parent[u]
    BY <1>1
  <1> QED
    BY <1>2, <1>3, <1>4, <1>6, <1>8, <1>9

(* The trace of b when another agent moves. *)
Untraced(b) ==
  /\ \A s \in Ids : s[1] = b => (s \in DOMAIN spans' <=> s \in DOMAIN spans)
  /\ \A s \in DOMAIN spans : s[1] = b => spans'[s] = spans[s]
  /\ \A k \in Nat : <<b, k>> \in DOMAIN _current_parent =>
       /\ <<b, k>> \in DOMAIN _current_parent'
       /\ _current_parent'[<<b, k>>] = _current_parent[<<b, k>>]

LEMMA OthersTree ==
  ASSUME AgentType, TraceType, TraceType', NEW b \in Agents, UNCHANGED parallel,
         Untouched(b), Untraced(b), TreeInv(b)
  PROVE  TreeInv(b)'
  <1>1. /\ TaskSpan(b) \in Ids /\ TaskSpan(b)[1] = b /\ TaskSpan(b)' = TaskSpan(b)
        /\ ChatSpan(b) \in Ids /\ ChatSpan(b)[1] = b /\ ChatSpan(b)' = ChatSpan(b)
    BY DEF AgentType, Ids, TaskSpan, ChatSpan, Untouched
  <1>2. DOMAIN calls[b] \subseteq Nat
    BY Elements DEF AgentType
  <1>3. \A k \in DOMAIN calls[b] : /\ ToolSpan(b, k) \in Ids /\ ToolSpan(b, k)[1] = b
                                   /\ ToolSpan(b, k)' = ToolSpan(b, k)
    BY <1>2 DEF AgentType, Ids, ToolSpan, Untouched
  <1>4. DOMAIN spans \subseteq Ids /\ DOMAIN spans' \subseteq Ids
    BY DEF TraceType
  <1>5. \A s \in Ids : s[1] = b => (Open(s)' <=> Open(s))
    BY <1>4 DEF Open, Untraced
  <1>6. \A s \in Ids : s[1] = b /\ s \in DOMAIN spans' =>
          s \in DOMAIN spans /\ spans'[s] = spans[s]
    BY DEF Untraced
  <1>7. ASSUME NEW s \in DOMAIN spans', s[1] = b
        PROVE  SpanInv(b, s)'
    <2>1. s \in Ids /\ s \in DOMAIN spans /\ spans'[s] = spans[s] /\ (Open(s)' <=> Open(s))
      BY <1>4, <1>5, <1>6, <1>7
    <2>2. SpanInv(b, s)
      BY <1>7, <2>1 DEF TreeInv
    <2>3. TaskSpan(b) \in DOMAIN spans => /\ TaskSpan(b) \in DOMAIN spans'
                                          /\ spans'[TaskSpan(b)] = spans[TaskSpan(b)]
      BY <1>1 DEF Untraced
    <2> QED
      BY <1>1, <1>3, <2>1, <2>2, <2>3 DEF SpanInv, Untouched
  <1>8. OpenInv(b)'
    BY <1>1, <1>3, <1>5, <1>6 DEF OpenInv, TreeInv, Untouched, Untraced
  <1>9. Main(b) \in DOMAIN _current_parent /\ Main(b) = <<b, 0>> /\ 0 \in Nat
    BY DEF TraceType, Main
  <1>10. _current_parent'[Main(b)] = _current_parent[Main(b)]
    BY <1>9 DEF Untraced
  <1>11. ContextInv(b)'
    BY <1>1, <1>2, <1>10 DEF ContextInv, TreeInv, Untouched, Untraced
  <1> QED
    BY <1>7, <1>8, <1>11 DEF TreeInv

LEMMA TraceStep ==
  ASSUME AgentInv, TraceInv, NEW a \in Agents, UNCHANGED parallel, TraceType', FileInv',
         \A b \in Agents : b # a => Untouched(b) /\ Untraced(b),
         TreeInv(a)'
  PROVE  TraceInv'
  BY OthersTree DEF AgentInv, TraceInv

LEMMA SpanIds ==
  ASSUME AgentType, NEW a \in Agents
  PROVE  /\ TaskSpan(a) \in Ids /\ TaskSpan(a)[1] = a
         /\ ~ChatId(TaskSpan(a)) /\ ~Tool(TaskSpan(a))
         /\ ChatSpan(a) \in Ids /\ ChatSpan(a)[1] = a /\ ChatSpan(a)[3] = round[a]
         /\ ChatId(ChatSpan(a)) /\ ~Tool(ChatSpan(a))
         /\ \A k \in DOMAIN calls[a] :
              /\ k \in Nat /\ k >= 1
              /\ ToolSpan(a, k) \in Ids /\ ToolSpan(a, k)[1] = a
              /\ ToolSpan(a, k)[3] = round[a] /\ ToolSpan(a, k)[4] = k
              /\ Tool(ToolSpan(a, k)) /\ ~ChatId(ToolSpan(a, k))
  <1>1. round[a] \in Nat /\ \A k \in DOMAIN calls[a] : k \in Nat /\ k >= 1
    BY Elements DEF AgentType
  <1> QED
    BY <1>1 DEF TaskSpan, ChatSpan, ToolSpan, Ids, ChatId, Tool

LEMMA EnterTree ==
  ASSUME AgentInv, TraceInv, NEW a \in Agents, NEW k \in Nat, NEW id \in Ids,
         <<a, k>> \in DOMAIN _current_parent, id[1] = a, id \notin DOMAIN spans,
         enter(<<a, k>>, id), UNCHANGED parallel,
         \A b \in Agents : b # a => Untouched(b), TreeInv(a)'
  PROVE  TraceInv'
  <1>1. /\ TraceType' /\ FileInv' /\ DOMAIN spans' = DOMAIN spans \cup {id}
        /\ \A s \in DOMAIN spans : spans'[s] = spans[s]
        /\ DOMAIN _current_parent' = DOMAIN _current_parent
        /\ \A u \in DOMAIN _current_parent :
             u # <<a, k>> => _current_parent'[u] = _current_parent[u]
    BY Entering DEF TraceInv
  <1>2. \A b \in Agents : b # a => Untraced(b)
    BY <1>1 DEF Untraced
  <1> QED
    BY <1>1, <1>2, TraceStep

LEMMA LeaveTree ==
  ASSUME AgentInv, TraceInv, NEW a \in Agents, NEW k \in Nat, NEW id,
         id[1] = a, Open(id), exit(<<a, k>>, id), UNCHANGED parallel,
         \A b \in Agents : b # a => Untouched(b), TreeInv(a)'
  PROVE  TraceInv'
  <1>1. /\ TraceType' /\ FileInv' /\ DOMAIN spans' = DOMAIN spans
        /\ \A s \in DOMAIN spans : s # id => spans'[s] = spans[s]
        /\ DOMAIN _current_parent' = DOMAIN _current_parent \cup {<<a, k>>}
        /\ \A u \in DOMAIN _current_parent :
             u # <<a, k>> => _current_parent'[u] = _current_parent[u]
    <2> PICK t : t = <<a, k>>
      OBVIOUS
    <2>1. exit(t, id) /\ id \in DOMAIN spans /\ t \in Agents \X Nat /\ TraceType /\ FileInv
      BY DEF TraceInv, Open
    <2>2. /\ TraceType' /\ FileInv' /\ DOMAIN spans' = DOMAIN spans
          /\ \A s \in DOMAIN spans : s # id => spans'[s] = spans[s]
          /\ DOMAIN _current_parent' = DOMAIN _current_parent \cup {t}
          /\ \A u \in DOMAIN _current_parent :
               u # t => _current_parent'[u] = _current_parent[u]
      BY <2>1, Leaving
    <2> QED
      BY <2>2
  <1>2. \A b \in Agents : b # a => Untraced(b)
    BY <1>1 DEF Untraced
  <1> QED
    BY <1>1, <1>2, TraceStep

(* A step that leaves the tracer alone. *)
LEMMA QuietTree ==
  ASSUME AgentInv, TraceInv, NEW a \in Agents, UNCHANGED tracer, UNCHANGED parallel,
         \A b \in Agents : b # a => Untouched(b), TreeInv(a)'
  PROVE  TraceInv'
  <1>1. UNCHANGED <<_current_parent, spans, file, now>>
    BY DEF tracer
  <1>2. TraceType' /\ FileInv'
    BY <1>1 DEF TraceInv, TraceType, FileInv
  <1>3. \A b \in Agents : Untraced(b)
    BY <1>1 DEF Untraced
  <1> QED
    BY <1>2, <1>3, TraceStep

LEMMA AgentMoves ==
  ASSUME AgentType, NEW a \in Agents, run_agent(a)
  PROVE  UNCHANGED <<script, parallel>> /\ \A b \in Agents : b # a => Untouched(b)
  <1>1. CASE Start(a)
    BY <1>1 DEF Start, At, Say, Untouched, AgentType
  <1>2. CASE Chat(a)
    BY <1>2 DEF Chat, At, Untouched, AgentType
  <1>3. CASE StepsExhausted(a)
    BY <1>3 DEF StepsExhausted, At, Untouched, AgentType
  <1>4. CASE Response(a)
    BY <1>4 DEF Response, Say, Untouched, AgentType
  <1>5. ASSUME NEW k \in DOMAIN calls[a], FinalAnswer(a, k)
        PROVE  UNCHANGED <<script, parallel>> /\ \A b \in Agents : b # a => Untouched(b)
    BY <1>5 DEF FinalAnswer, At, Untouched, AgentType
  <1>6. ASSUME NEW k \in DOMAIN calls[a], ToolBegins(a, k)
        PROVE  UNCHANGED <<script, parallel>> /\ \A b \in Agents : b # a => Untouched(b)
    BY <1>6 DEF ToolBegins, Untouched, AgentType
  <1>7. ASSUME NEW k \in DOMAIN calls[a], ToolEnds(a, k)
        PROVE  UNCHANGED <<script, parallel>> /\ \A b \in Agents : b # a => Untouched(b)
    BY <1>7 DEF ToolEnds, Say, Untouched, AgentType
  <1>8. CASE Gather(a)
    BY <1>8 DEF Gather, At, Untouched, AgentType
  <1>9. CASE NextTurn(a)
    BY <1>9 DEF NextTurn, At, Say, Untouched, AgentType
  <1>10. CASE Raise(a)
    BY <1>10 DEF Raise, At, Untouched, AgentType
  <1>11. CASE Return(a)
    BY <1>11 DEF Return, Untouched, AgentType
  <1> QED
    BY <1>1, <1>2, <1>3, <1>4, <1>5, <1>6, <1>7, <1>8, <1>9, <1>10, <1>11 DEF run_agent

------------------------------------------------------------------------------
(* The steps of run_agent, and the trace. *)

LEMMA StartTree ==
  ASSUME AgentInv, TraceInv, NEW a \in Agents, Start(a)
  PROVE  TraceInv'
  <1> PICK id : id = TaskSpan(a)
    OBVIOUS
  <1>1. /\ pc[a] = "start" /\ pc'[a] = "loop" /\ enter(<<a, 0>>, id)
        /\ UNCHANGED <<parallel, round, calls>>
    BY DEF Start, At, Main, AgentInv, AgentType
  <1>2. AgentType /\ CallsInv(a) /\ TraceType /\ FileInv /\ TreeInv(a)
    BY DEF AgentInv, TraceInv
  <1>3. \A k \in DOMAIN calls[a] : calls[a][k] # "running"
    BY <1>1, <1>2 DEF CallsInv
  <1>4. \A s \in DOMAIN spans : s[1] # a
    BY <1>1, <1>2 DEF TreeInv, SpanInv
  <1>5. <<a, 0>> \in DOMAIN _current_parent /\ _current_parent[<<a, 0>>] = NoSpan
    BY <1>1, <1>2 DEF TraceType, Main, TreeInv, ContextInv
  <1>6. id \in Ids /\ id[1] = a /\ ~ChatId(id) /\ ~Tool(id) /\ id \notin DOMAIN spans
    BY <1>2, <1>4, SpanIds
  <1>7. /\ DOMAIN spans' = DOMAIN spans \cup {id}
        /\ spans'[id] = [parent |-> NoSpan, start_s |-> now, end_s |-> 0]
        /\ _current_parent'[<<a, 0>>] = id
    BY <1>1, <1>2, <1>5, <1>6, Entering
  <1>8. \A s \in DOMAIN spans' : s[1] = a => SpanInv(a, s)'
    BY <1>1, <1>4, <1>6, <1>7 DEF SpanInv
  <1>9. OpenInv(a)'
    BY <1>1, <1>3, <1>7 DEF OpenInv, Open
  <1>10. ContextInv(a)'
    BY <1>1, <1>7 DEF ContextInv, Main
  <1>11. \A b \in Agents : b # a => Untouched(b)
    BY <1>2, AgentMoves DEF run_agent
  <1> QED
    BY <1>1, <1>5, <1>6, <1>8, <1>9, <1>10, <1>11, EnterTree DEF TreeInv

LEMMA ChatTree ==
  ASSUME AgentInv, TraceInv, NEW a \in Agents, Chat(a)
  PROVE  TraceInv'
  <1> PICK id : id = ChatSpan(a)
    OBVIOUS
  <1> PICK whole : whole = TaskSpan(a)
    OBVIOUS
  <1>1. /\ pc[a] = "loop" /\ pc'[a] = "chat" /\ enter(<<a, 0>>, id)
        /\ UNCHANGED <<parallel, round, calls>>
    BY DEF Chat, At, Main, AgentInv, AgentType
  <1>2. AgentType /\ CallsInv(a) /\ TraceType /\ FileInv /\ TreeInv(a)
    BY DEF AgentInv, TraceInv
  <1>3. \A k \in DOMAIN calls[a] : calls[a][k] # "running"
    BY <1>1, <1>2 DEF CallsInv
  <1>4. <<a, 0>> \in DOMAIN _current_parent /\ _current_parent[<<a, 0>>] = whole
    BY <1>1, <1>2 DEF TraceType, Main, TreeInv, ContextInv
  <1>5. /\ id \in Ids /\ id[1] = a /\ ChatId(id) /\ ~Tool(id) /\ id[3] = round[a]
        /\ ~ChatId(whole) /\ round[a] \in Nat
    BY <1>2, SpanIds DEF AgentType
  <1>6. id \notin DOMAIN spans
    BY <1>1, <1>2, <1>5 DEF TreeInv, SpanInv
  <1>7. /\ DOMAIN spans' = DOMAIN spans \cup {id}
        /\ spans'[id] = [parent |-> whole, start_s |-> now, end_s |-> 0]
        /\ \A s \in DOMAIN spans : spans'[s] = spans[s]
        /\ _current_parent'[<<a, 0>>] = id
    BY <1>1, <1>2, <1>4, <1>5, <1>6, Entering
  <1>8. whole \in DOMAIN spans /\ spans[whole].end_s = 0 /\ spans[whole].start_s < now
    BY <1>1, <1>2 DEF TreeInv, OpenInv, Open, FileInv
  <1>9. SpanInv(a, id)'
    BY <1>1, <1>5, <1>7, <1>8 DEF SpanInv, ChatSpan
  <1>10. ASSUME NEW s \in DOMAIN spans, s[1] = a PROVE SpanInv(a, s)'
    <2>1. SpanInv(a, s) /\ spans'[s] = spans[s]
      BY <1>2, <1>7, <1>10 DEF TreeInv
    <2>2. Open(s)' => s = whole
      BY <1>1, <1>3, <1>7, <2>1 DEF SpanInv, Open
    <2> QED
      BY <1>1, <1>7, <1>8, <2>1, <2>2 DEF SpanInv
  <1>11. OpenInv(a)'
    BY <1>1, <1>3, <1>7, <1>8 DEF OpenInv, Open, ChatSpan
  <1>12. ContextInv(a)'
    BY <1>1 DEF ContextInv
  <1>13. \A b \in Agents : b # a => Untouched(b)
    BY <1>2, AgentMoves DEF run_agent
  <1>14. TreeInv(a)'
    BY <1>7, <1>9, <1>10, <1>11, <1>12 DEF TreeInv
  <1> QED
    BY <1>1, <1>4, <1>5, <1>6, <1>13, <1>14, EnterTree

LEMMA ResponseTree ==
  ASSUME AgentInv, TraceInv, NEW a \in Agents, Response(a)
  PROVE  TraceInv'
  <1> PICK id : id = ChatSpan(a)
    OBVIOUS
  <1> PICK whole : whole = TaskSpan(a)
    OBVIOUS
  <1>1. /\ pc[a] = "chat" /\ exit(<<a, 0>>, id)
        /\ UNCHANGED <<parallel, round>>
    BY DEF Response, Main
  <1>2. AgentType /\ CallsInv(a) /\ TraceType /\ FileInv /\ TreeInv(a)
    BY DEF AgentInv, TraceInv
  <1>3. /\ pc'[a] \in {"return", "calls"}
        /\ \A k \in DOMAIN calls'[a] : calls'[a][k] # "running"
    <2>1. \A k \in DOMAIN calls[a] : calls[a][k] # "running"
      BY <1>1, <1>2 DEF CallsInv
    <2> QED
      BY <1>2, <2>1 DEF Response, AgentType
  <1>4. /\ id[1] = a /\ ChatId(id) /\ ~ChatId(whole) /\ round[a] \in Nat
    BY <1>2, SpanIds DEF AgentType
  <1>5. id \in DOMAIN spans /\ spans[id].end_s = 0 /\ spans[id].parent = whole
    BY <1>1, <1>2, <1>4 DEF TreeInv, OpenInv, Open, SpanInv
  <1>6. /\ DOMAIN spans' = DOMAIN spans
        /\ spans'[id].parent = spans[id].parent /\ spans'[id].start_s = spans[id].start_s
        /\ spans'[id].end_s = now /\ now > 0
        /\ \A s \in DOMAIN spans : s # id => spans'[s] = spans[s]
        /\ _current_parent'[<<a, 0>>] = whole
    <2>1. Open(id) /\ <<a, 0>> \in Agents \X Nat
      BY <1>5 DEF Open
    <2> QED
      BY <1>1, <1>2, <1>5, <2>1, Leaving
  <1>7. whole \in DOMAIN spans /\ spans[whole].end_s = 0 /\ whole # id
    BY <1>1, <1>2, <1>4 DEF TreeInv, OpenInv, Open
  <1>8. ASSUME NEW s \in DOMAIN spans, s[1] = a PROVE SpanInv(a, s)'
    <2>1. SpanInv(a, s) /\ spans'[s].parent = spans[s].parent
          /\ spans'[s].start_s = spans[s].start_s
      BY <1>2, <1>6, <1>8 DEF TreeInv
    <2>2. Open(s)' => s = whole
      <3> SUFFICES ASSUME Open(s)' PROVE s = whole
        OBVIOUS
      <3>1. s # id
        BY <1>6 DEF Open
      <3>2. Open(s)
        BY <1>6, <3>1 DEF Open
      <3>3. \A k \in DOMAIN calls[a] : calls[a][k] # "running"
        BY <1>1, <1>2 DEF CallsInv
      <3> QED
        BY <2>1, <3>1, <3>2, <3>3 DEF SpanInv
    <2>3. Tool(s) => s[3] < round[a]
      BY <1>1, <2>1 DEF SpanInv
    <2> QED
      BY <1>1, <1>3, <1>6, <1>7, <2>1, <2>2, <2>3 DEF SpanInv
  <1>9. OpenInv(a)'
    BY <1>3, <1>6, <1>7 DEF OpenInv, Open
  <1>10. ContextInv(a)'
    BY <1>3, <1>6 DEF ContextInv, Main
  <1>11. \A b \in Agents : b # a => Untouched(b)
    BY <1>2, AgentMoves DEF run_agent
  <1>12. TreeInv(a)'
    BY <1>6, <1>8, <1>9, <1>10 DEF TreeInv
  <1>13. Open(id)
    BY <1>5 DEF Open
  <1> QED
    BY <1>1, <1>4, <1>11, <1>12, <1>13, LeaveTree

LEMMA ToolBeginsTree ==
  ASSUME AgentInv, TraceInv, NEW a \in Agents, NEW k \in DOMAIN calls[a], ToolBegins(a, k)
  PROVE  TraceInv'
  <1> PICK id : id = ToolSpan(a, k)
    OBVIOUS
  <1> PICK whole : whole = TaskSpan(a)
    OBVIOUS
  <1> PICK i : i = IF parallel THEN k ELSE 0
    OBVIOUS
  <1>1. /\ calls[a][k] = "ready"
        /\ IF parallel THEN pc[a] = "gather" ELSE pc[a] = "calls" /\ answered(a, k - 1)
        /\ enter(<<a, i>>, id)
        /\ calls' = [calls EXCEPT ![a][k] = "running"]
        /\ UNCHANGED <<parallel, pc, round>>
    BY DEF ToolBegins, TaskOf, Main
  <1>2. AgentType /\ CallsInv(a) /\ TraceType /\ FileInv /\ TreeInv(a)
    BY DEF AgentInv, TraceInv
  <1>3. /\ DOMAIN calls'[a] = DOMAIN calls[a] /\ calls'[a][k] = "running"
        /\ \A j \in DOMAIN calls[a] : j # k => calls'[a][j] = calls[a][j]
    <2>1. "running" \in States
      BY DEF States
    <2> QED
      BY <1>1, <1>2, <2>1, Calling
  <1>4. /\ id \in Ids /\ id[1] = a /\ Tool(id) /\ ~ChatId(id)
        /\ id[3] = round[a] /\ id[4] = k /\ ~Tool(whole)
        /\ round[a] \in Nat /\ k \in Nat /\ k >= 1 /\ i \in Nat
    BY <1>2, SpanIds DEF AgentType
  <1>5. \A j \in DOMAIN calls[a] : j \in Nat /\ j >= 1
    BY <1>2, SpanIds
  <1>6. ~parallel => \A j \in DOMAIN calls[a] : calls[a][j] # "running"
    <2> SUFFICES ASSUME ~parallel, NEW j \in DOMAIN calls[a], calls[a][j] = "running"
                 PROVE  FALSE
      OBVIOUS
    <2>1. \A m \in 1 .. j - 1 : calls[a][m] = "ok"
      BY <1>2 DEF CallsInv, answered
    <2>2. \A m \in 1 .. k - 1 : calls[a][m] = "ok"
      BY <1>1 DEF answered
    <2> QED
      BY <1>1, <1>4, <1>5, <2>1, <2>2
  <1>7. <<a, i>> \in DOMAIN _current_parent /\ _current_parent[<<a, i>>] = whole
    <2>1. CASE parallel
      BY <1>1, <1>2, <2>1 DEF TreeInv, ContextInv
    <2>2. CASE ~parallel
      BY <1>1, <1>2, <1>6, <2>2 DEF TraceType, TreeInv, ContextInv, Main
    <2> QED
      BY <2>1, <2>2
  <1>8. id \notin DOMAIN spans
    BY <1>1, <1>2, <1>4 DEF TreeInv, SpanInv
  <1>9. /\ DOMAIN spans' = DOMAIN spans \cup {id}
        /\ spans'[id] = [parent |-> whole, start_s |-> now, end_s |-> 0]
        /\ \A s \in DOMAIN spans : spans'[s] = spans[s]
        /\ DOMAIN _current_parent' = DOMAIN _current_parent
        /\ \A u \in DOMAIN _current_parent :
             u # <<a, i>> => _current_parent'[u] = _current_parent[u]
    <2> PICK t : t = <<a, i>>
      OBVIOUS
    <2>1. t \in DOMAIN _current_parent /\ enter(t, id) /\ _current_parent[t] = whole
      BY <1>1, <1>7
    <2>2. /\ DOMAIN spans' = DOMAIN spans \cup {id}
          /\ spans'[id] = [parent |-> _current_parent[t], start_s |-> now, end_s |-> 0]
          /\ \A s \in DOMAIN spans : spans'[s] = spans[s]
          /\ DOMAIN _current_parent' = DOMAIN _current_parent
          /\ \A u \in DOMAIN _current_parent :
               u # t => _current_parent'[u] = _current_parent[u]
      BY <1>2, <1>4, <1>8, <2>1, Entering
    <2> QED
      BY <2>1, <2>2
  <1>10. whole \in DOMAIN spans /\ spans[whole].end_s = 0 /\ spans[whole].start_s < now
    BY <1>1, <1>2 DEF TreeInv, OpenInv, Open, FileInv
  <1>11. \A j \in DOMAIN calls[a] : ToolSpan(a, j)' = ToolSpan(a, j)
    BY <1>1 DEF ToolSpan
  <1>12. pc[a] \in {"calls", "gather"}
    BY <1>1
  <1>13. SpanInv(a, id)'
    BY <1>1, <1>3, <1>4, <1>9, <1>10, <1>11, <1>12 DEF SpanInv
  <1>14. ASSUME NEW s \in DOMAIN spans, s[1] = a PROVE SpanInv(a, s)'
    <2>1. SpanInv(a, s) /\ spans'[s] = spans[s]
      BY <1>2, <1>9, <1>14 DEF TreeInv
    <2>2. Open(s)' => Open(s)
      BY <1>9, <2>1 DEF Open
    <2>3. Tool(s) => \/ s[3] < round[a]
                     \/ /\ s[3] = round[a] /\ s[4] \in DOMAIN calls'[a]
                        /\ calls'[a][s[4]] # "ready"
      BY <1>1, <1>3, <2>1 DEF SpanInv
    <2>4. Open(s) => \/ s = whole
                     \/ \E j \in DOMAIN calls'[a] : /\ s = ToolSpan(a, j)'
                                                    /\ calls'[a][j] = "running"
      BY <1>1, <1>3, <1>11, <1>12, <2>1 DEF SpanInv
    <2> QED
      BY <1>1, <1>9, <1>10, <1>12, <2>1, <2>2, <2>3, <2>4 DEF SpanInv
  <1>15. OpenInv(a)'
    <2>1. ASSUME NEW j \in DOMAIN calls[a], calls'[a][j] = "running"
          PROVE  ToolSpan(a, j) \in DOMAIN spans' /\ spans'[ToolSpan(a, j)].end_s = 0
      BY <1>2, <1>3, <1>9, <2>1 DEF TreeInv, OpenInv, Open
    <2> QED
      BY <1>1, <1>3, <1>9, <1>10, <1>11, <1>12, <2>1 DEF OpenInv, Open
  <1>16. ContextInv(a)'
    <2>1. ~parallel => \E j \in DOMAIN calls'[a] : calls'[a][j] = "running"
      BY <1>3
    <2>2. parallel => _current_parent'[Main(a)] = _current_parent[Main(a)]
      <3>1. Main(a) \in DOMAIN _current_parent
        BY <1>2 DEF TraceType
      <3>2. parallel => Main(a) # <<a, i>>
        BY <1>4 DEF Main
      <3> QED
        BY <1>9, <3>1, <3>2
    <2>3. ASSUME parallel, NEW j \in DOMAIN calls[a], calls'[a][j] = "ready"
          PROVE  <<a, j>> \in DOMAIN _current_parent' /\ _current_parent'[<<a, j>>] = whole
      <3>1. j # k /\ calls[a][j] = "ready" /\ <<a, j>> # <<a, i>>
        BY <1>3, <2>3
      <3>2. <<a, j>> \in DOMAIN _current_parent /\ _current_parent[<<a, j>>] = whole
        BY <1>1, <1>2, <2>3, <3>1 DEF TreeInv, ContextInv
      <3> QED
        BY <1>9, <3>1, <3>2
    <2>4. parallel => _current_parent[Main(a)] = whole
      BY <1>1, <1>2 DEF TreeInv, ContextInv
    <2> QED
      BY <1>1, <1>3, <2>1, <2>2, <2>3, <2>4 DEF ContextInv
  <1>17. \A b \in Agents : b # a => Untouched(b)
    BY <1>2, AgentMoves DEF run_agent
  <1>18. TreeInv(a)'
    BY <1>9, <1>13, <1>14, <1>15, <1>16 DEF TreeInv
  <1> QED
    BY <1>1, <1>4, <1>7, <1>8, <1>17, <1>18, EnterTree

LEMMA ToolEndsTree ==
  ASSUME AgentInv, TraceInv, NEW a \in Agents, NEW k \in DOMAIN calls[a], ToolEnds(a, k)
  PROVE  TraceInv'
  <1> DEFINE end == IF said(a)[k] = "ok" THEN "ok" ELSE "raised"
  <1> PICK id : id = ToolSpan(a, k)
    OBVIOUS
  <1> PICK whole : whole = TaskSpan(a)
    OBVIOUS
  <1> PICK i : i = IF parallel THEN k ELSE 0
    OBVIOUS
  <1>1. /\ calls[a][k] = "running" /\ exit(<<a, i>>, id)
        /\ calls' = [calls EXCEPT ![a][k] = end]
        /\ UNCHANGED <<parallel, pc, round>>
    BY DEF ToolEnds, TaskOf, Main
  <1>2. AgentType /\ CallsInv(a) /\ TraceType /\ FileInv /\ TreeInv(a)
    BY DEF AgentInv, TraceInv
  <1>3. /\ DOMAIN calls'[a] = DOMAIN calls[a] /\ calls'[a][k] \in {"ok", "raised"}
        /\ \A j \in DOMAIN calls[a] : j # k => calls'[a][j] = calls[a][j]
    <2>1. end \in States
      BY DEF States
    <2> QED
      BY <1>1, <1>2, <2>1, Calling
  <1>4. /\ id \in Ids /\ id[1] = a /\ Tool(id) /\ ~ChatId(id)
        /\ id[3] = round[a] /\ id[4] = k /\ ~Tool(whole)
        /\ round[a] \in Nat /\ k \in Nat /\ k >= 1 /\ i \in Nat
    BY <1>2, SpanIds DEF AgentType
  <1>5. /\ pc[a] \in {"calls", "gather", "raised", "failed"}
        /\ ~parallel => pc[a] = "calls"
        /\ pc[a] = "calls" => ~parallel
    BY <1>1, <1>2 DEF CallsInv, AgentType, Places
  <1>6. /\ id \in DOMAIN spans /\ spans[id].end_s = 0 /\ spans[id].parent = whole
        /\ whole # id
    BY <1>1, <1>2, <1>4 DEF TreeInv, OpenInv, Open, SpanInv
  <1>7. /\ DOMAIN spans' = DOMAIN spans
        /\ spans'[id].parent = spans[id].parent /\ spans'[id].start_s = spans[id].start_s
        /\ spans'[id].end_s = now /\ now > 0
        /\ \A s \in DOMAIN spans : s # id => spans'[s] = spans[s]
        /\ DOMAIN _current_parent' = DOMAIN _current_parent \cup {<<a, i>>}
        /\ _current_parent'[<<a, i>>] = whole
        /\ \A u \in DOMAIN _current_parent :
             u # <<a, i>> => _current_parent'[u] = _current_parent[u]
    <2> PICK t : t = <<a, i>>
      OBVIOUS
    <2>1. t \in Agents \X Nat /\ exit(t, id) /\ Open(id)
      BY <1>1, <1>4, <1>6 DEF Open
    <2>2. /\ DOMAIN spans' = DOMAIN spans
          /\ spans'[id].parent = spans[id].parent /\ spans'[id].start_s = spans[id].start_s
          /\ spans'[id].end_s = now /\ now > 0
          /\ \A s \in DOMAIN spans : s # id => spans'[s] = spans[s]
          /\ DOMAIN _current_parent' = DOMAIN _current_parent \cup {t}
          /\ _current_parent'[t] = spans[id].parent
          /\ \A u \in DOMAIN _current_parent :
               u # t => _current_parent'[u] = _current_parent[u]
      BY <1>2, <1>6, <2>1, Leaving
    <2> QED
      BY <1>6, <2>2
  <1>8. \A j \in DOMAIN calls[a] : ToolSpan(a, j)' = ToolSpan(a, j)
    BY <1>1 DEF ToolSpan
  <1>9. ASSUME NEW s \in DOMAIN spans, s[1] = a PROVE SpanInv(a, s)'
    <2>1. /\ SpanInv(a, s) /\ spans'[s].parent = spans[s].parent
          /\ spans'[s].start_s = spans[s].start_s
      BY <1>2, <1>7, <1>9 DEF TreeInv
    <2>2. Open(s)' => Open(s) /\ s # id
      BY <1>7 DEF Open
    <2>3. Tool(s) => \/ s[3] < round[a]
                     \/ /\ s[3] = round[a] /\ s[4] \in DOMAIN calls'[a]
                        /\ calls'[a][s[4]] # "ready"
      BY <1>1, <1>3, <2>1 DEF SpanInv
    <2>4. Open(s)' => \/ s = whole /\ pc[a] \notin {"done", "failed"}
                      \/ \E j \in DOMAIN calls'[a] : /\ s = ToolSpan(a, j)'
                                                     /\ calls'[a][j] = "running"
      BY <1>3, <1>5, <1>8, <2>1, <2>2 DEF SpanInv
    <2>5. whole \in DOMAIN spans => /\ spans'[whole] = spans[whole]
                                    /\ whole \in DOMAIN spans'
      BY <1>6, <1>7
    <2> QED
      BY <1>1, <1>5, <1>7, <2>1, <2>3, <2>4, <2>5 DEF SpanInv
  <1>10. OpenInv(a)'
    <2>1. ASSUME NEW j \in DOMAIN calls[a], calls'[a][j] = "running"
          PROVE  ToolSpan(a, j) \in DOMAIN spans' /\ spans'[ToolSpan(a, j)].end_s = 0
      <3>1. j # k /\ calls[a][j] = "running"
        BY <1>3, <2>1
      <3>2. ToolSpan(a, j) # id
        BY <1>2, <1>4, <3>1, SpanIds
      <3> QED
        BY <1>2, <1>7, <3>1, <3>2 DEF TreeInv, OpenInv, Open
    <2>2. spans'[whole] = spans[whole] \/ whole \notin DOMAIN spans
      BY <1>6, <1>7
    <2> QED
      BY <1>1, <1>2, <1>3, <1>5, <1>7, <1>8, <2>1, <2>2 DEF OpenInv, Open, TreeInv
  <1>11. ContextInv(a)'
    <2>1. pc[a] \in {"calls", "gather"} => _current_parent'[Main(a)] = whole
      <3>1. CASE parallel
        <4>1. Main(a) \in DOMAIN _current_parent /\ Main(a) # <<a, i>>
          BY <1>2, <1>4, <3>1 DEF TraceType, Main
        <4>2. pc[a] \in {"calls", "gather"} => _current_parent[Main(a)] = whole
          BY <1>2, <3>1 DEF TreeInv, ContextInv
        <4> QED
          BY <1>7, <4>1, <4>2
      <3>2. CASE ~parallel
        BY <1>7, <3>2 DEF Main
      <3> QED
        BY <3>1, <3>2
    <2>2. ASSUME pc[a] = "gather", NEW j \in DOMAIN calls[a], calls'[a][j] = "ready"
          PROVE  <<a, j>> \in DOMAIN _current_parent' /\ _current_parent'[<<a, j>>] = whole
      <3>1. j # k /\ calls[a][j] = "ready"
        BY <1>3, <2>2
      <3>2. <<a, j>> \in DOMAIN _current_parent /\ _current_parent[<<a, j>>] = whole
        BY <1>2, <2>2, <3>1 DEF TreeInv, ContextInv
      <3> QED
        BY <1>7, <3>2
    <2> QED
      BY <1>1, <1>3, <1>5, <2>1, <2>2 DEF ContextInv
  <1>12. \A b \in Agents : b # a => Untouched(b)
    BY <1>2, AgentMoves DEF run_agent
  <1>13. TreeInv(a)'
    BY <1>7, <1>9, <1>10, <1>11 DEF TreeInv
  <1>14. Open(id)
    BY <1>6 DEF Open
  <1> QED
    BY <1>1, <1>4, <1>12, <1>13, <1>14, LeaveTree

(* StepsExhausted, FinalAnswer and Raise leave the loop, and the tracer alone. *)
LEMMA LeavesTheLoop ==
  ASSUME AgentInv, TraceInv, NEW a \in Agents, run_agent(a), UNCHANGED tracer,
         pc[a] \in {"loop", "calls", "gather"}, pc'[a] \in {"return", "raised"},
         UNCHANGED <<round, calls>>
  PROVE  TraceInv'
  <1>1. AgentType /\ TreeInv(a) /\ UNCHANGED <<_current_parent, spans, file, now>>
    BY DEF AgentInv, TraceInv, tracer
  <1>2. UNCHANGED parallel /\ \A b \in Agents : b # a => Untouched(b)
    BY <1>1, AgentMoves
  <1>3. ASSUME NEW s \in DOMAIN spans, s[1] = a PROVE SpanInv(a, s)'
    <2>1. SpanInv(a, s)
      BY <1>1, <1>3 DEF TreeInv
    <2>2. Open(s)' = Open(s) /\ \A k \in DOMAIN calls[a] : ToolSpan(a, k)' = ToolSpan(a, k)
      BY <1>1 DEF Open, ToolSpan
    <2> QED
      BY <1>1, <2>1, <2>2 DEF SpanInv
  <1>4. OpenInv(a)'
    <2>1. OpenInv(a) /\ \A k \in DOMAIN calls[a] : ToolSpan(a, k)' = ToolSpan(a, k)
      BY <1>1 DEF ToolSpan, TreeInv
    <2> QED
      BY <1>1, <2>1 DEF OpenInv, Open
  <1>5. ContextInv(a)'
    BY DEF ContextInv
  <1> QED
    BY <1>1, <1>2, <1>3, <1>4, <1>5, QuietTree DEF TreeInv

LEMMA NextTurnTree ==
  ASSUME AgentInv, TraceInv, NEW a \in Agents, NextTurn(a)
  PROVE  TraceInv'
  <1>1. /\ pc[a] = (IF parallel THEN "gather" ELSE "calls") /\ pc'[a] = "loop"
        /\ round'[a] = round[a] + 1 /\ answered(a, Len(calls[a]))
        /\ UNCHANGED <<parallel, calls>> /\ UNCHANGED tracer
    BY DEF NextTurn, At, AgentInv, AgentType
  <1>2. AgentType /\ TreeInv(a) /\ TraceType /\ UNCHANGED <<_current_parent, spans, file, now>>
    BY <1>1 DEF AgentInv, TraceInv, tracer
  <1>3. \A k \in DOMAIN calls[a] : calls[a][k] # "running"
    BY <1>1, <1>2, Elements DEF AgentType, answered
  <1>4. \A s \in DOMAIN spans : s[3] \in Nat
    BY <1>2 DEF TraceType, Ids
  <1>5. round[a] \in Nat
    BY <1>2 DEF AgentType
  <1>6. ASSUME NEW s \in DOMAIN spans, s[1] = a PROVE SpanInv(a, s)'
    <2>1. SpanInv(a, s) /\ s[3] \in Nat
      BY <1>2, <1>4, <1>6 DEF TreeInv
    <2>2. Open(s)' => s = TaskSpan(a)
      BY <1>1, <1>2, <1>3, <2>1 DEF Open, SpanInv
    <2>3. ChatId(s) \/ Tool(s) => s[3] < round'[a]
      BY <1>1, <1>5, <2>1 DEF SpanInv
    <2> QED
      BY <1>1, <1>2, <2>1, <2>2, <2>3 DEF SpanInv
  <1>7. OpenInv(a)'
    BY <1>1, <1>2, <1>3 DEF OpenInv, Open, TreeInv
  <1>8. ContextInv(a)'
    BY <1>1, <1>2, <1>3 DEF ContextInv, TreeInv
  <1>9. \A b \in Agents : b # a => Untouched(b)
    BY <1>2, AgentMoves DEF run_agent
  <1> QED
    BY <1>1, <1>2, <1>6, <1>7, <1>8, <1>9, QuietTree DEF TreeInv

LEMMA GatherTree ==
  ASSUME AgentInv, TraceInv, NEW a \in Agents, Gather(a)
  PROVE  TraceInv'
  <1> DEFINE tasks == {<<a, k>> : k \in DOMAIN calls[a]}
             old == _current_parent
  <1>1. /\ parallel /\ pc[a] = "calls" /\ pc'[a] = "gather"
        /\ _current_parent' = [t \in tasks \cup DOMAIN old |->
                                 old[IF t \in tasks THEN Main(a) ELSE t]]
        /\ UNCHANGED <<parallel, round, calls, spans, file, now>>
    BY DEF Gather, At, AgentInv, AgentType
  <1>2. AgentType /\ CallsInv(a) /\ TraceType /\ FileInv /\ TreeInv(a)
    BY DEF AgentInv, TraceInv
  <1>3. Main(a) \in DOMAIN old /\ old[Main(a)] = TaskSpan(a) /\ Main(a) \notin tasks
    <2>1. \A k \in DOMAIN calls[a] : k # 0
      BY <1>2, SpanIds
    <2> QED
      BY <1>1, <1>2, <2>1 DEF TraceType, TreeInv, ContextInv, Main
  <1>4. /\ DOMAIN _current_parent' = tasks \cup DOMAIN old
        /\ \A t \in DOMAIN old : t \notin tasks => _current_parent'[t] = old[t]
        /\ \A t \in tasks : _current_parent'[t] = TaskSpan(a)
    BY <1>1, <1>3
  <1>5. TraceType' /\ FileInv'
    <2>1. TaskSpan(a) \in Ids
      BY <1>2, SpanIds
    <2>2. old \in [DOMAIN old -> Ids \cup {NoSpan}]
      BY <1>2 DEF TraceType
    <2>3. \A t \in DOMAIN _current_parent' : _current_parent'[t] \in Ids \cup {NoSpan}
      BY <1>4, <2>1, <2>2
    <2>4. _current_parent' = [t \in DOMAIN _current_parent' |-> _current_parent'[t]]
      BY <1>1
    <2>5. _current_parent' \in [DOMAIN _current_parent' -> Ids \cup {NoSpan}]
      BY <2>3, <2>4
    <2>6. TraceType'
      BY <1>1, <1>2, <1>4, <2>5 DEF TraceType
    <2>7. FileInv'
      BY <1>1, <1>2 DEF FileInv
    <2> QED
      BY <2>6, <2>7
  <1>6. \A k \in DOMAIN calls[a] : calls[a][k] # "running"
    BY <1>1, <1>2 DEF CallsInv
  <1>7. ASSUME NEW s \in DOMAIN spans, s[1] = a PROVE SpanInv(a, s)'
    <2>1. SpanInv(a, s)
      BY <1>2, <1>7 DEF TreeInv
    <2>2. Open(s)' => s = TaskSpan(a)
      BY <1>1, <1>6, <2>1 DEF Open, SpanInv
    <2> QED
      BY <1>1, <2>1, <2>2 DEF SpanInv
  <1>8. OpenInv(a)'
    BY <1>1, <1>2, <1>6 DEF OpenInv, Open, TreeInv
  <1>9. ContextInv(a)'
    <2>1. _current_parent'[Main(a)] = TaskSpan(a)
      BY <1>3, <1>4
    <2>2. \A k \in DOMAIN calls[a] : /\ <<a, k>> \in DOMAIN _current_parent'
                                     /\ _current_parent'[<<a, k>>] = TaskSpan(a)
      BY <1>4
    <2> QED
      BY <1>1, <2>1, <2>2 DEF ContextInv
  <1>10. \A b \in Agents : b # a => Untouched(b)
    BY <1>2, AgentMoves DEF run_agent
  <1>11. \A b \in Agents : b # a => Untraced(b)
    BY <1>1, <1>4 DEF Untraced
  <1> QED
    BY <1>1, <1>5, <1>7, <1>8, <1>9, <1>10, <1>11, TraceStep DEF TreeInv

LEMMA ReturnTree ==
  ASSUME AgentInv, TraceInv, NEW a \in Agents, Return(a)
  PROVE  TraceInv'
  <1> PICK whole : whole = TaskSpan(a)
    OBVIOUS
  <1>1. /\ pc[a] \in {"return", "raised"} /\ exit(<<a, 0>>, whole)
        /\ pc'[a] = IF pc[a] = "return" THEN "done" ELSE "failed"
        /\ UNCHANGED <<parallel, round, calls>>
    BY DEF Return, Main, AgentInv, AgentType
  <1>2. AgentType /\ CallsInv(a) /\ TraceType /\ FileInv /\ TreeInv(a)
    BY DEF AgentInv, TraceInv
  <1>3. /\ whole[1] = a /\ ~ChatId(whole) /\ ~Tool(whole)
        /\ \A k \in DOMAIN calls[a] : ToolSpan(a, k) # whole /\ ToolSpan(a, k)' = ToolSpan(a, k)
    BY <1>1, <1>2, SpanIds DEF ToolSpan
  <1>4. whole \in DOMAIN spans /\ spans[whole].end_s = 0
    BY <1>1, <1>2 DEF TreeInv, OpenInv, Open
  <1>5. /\ DOMAIN spans' = DOMAIN spans
        /\ spans'[whole].parent = spans[whole].parent
        /\ spans'[whole].start_s = spans[whole].start_s
        /\ spans'[whole].end_s = now /\ now > 0
        /\ \A s \in DOMAIN spans : s # whole => spans'[s] = spans[s]
    <2>1. Open(whole) /\ <<a, 0>> \in Agents \X Nat
      BY <1>4 DEF Open
    <2> QED
      BY <1>1, <1>2, <1>4, <2>1, Leaving
  <1>6. pc[a] = "return" => \A k \in DOMAIN calls[a] : calls[a][k] # "running"
    BY <1>2 DEF CallsInv
  <1>7. \A s \in DOMAIN spans : spans'[s].end_s <= spans'[whole].end_s
    <2>1. \A s \in DOMAIN spans : spans[s].end_s # 0 => spans[s].end_s < now
      BY <1>2 DEF FileInv
    <2>2. now \in Nat /\ \A s \in DOMAIN spans : spans[s].end_s \in Nat
      BY <1>2 DEF TraceType, Record
    <2> QED
      BY <1>4, <1>5, <2>1, <2>2
  <1>8. ASSUME NEW s \in DOMAIN spans, s[1] = a PROVE SpanInv(a, s)'
    <2>1. /\ SpanInv(a, s) /\ spans'[s].parent = spans[s].parent
          /\ spans'[s].start_s = spans[s].start_s
      BY <1>2, <1>5, <1>8 DEF TreeInv
    <2>2. Open(s)' => \E k \in DOMAIN calls[a] : s = ToolSpan(a, k) /\ calls[a][k] = "running"
      <3>1. Open(s)' => Open(s) /\ s # whole
        BY <1>5 DEF Open
      <3> QED
        BY <1>1, <2>1, <3>1 DEF SpanInv
    <2> QED
      BY <1>1, <1>3, <1>4, <1>5, <1>7, <2>1, <2>2 DEF SpanInv
  <1>9. OpenInv(a)'
    BY <1>1, <1>2, <1>3, <1>4, <1>5 DEF OpenInv, Open, TreeInv
  <1>10. ContextInv(a)'
    BY <1>1 DEF ContextInv
  <1>11. \A b \in Agents : b # a => Untouched(b)
    BY <1>2, AgentMoves DEF run_agent
  <1>12. TreeInv(a)' /\ Open(whole)
    BY <1>4, <1>5, <1>8, <1>9, <1>10 DEF TreeInv, Open
  <1> QED
    BY <1>1, <1>3, <1>11, <1>12, LeaveTree

LEMMA TraceInit == Init => TraceInv
  <1> SUFFICES ASSUME Init PROVE TraceInv
    OBVIOUS
  <1>1. DOMAIN spans = {} /\ spans = [id \in {} |-> NoSpan] /\ file = <<>> /\ now = 1
    BY DEF Init
  <1>2. TraceType
    BY <1>1 DEF Init, TraceType
  <1>3. FileInv
    BY <1>1 DEF FileInv, Range
  <1>4. \A a \in Agents : TreeInv(a)
    <2> SUFFICES ASSUME NEW a \in Agents PROVE TreeInv(a)
      OBVIOUS
    <2>1. pc[a] \in {"start", "done"} /\ calls[a] = <<>> /\ _current_parent[Main(a)] = NoSpan
      BY DEF Init
    <2> QED
      BY <1>1, <2>1 DEF TreeInv, OpenInv, ContextInv
  <1> QED
    BY <1>2, <1>3, <1>4 DEF TraceInv

LEMMA TraceNext == AgentInv /\ TraceInv /\ [Next]_vars => TraceInv'
  <1> SUFFICES ASSUME AgentInv, TraceInv, [Next]_vars PROVE TraceInv'
    OBVIOUS
  <1>1. CASE UNCHANGED vars
    <2>1. UNCHANGED <<parallel, pc, round, calls, messages, answer,
                      _current_parent, spans, file, now>>
      BY <1>1 DEF vars, agent, tracer
    <2>2. TraceType' /\ FileInv'
      BY <2>1 DEF TraceInv, TraceType, FileInv
    <2>3. \A b \in Agents : Untouched(b) /\ Untraced(b)
      BY <2>1 DEF Untouched, Untraced
    <2> QED
      BY <2>1, <2>2, <2>3, OthersTree DEF AgentInv, TraceInv
  <1>2. ASSUME NEW a \in Agents, run_agent(a) PROVE TraceInv'
    <2>1. StepsExhausted(a) => TraceInv'
      <3>1. StepsExhausted(a) => /\ pc[a] = "loop" /\ pc'[a] = "return"
                                 /\ UNCHANGED <<round, calls>> /\ UNCHANGED tracer
        BY DEF StepsExhausted, At, AgentInv, AgentType
      <3> QED
        BY <1>2, <3>1, LeavesTheLoop
    <2>2. ASSUME NEW k \in DOMAIN calls[a], FinalAnswer(a, k) PROVE TraceInv'
      <3>1. /\ pc[a] = "calls" /\ pc'[a] = "return"
            /\ UNCHANGED <<round, calls>> /\ UNCHANGED tracer
        BY <2>2 DEF FinalAnswer, At, AgentInv, AgentType
      <3> QED
        BY <1>2, <3>1, LeavesTheLoop
    <2>3. Raise(a) => TraceInv'
      <3>1. Raise(a) => /\ pc[a] \in {"calls", "gather"} /\ pc'[a] = "raised"
                        /\ UNCHANGED <<round, calls>> /\ UNCHANGED tracer
        BY DEF Raise, At, AgentInv, AgentType
      <3> QED
        BY <1>2, <3>1, LeavesTheLoop
    <2> QED
      BY <1>2, <2>1, <2>2, <2>3, StartTree, ChatTree, ResponseTree, ToolBeginsTree,
         ToolEndsTree, GatherTree, NextTurnTree, ReturnTree DEF run_agent
  <1> QED
    BY <1>1, <1>2 DEF Next

LEMMA TreeHolds == AgentInv /\ TraceInv => TraceTree
  <1> SUFFICES ASSUME AgentInv, TraceInv PROVE TraceTree
    OBVIOUS
  <1>1. \A s \in DOMAIN spans : spans[s] \in Record
    BY DEF TraceInv, TraceType
  <1>2. ASSUME NEW a \in Agents, NEW s \in DOMAIN spans, s[1] = a, pc[a] = "done"
        PROVE  spans[s].end_s > 0
    <2>1. \A k \in DOMAIN calls[a] : calls[a][k] # "running"
      BY <1>2 DEF AgentInv, CallsInv
    <2>2. SpanInv(a, s)
      BY <1>2 DEF TraceInv, TreeInv
    <2>3. ~Open(s)
      BY <1>2, <2>1, <2>2 DEF SpanInv
    <2> QED
      BY <1>1, <2>3 DEF Open, Record
  <1>3. Range(file) = {s \in DOMAIN spans : spans[s].end_s > 0}
    BY <1>1 DEF TraceInv, FileInv, Record
  <1>4. ASSUME NEW a \in Agents, pc[a] = "failed" PROVE Contains(file, TaskSpan(a))
    <2>1. TaskSpan(a) \in Range(file)
      BY <1>4 DEF TraceInv, FileInv, TreeInv, OpenInv, Open
    <2>2. DOMAIN file = 1 .. Len(file)
      BY Elements DEF TraceInv, TraceType
    <2> QED
      BY <2>1, <2>2 DEF Range, Contains
  <1>5. EverySpanOnce
    BY <1>2, <1>3, <1>4 DEF EverySpanOnce, TraceInv, FileInv
  <1>6. ASSUME NEW a \in Agents, NEW s \in {id \in DOMAIN spans : id[1] = a}
        PROVE  IF s = TaskSpan(a) THEN spans[s].parent = NoSpan
               ELSE LET whole == spans[TaskSpan(a)]
                    IN  /\ spans[s].parent = TaskSpan(a)
                        /\ whole.start_s < spans[s].start_s
                        /\ pc[a] = "done" => spans[s].end_s \in spans[s].start_s .. whole.end_s
    <2>1. SpanInv(a, s)
      BY DEF TraceInv, TreeInv
    <2>2. pc[a] = "done" => spans[s].start_s < spans[s].end_s
      BY <1>1, <1>2 DEF TraceInv, FileInv, Record
    <2>3. spans[s].start_s \in Nat /\ spans[s].end_s \in Nat
      BY <1>1 DEF Record
    <2>4. TaskSpan(a) \in DOMAIN spans => spans[TaskSpan(a)].end_s \in Nat
      BY <1>1 DEF Record
    <2> QED
      BY <2>1, <2>2, <2>3, <2>4 DEF SpanInv
  <1> QED
    BY <1>5, <1>6 DEF TraceTree

(* The trace file has every span that ended, once and in the order they    *)
(* ended, and every span is a child of its own agent's and within it.      *)
THEOREM TraceIsATree == Spec => []TraceTree
  <1>1. Init => AgentInv /\ TraceInv
    BY AgentInit, TraceInit
  <1>2. (AgentInv /\ TraceInv) /\ [Next]_vars => (AgentInv /\ TraceInv)'
    BY AgentNext, TraceNext
  <1>3. AgentInv /\ TraceInv => TraceTree
    BY TreeHolds
  <1> QED
    BY <1>1, <1>2, <1>3, PTL DEF Spec

------------------------------------------------------------------------------
(* The chart. *)

(* A set of natural numbers has a least element.                           *)
LEMMA LeastOf ==
  ASSUME NEW S, S = Nat, NEW R, IsWellFoundedOn(R, S),
         \A x, y \in S : x < y => <<x, y>> \in R,
         NEW T, T \subseteq S, T # {}
  PROVE  \E n \in T : \A m \in T : n <= m
  <1>1. \E n \in T : \A m \in T : ~(<<m, n>> \in R)
    BY ONLY IsWellFoundedOn(R, S), T \subseteq S, T # {}, WFMin
  <1>2. PICK n \in T : \A m \in T : ~(<<m, n>> \in R)
    BY <1>1
  <1>3. \A m \in T : ~(m < n)
    BY <1>2
  <1> QED
    BY <1>3

LEMMA LeastNatural ==
  ASSUME NEW T \in SUBSET Nat, T # {}
  PROVE  \E n \in T : \A m \in T : n <= m
  <1>1. \A x, y \in Nat : x < y => <<x, y>> \in OpToRel(<, Nat)
    BY DEF OpToRel
  <1> QED
    BY <1>1, NatLessThanWellFounded, LeastOf, Zenon

LEMMA MinIs ==
  ASSUME NEW S \in SUBSET Nat, S # {}
  PROVE  Min(S) \in S /\ \A y \in S : Min(S) <= y
  BY LeastNatural DEF Min

(* How a number of columns is rounded down. *)
LEMMA Columns ==
  ASSUME NEW x \in Nat, NEW b \in Nat \ {0}
  PROVE  x \div b \in Nat /\ (x \div b) * b <= x /\ x < ((x \div b) + 1) * b
  OBVIOUS

LEMMA Cancel ==
  ASSUME NEW i \in Int, NEW j \in Int, NEW b \in Nat \ {0}, i * b <= j * b
  PROVE  i <= j
  OBVIOUS

LEMMA CancelStrictly ==
  ASSUME NEW i \in Int, NEW j \in Int, NEW b \in Nat \ {0}, i * b < j * b
  PROVE  i < j
  OBVIOUS

LEMMA Longer ==
  ASSUME NEW x \in Int, NEW y \in Int, NEW b \in Nat, x <= y
  PROVE  x * b <= y * b
  OBVIOUS

LEMMA Distribute ==
  ASSUME NEW x \in Int, NEW y \in Int, NEW b \in Int
  PROVE  x * b + y * b = (x + y) * b
  OBVIOUS

LEMMA ColumnsGrow ==
  ASSUME NEW x \in Nat, NEW y \in Nat, NEW b \in Nat \ {0}, x <= y
  PROVE  x \div b <= y \div b
  <1> PICK i \in Nat, j \in Nat : i = x \div b /\ j = y \div b
    BY Columns
  <1>1. i * b <= x /\ y < (j + 1) * b
    BY Columns
  <1>2. i * b \in Int /\ (j + 1) * b \in Int
    OBVIOUS
  <1>3. i * b < (j + 1) * b
    BY <1>1, <1>2
  <1>4. i < j + 1
    BY <1>3, CancelStrictly
  <1> QED
    BY <1>4

(* A bar that begins x and lasts d of a total of b, in a chart of w columns. *)
LEMMA BarFits ==
  ASSUME NEW x \in Nat, NEW d \in Nat \ {0}, NEW b \in Nat \ {0}, NEW w \in Nat \ {0},
         x + d <= b
  PROVE  /\ (x * w) \div b \in Nat
         /\ ((x * w) \div b) + Max({1, (d * w) \div b}) <= w
  <1> PICK i \in Nat, j \in Nat : i = (x * w) \div b /\ j = (d * w) \div b
    <2>1. x * w \in Nat /\ d * w \in Nat
      OBVIOUS
    <2> QED
      BY <2>1, Columns
  <1>1. i * b <= x * w /\ j * b <= d * w
    <2>1. x * w \in Nat /\ d * w \in Nat
      OBVIOUS
    <2> QED
      BY <2>1, Columns
  <1>2. /\ i * b \in Int /\ j * b \in Int /\ x * w \in Int /\ d * w \in Int
        /\ b * w \in Int /\ w * b \in Int
    OBVIOUS
  <1>3. b * w = w * b
    OBVIOUS
  <1>4. i + j <= w
    <2>1. (i + j) * b <= (x + d) * w
      BY <1>1, <1>2, Distribute
    <2>2. (x + d) * w <= b * w
      BY Longer
    <2>3. (i + j) * b \in Int /\ (x + d) * w \in Int
      OBVIOUS
    <2>4. (i + j) * b <= w * b
      BY <1>2, <1>3, <2>1, <2>2, <2>3
    <2> QED
      BY <2>4, Cancel
  <1>5. i + 1 <= w
    <2>1. (x + 1) * w <= b * w
      BY Longer
    <2>2. (x + 1) * w = x * w + w
      OBVIOUS
    <2>3. i * b < w * b
      BY <1>1, <1>2, <1>3, <2>1, <2>2
    <2>4. i < w
      BY <2>3, CancelStrictly
    <2> QED
      BY <2>4
  <1>6. Max({1, j}) \in {1, j}
    <2>1. \E m \in {1, j} : \A y \in {1, j} : m >= y
      OBVIOUS
    <2> QED
      BY <2>1 DEF Max
  <1> QED
    BY <1>4, <1>5, <1>6

(* The times that waterfall.py takes the chart's width from. *)
LEMMA ChartTimes ==
  ASSUME TraceInv, Range(file) # {}
  PROVE  /\ total \in Nat \ {0} /\ t0 \in Nat
         /\ \A s \in Range(file) :
              /\ spans[s].start_s - t0 \in Nat
              /\ spans[s].end_s - spans[s].start_s \in Nat \ {0}
              /\ (spans[s].start_s - t0) + (spans[s].end_s - spans[s].start_s) <= total
  <1> DEFINE starts == {spans[s].start_s : s \in Range(file)}
             ends == {spans[s].end_s : s \in Range(file)}
  <1> PICK last : last = file[Len(file)]
    OBVIOUS
  <1>1. \A s \in Range(file) : /\ s \in DOMAIN spans
                               /\ spans[s].start_s \in Nat /\ spans[s].end_s \in Nat
                               /\ spans[s].start_s < spans[s].end_s
    BY DEF TraceInv, TraceType, FileInv, Record
  <1>2. DOMAIN file = 1 .. Len(file) /\ Len(file) \in Nat
    BY Elements DEF TraceInv, TraceType
  <1>3. Len(file) \in DOMAIN file /\ last \in Range(file)
    BY <1>2 DEF Range
  <1>4. \A s \in Range(file) : spans[s].end_s <= spans[last].end_s
    <2> SUFFICES ASSUME NEW n \in DOMAIN file
                 PROVE  spans[file[n]].end_s <= spans[last].end_s
      BY DEF Range
    <2>1. file[n] \in Range(file)
      BY DEF Range
    <2>2. n < Len(file) => spans[file[n]].end_s < spans[last].end_s
      BY <1>3 DEF TraceInv, FileInv
    <2>3. n = Len(file) \/ n < Len(file)
      BY <1>2
    <2> QED
      BY <1>1, <1>3, <2>1, <2>2, <2>3
  <1>5. Max(ends) = spans[last].end_s
    <2>1. spans[last].end_s \in ends /\ ends \subseteq Int
      BY <1>1, <1>3
    <2>2. \A y \in ends : y <= spans[last].end_s
      BY <1>4
    <2> HIDE DEF ends
    <2> QED
      BY <2>1, <2>2, MaxIs
  <1>6. Min(starts) \in starts /\ \A y \in starts : Min(starts) <= y
    <2>1. starts \in SUBSET Nat /\ starts # {}
      BY <1>1
    <2> HIDE DEF starts
    <2> QED
      BY <2>1, MinIs
  <1>7. t0 = Min(starts) /\ total = spans[last].end_s - t0
    BY <1>5 DEF t0, total
  <1>8. t0 \in Nat /\ \A s \in Range(file) : t0 <= spans[s].start_s
    BY <1>1, <1>6, <1>7
  <1> HIDE DEF starts, ends
  <1> QED
    BY <1>1, <1>3, <1>4, <1>7, <1>8

(* A span that began earlier has a row further up. *)
LEMMA Rows ==
  ASSUME TraceInv, NEW r \in Range(file), NEW s \in Range(file),
         spans[r].start_s < spans[s].start_s
  PROVE  row(r) < row(s)
  <1> DEFINE before(x) == {y \in Range(file) : spans[y].start_s <= spans[x].start_s}
  <1>1. IsFiniteSet(Range(file))
    <2>1. DOMAIN file = 1 .. Len(file) /\ Len(file) \in Nat
      BY Elements DEF TraceInv, TraceType
    <2>2. IsFiniteSet(DOMAIN file)
      BY <2>1, FS_Interval
    <2>3. file \in Surjection(DOMAIN file, Range(file))
      BY <2>1 DEF Surjection, Range, TraceInv, TraceType
    <2> QED
      BY <2>2, <2>3, FS_Surjection
  <1>2. \A x \in Range(file) : spans[x].start_s \in Nat
    BY DEF TraceInv, TraceType, FileInv, Record
  <1>3. before(r) \subseteq before(s) /\ s \in before(s) /\ s \notin before(r)
    BY <1>2
  <1>4. IsFiniteSet(before(s))
    BY <1>1, FS_Subset
  <1> PICK A, B : A = before(r) /\ B = before(s)
    OBVIOUS
  <1>5. A \subseteq B /\ A # B /\ IsFiniteSet(B)
    BY <1>3, <1>4
  <1>6. /\ Cardinality(A) <= Cardinality(B) /\ Cardinality(A) # Cardinality(B)
        /\ IsFiniteSet(A)
    BY <1>5, FS_Subset
  <1>7. Cardinality(A) \in Nat /\ Cardinality(B) \in Nat
    BY <1>5, <1>6, FS_CardinalityType
  <1>8. row(r) = Cardinality(A) /\ row(s) = Cardinality(B)
    BY DEF row
  <1> QED
    BY <1>6, <1>7, <1>8

LEMMA ChartHolds == TraceInv => Waterfall
  <1> SUFFICES ASSUME TraceInv, NEW s \in Range(file)
               PROVE  /\ left(s) >= 0
                      /\ left(s) + barlen(s) <= width
                      /\ \A r \in Range(file) :
                           r = spans[s].parent => row(r) < row(s) /\ left(r) <= left(s)
    BY DEF Waterfall
  <1>1. width \in Nat \ {0}
    BY AgentAssumption
  <1>2. total \in Nat \ {0} /\ t0 \in Nat
    BY ChartTimes
  <1>3. /\ spans[s].start_s - t0 \in Nat
        /\ spans[s].end_s - spans[s].start_s \in Nat \ {0}
        /\ (spans[s].start_s - t0) + (spans[s].end_s - spans[s].start_s) <= total
    BY ChartTimes
  <1>4. left(s) \in Nat /\ left(s) + barlen(s) <= width
    BY <1>1, <1>2, <1>3, BarFits DEF left, barlen
  <1>5. ASSUME NEW r \in Range(file), r = spans[s].parent
        PROVE  row(r) < row(s) /\ left(r) <= left(s)
    <2>1. s \in DOMAIN spans /\ r \in DOMAIN spans
      BY DEF TraceInv, FileInv
    <2>2. r \in Ids /\ s \in Ids
      BY <2>1 DEF TraceInv, TraceType
    <2>3. PICK a \in Agents : s[1] = a
      BY <2>2 DEF Ids
    <2>4. SpanInv(a, s)
      BY <2>1, <2>3 DEF TraceInv, TreeInv
    <2>5. s # TaskSpan(a)
      <3>1. r # NoSpan
        BY <2>2, AgentAssumption DEF Ids
      <3> QED
        BY <1>5, <2>4, <3>1 DEF SpanInv
    <2>6. spans[r].start_s < spans[s].start_s
      BY <1>5, <2>4, <2>5 DEF SpanInv
    <2>7. spans[r].start_s - t0 \in Nat
      BY ChartTimes
    <2>8. spans[r].start_s - t0 <= spans[s].start_s - t0
      <3>1. spans[r] \in Record /\ spans[s] \in Record
        BY <2>1 DEF TraceInv, TraceType
      <3>2. spans[r].start_s \in Nat /\ spans[s].start_s \in Nat
        BY <3>1 DEF Record
      <3> QED
        BY <1>2, <2>6, <3>2
    <2> PICK x \in Nat, y \in Nat : x = spans[r].start_s - t0 /\ y = spans[s].start_s - t0
      BY <1>3, <2>7
    <2>9. x * width <= y * width /\ x * width \in Nat /\ y * width \in Nat
      BY <1>1, <2>8, Longer
    <2>10. (x * width) \div total <= (y * width) \div total
      BY <1>2, <2>9, ColumnsGrow
    <2>11. left(r) <= left(s)
      BY <2>10 DEF left
    <2> QED
      BY <2>6, <2>11, Rows
  <1> QED
    BY <1>4, <1>5

(* Whenever the trace file is read, every bar is on the chart, and below   *)
(* and right of its parent's.                                              *)
THEOREM ChartShowsTheTree == Spec => []Waterfall
  <1>1. Init => AgentInv /\ TraceInv
    BY AgentInit, TraceInit
  <1>2. (AgentInv /\ TraceInv) /\ [Next]_vars => (AgentInv /\ TraceInv)'
    BY AgentNext, TraceNext
  <1>3. AgentInv /\ TraceInv => Waterfall
    BY ChartHolds
  <1> QED
    BY <1>1, <1>2, <1>3, PTL DEF Spec

===============================================================================
