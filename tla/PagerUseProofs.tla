---------------------------- MODULE PagerUseProofs ----------------------------
(***************************************************************************)
(* Theorems about PagerUse, for every set of scenarios, policies and       *)
(* commands and every number of requests in flight: what stands in the     *)
(* terminal, and what can end the server.                                  *)
(***************************************************************************)
EXTENDS PagerUse, TLAPS

------------------------------------------------------------------------------
(* The inductive invariant.                                                *)

Names == Files \cup {None} \cup {id[f] : f \in Readable}

RequestRec ==
  [kind : {"list", "load", "command"}, of : Names,
   input : Commands \cup {None},
   state : {"sent", "reading", "calling", "answered", "done", "lost"},
   ok : BOOLEAN]

LineRec == [cls : {"cmd", "out", "err"}, n : Nat, of : Names,
            input : Commands \cup {None}]

TypeOK ==
  /\ selected \in Files \cup {None}
  /\ scenario \in Readable \cup {None}
  /\ termOut \in Seq(LineRec)
  /\ requests \in Seq(RequestRec)
  /\ server \in {"up", "down"}
  /\ cleared \in Nat

(* Only what can be read is answered with a scenario, and only a command   *)
(* that its policy lets through reaches a model or is answered with an     *)
(* output.                                                                 *)
Checked(r) ==
  /\ r.kind = "load" /\ r.state = "answered" => r.ok /\ r.of \in Readable
  /\ r.kind = "command" /\ r.state \in {"answered", "done"} /\ r.ok =>
       r.input \in allow[r.of]
  /\ r.state = "calling" => /\ r.kind = "command"
                            /\ r.of \in Readable /\ mode[r.of] = "remote"
                            /\ r.input \in allow[r.of]

(* A line is of a command, and no line but its own is of an answer that is *)
(* still to arrive.                                                        *)
LineOf(line, rs) ==
  /\ line.n \in DOMAIN rs
  /\ rs[line.n].kind = "command"
  /\ line.cls # "cmd" => /\ rs[line.n].state = "done"
                         /\ line.of = rs[line.n].of
                         /\ line.input = rs[line.n].input
                         /\ line.cls = "out" => rs[line.n].ok

OneOutput(t) ==
  \A j, k \in DOMAIN t :
    t[j].cls # "cmd" /\ t[k].cls # "cmd" /\ t[j].n = t[k].n => j = k

CommandLine(n, of, input) == [cls |-> "cmd", n |-> n, of |-> of, input |-> input]

(* The commands since the last load are for the scenario on the page, and  *)
(* their lines are in the terminal.                                        *)
Entered(t, rs, sc, from) ==
  \A n \in DOMAIN rs : n > from /\ rs[n].kind = "command" =>
    /\ sc \in Readable
    /\ rs[n].of = id[sc]
    /\ \E j \in DOMAIN t : t[j] = CommandLine(n, sc, rs[n].input)

Below(t, sc, from) ==
  \A k \in DOMAIN t : t[k].cls # "cmd" /\ t[k].n > from =>
    \E j \in DOMAIN t : j < k /\ t[j] = CommandLine(t[k].n, sc, t[k].input)

GoodPage(t, rs, sc, from) ==
  /\ \A n \in DOMAIN rs : Checked(rs[n])
  /\ \A k \in DOMAIN t : LineOf(t[k], rs)
  /\ OneOutput(t)
  /\ Entered(t, rs, sc, from)
  /\ Below(t, sc, from)

IInv == TypeOK /\ GoodPage(termOut, requests, scenario, cleared) /\ ServerSurvives

------------------------------------------------------------------------------
(* Sequences.                                                              *)

LEMMA AppendSeq ==
  ASSUME NEW S, NEW q \in Seq(S), NEW e \in S
  PROVE  /\ Append(q, e) \in Seq(S)
         /\ Len(q) + 1 \in Nat
         /\ Len(Append(q, e)) = Len(q) + 1
         /\ DOMAIN Append(q, e) = DOMAIN q \cup {Len(q) + 1}
         /\ Append(q, e)[Len(q) + 1] = e
         /\ \A n \in DOMAIN q : /\ Append(q, e)[n] = q[n]
                                /\ n \in Nat /\ n < Len(q) + 1
  OBVIOUS

LEMMA UpdateSeq ==
  ASSUME NEW S, NEW q \in Seq(S), NEW n \in DOMAIN q, NEW e \in S
  PROVE  /\ [q EXCEPT ![n] = e] \in Seq(S)
         /\ DOMAIN [q EXCEPT ![n] = e] = DOMAIN q
         /\ [q EXCEPT ![n] = e][n] = e
         /\ \A m \in DOMAIN q \ {n} : [q EXCEPT ![n] = e][m] = q[m]
  OBVIOUS

------------------------------------------------------------------------------
(* What can happen to the requests and the terminal.                       *)

(* Requests go from state to state, but for those whose answer has come.   *)
Moved(rs, rs2) ==
  /\ DOMAIN rs2 = DOMAIN rs
  /\ \A n \in DOMAIN rs : /\ rs2[n].kind = rs[n].kind
                          /\ rs2[n].of = rs[n].of
                          /\ rs2[n].input = rs[n].input
                          /\ rs[n].state = "done" => rs2[n] = rs[n]
                          /\ Checked(rs2[n])

LEMMA MovedGood ==
  ASSUME NEW t, NEW rs, NEW sc, NEW from, NEW rs2,
         GoodPage(t, rs, sc, from), Moved(rs, rs2)
  PROVE  GoodPage(t, rs2, sc, from)
  <1>1. \A n \in DOMAIN rs2 : Checked(rs2[n])
    BY DEF Moved
  <1>2. \A k \in DOMAIN t : LineOf(t[k], rs2)
    BY DEF GoodPage, Moved, LineOf
  <1>3. Entered(t, rs2, sc, from)
    BY DEF GoodPage, Moved, Entered
  <1> QED
    BY <1>1, <1>2, <1>3 DEF GoodPage

(* A request for a scenario is sent. *)
LEMMA LoadGood ==
  ASSUME NEW t, NEW rs \in Seq(RequestRec), NEW sc, NEW from, NEW r \in RequestRec,
         GoodPage(t, rs, sc, from), r.kind = "load", r.state = "sent"
  PROVE  GoodPage(t, Append(rs, r), sc, from)
  <1> DEFINE k == Len(rs) + 1
             rs2 == Append(rs, r)
  <1>1. /\ DOMAIN rs2 = DOMAIN rs \cup {k}
        /\ rs2[k] = r
        /\ \A n \in DOMAIN rs : rs2[n] = rs[n]
    BY AppendSeq
  <1> HIDE DEF k, rs2
  <1>2. \A n \in DOMAIN rs2 : Checked(rs2[n])
    <2>1. Checked(r)
      BY DEF Checked
    <2> QED
      BY <1>1, <2>1 DEF GoodPage
  <1>3. \A j \in DOMAIN t : LineOf(t[j], rs2)
    BY <1>1 DEF GoodPage, LineOf
  <1>4. Entered(t, rs2, sc, from)
    BY <1>1 DEF GoodPage, Entered
  <1> QED
    BY <1>2, <1>3, <1>4 DEF GoodPage, rs2

(* A command is sent for the scenario on the page. *)
LEMMA CommandGood ==
  ASSUME NEW t \in Seq(LineRec), NEW rs \in Seq(RequestRec), NEW sc \in Readable,
         NEW from, NEW r \in RequestRec, GoodPage(t, rs, sc, from),
         r.kind = "command", r.state = "sent", r.of = id[sc],
         CommandLine(Len(rs) + 1, sc, r.input) \in LineRec
  PROVE  GoodPage(Append(t, CommandLine(Len(rs) + 1, sc, r.input)),
                  Append(rs, r), sc, from)
  <1> DEFINE k == Len(rs) + 1
             rs2 == Append(rs, r)
             line == CommandLine(k, sc, r.input)
             l == Len(t) + 1
             t2 == Append(t, line)
  <1>1. /\ DOMAIN rs2 = DOMAIN rs \cup {k}
        /\ rs2[k] = r
        /\ \A n \in DOMAIN rs : rs2[n] = rs[n]
    BY AppendSeq
  <1>2. /\ DOMAIN t2 = DOMAIN t \cup {l}
        /\ t2[l] = line
        /\ \A j \in DOMAIN t : t2[j] = t[j]
    BY AppendSeq
  <1>3. line.cls = "cmd" /\ line.n = k /\ line = CommandLine(k, sc, r.input)
    BY DEF CommandLine
  <1> HIDE DEF k, rs2, l, t2, line
  <1>4. \A n \in DOMAIN rs2 : Checked(rs2[n])
    <2>1. Checked(r)
      BY DEF Checked
    <2> QED
      BY <1>1, <2>1 DEF GoodPage
  <1>5. \A j \in DOMAIN t2 : LineOf(t2[j], rs2)
    <2>1. LineOf(line, rs2)
      BY <1>1, <1>3 DEF LineOf
    <2>2. \A j \in DOMAIN t : LineOf(t[j], rs2)
      BY <1>1 DEF GoodPage, LineOf
    <2> QED
      BY <1>2, <2>1, <2>2
  <1>6. OneOutput(t2)
    BY <1>2, <1>3 DEF GoodPage, OneOutput
  <1>7. Entered(t2, rs2, sc, from)
    <2> SUFFICES ASSUME NEW n \in DOMAIN rs2, n > from, rs2[n].kind = "command"
                 PROVE  /\ rs2[n].of = id[sc]
                        /\ \E j \in DOMAIN t2 :
                             t2[j] = CommandLine(n, sc, rs2[n].input)
      BY DEF Entered
    <2>1. CASE n = k
      BY <1>1, <1>2, <1>3, <2>1
    <2>2. CASE n \in DOMAIN rs
      BY <1>1, <1>2, <2>2 DEF GoodPage, Entered
    <2> QED
      BY <1>1, <2>1, <2>2
  <1>8. Below(t2, sc, from)
    BY <1>2, <1>3 DEF GoodPage, Below
  <1> QED
    BY <1>4, <1>5, <1>6, <1>7, <1>8 DEF GoodPage, t2, rs2, line, k

(* The answer to a command arrives. *)
LEMMA OutputGood ==
  ASSUME NEW t \in Seq(LineRec), NEW rs \in Seq(RequestRec), NEW sc, NEW from,
         NEW n \in DOMAIN rs, NEW line \in LineRec, NEW rs2,
         GoodPage(t, rs, sc, from), rs[n].kind = "command", rs[n].state # "done",
         Moved(rs, rs2), rs2[n].state = "done",
         line.n = n, line.of = rs[n].of, line.input = rs[n].input,
         line.cls = (IF rs2[n].ok THEN "out" ELSE "err")
  PROVE  GoodPage(Append(t, line), rs2, sc, from)
  <1> DEFINE l == Len(t) + 1
             t2 == Append(t, line)
  <1>1. /\ DOMAIN t2 = DOMAIN t \cup {l}
        /\ t2[l] = line
        /\ \A j \in DOMAIN t : t2[j] = t[j] /\ j < l
    BY AppendSeq
  <1>2. GoodPage(t, rs2, sc, from)
    BY MovedGood
  <1>3. \A j \in DOMAIN t : t[j].n = n => t[j].cls = "cmd"
    BY DEF GoodPage, LineOf
  <1>4. /\ DOMAIN rs2 = DOMAIN rs /\ rs2[n].kind = "command"
        /\ rs2[n].of = rs[n].of /\ rs2[n].input = rs[n].input
    BY DEF Moved
  <1> HIDE DEF l, t2
  <1>5. \A j \in DOMAIN t2 : LineOf(t2[j], rs2)
    <2>1. LineOf(line, rs2)
      BY <1>4 DEF LineOf
    <2> QED
      BY <1>1, <1>2, <2>1 DEF GoodPage
  <1>6. OneOutput(t2)
    BY <1>1, <1>2, <1>3 DEF GoodPage, OneOutput
  <1>7. Entered(t2, rs2, sc, from)
    BY <1>1, <1>2 DEF GoodPage, Entered
  <1>8. Below(t2, sc, from)
    <2> SUFFICES ASSUME NEW k \in DOMAIN t2, t2[k].cls # "cmd", t2[k].n > from
                 PROVE  \E j \in DOMAIN t2 :
                          j < k /\ t2[j] = CommandLine(t2[k].n, sc, t2[k].input)
      BY DEF Below
    <2>1. CASE k = l
      <3>1. \E j \in DOMAIN t : t[j] = CommandLine(n, sc, rs2[n].input)
        BY <1>1, <1>2, <1>4, <2>1 DEF GoodPage, Entered
      <3> QED
        BY <1>1, <1>4, <2>1, <3>1
    <2>2. CASE k \in DOMAIN t
      <3>1. \E j \in DOMAIN t : j < k /\ t[j] = CommandLine(t[k].n, sc, t[k].input)
        BY <1>1, <1>2, <2>2 DEF GoodPage, Below
      <3> QED
        BY <1>1, <2>2, <3>1
    <2> QED
      BY <1>1, <2>1, <2>2
  <1> QED
    BY <1>2, <1>5, <1>6, <1>7, <1>8 DEF GoodPage, t2

(* A scenario is rendered: the terminal is cleared. *)
LEMMA ClearGood ==
  ASSUME NEW t, NEW rs \in Seq(RequestRec), NEW sc, NEW from, NEW sc2,
         GoodPage(t, rs, sc, from)
  PROVE  GoodPage(<<>>, rs, sc2, Len(rs))
  <1>1. \A n \in DOMAIN rs : ~(n > Len(rs))
    OBVIOUS
  <1>2. Entered(<<>>, rs, sc2, Len(rs))
    BY <1>1 DEF Entered
  <1> QED
    BY <1>2 DEF GoodPage, OneOutput, Below

------------------------------------------------------------------------------
(* The steps.                                                              *)

Grows(rs, rs2) ==
  \A n \in DOMAIN rs : /\ n \in DOMAIN rs2
                       /\ rs2[n].kind = rs[n].kind
                       /\ rs2[n].of = rs[n].of

(* The request that a server that is down went down for stays.             *)
LEMMA SurvivesKept ==
  ASSUME ServerSurvives, server' = "down" => server = "down",
         Grows(requests, requests')
  PROVE  ServerSurvives'
  BY DEF ServerSurvives, Grows, Remote

(* One request goes on, and is not an answer that has arrived. *)
LEMMA OneMoves ==
  ASSUME IInv, NEW n \in DOMAIN requests,
         NEW state \in {"sent", "reading", "calling", "answered", "done", "lost"},
         NEW ok \in BOOLEAN, requests[n].state # "done",
         requests' = [requests EXCEPT ![n].state = state, ![n].ok = ok],
         Checked([requests[n] EXCEPT !.state = state, !.ok = ok])
  PROVE  /\ requests' \in Seq(RequestRec)
         /\ DOMAIN requests' = DOMAIN requests
         /\ requests'[n] = [requests[n] EXCEPT !.state = state, !.ok = ok]
         /\ Moved(requests, requests')
         /\ Grows(requests, requests')
  <1> DEFINE r == [requests[n] EXCEPT !.state = state, !.ok = ok]
  <1>1. requests \in Seq(RequestRec) /\ requests[n] \in RequestRec
    BY DEF IInv, TypeOK
  <1>2. /\ r \in RequestRec /\ r.kind = requests[n].kind /\ r.of = requests[n].of
        /\ r.input = requests[n].input
    BY <1>1 DEF RequestRec
  <1>3. requests' = [requests EXCEPT ![n] = r]
    BY <1>1 DEF RequestRec
  <1>4. Checked(r)
    OBVIOUS
  <1> HIDE DEF r
  <1>5. /\ requests' \in Seq(RequestRec)
        /\ DOMAIN requests' = DOMAIN requests
        /\ requests'[n] = r
        /\ \A m \in DOMAIN requests \ {n} : requests'[m] = requests[m]
    <2> DEFINE q == requests
               q2 == [q EXCEPT ![n] = r]
    <2>1. q \in Seq(RequestRec) /\ n \in DOMAIN q /\ r \in RequestRec
      BY <1>1, <1>2
    <2>2. requests' = q2
      BY <1>3
    <2> HIDE DEF q
    <2>3. /\ q2 \in Seq(RequestRec)
          /\ DOMAIN q2 = DOMAIN q
          /\ q2[n] = r
          /\ \A m \in DOMAIN q \ {n} : q2[m] = q[m]
      BY <2>1, UpdateSeq
    <2> QED
      BY <2>2, <2>3 DEF q
  <1>6. Moved(requests, requests')
    BY <1>2, <1>4, <1>5 DEF Moved, IInv, GoodPage
  <1> QED
    BY <1>5, <1>6 DEF Moved, Grows, r

(* A step of the server for one request. *)
LEMMA ServerStep ==
  ASSUME IInv, NEW n \in DOMAIN requests,
         NEW state \in {"reading", "calling", "answered", "lost"}, NEW ok \in BOOLEAN,
         requests[n].state # "done",
         requests' = [requests EXCEPT ![n].state = state, ![n].ok = ok],
         Checked([requests[n] EXCEPT !.state = state, !.ok = ok]),
         UNCHANGED <<selected, scenario, termOut, server, cleared>>
  PROVE  IInv'
  <1>1. /\ requests' \in Seq(RequestRec)
        /\ Moved(requests, requests')
        /\ Grows(requests, requests')
    BY OneMoves
  <1>2. GoodPage(termOut', requests', scenario', cleared')
    BY <1>1, MovedGood DEF IInv
  <1>3. ServerSurvives'
    BY <1>1, SurvivesKept DEF IInv
  <1> QED
    BY <1>1, <1>2, <1>3 DEF IInv, TypeOK

(* Throw, for a request that is the file's or the model's fault. *)
LEMMA ThrowStep ==
  ASSUME IInv, NEW n \in DOMAIN requests, Throw,
         UNCHANGED <<selected, scenario, termOut, cleared>>,
         requests[n].kind # "list", requests[n].of \notin Readable \/ Remote(n)
  PROVE  IInv'
  <1>1. requests \in Seq(RequestRec) /\ \A m \in DOMAIN requests : requests[m] \in RequestRec
    BY DEF IInv, TypeOK
  <1>2. \A m \in DOMAIN requests :
          \/ requests'[m] = requests[m]
          \/ /\ requests'[m] = [requests[m] EXCEPT !.state = "lost"]
             /\ requests[m].state \in {"reading", "calling"}
    BY <1>1 DEF Throw
  <1>3. \A r \in RequestRec : LET r2 == [r EXCEPT !.state = "lost"] IN
          /\ r2 \in RequestRec /\ r2.kind = r.kind /\ r2.of = r.of
          /\ r2.input = r.input /\ r2.state = "lost"
    BY DEF RequestRec
  <1>4. requests' \in Seq(RequestRec) /\ DOMAIN requests' = DOMAIN requests
    <2>1. ASSUME NEW m \in DOMAIN requests PROVE requests'[m] \in RequestRec
      <3>1. CASE requests'[m] = requests[m]
        BY <1>1, <3>1
      <3>2. CASE requests'[m] = [requests[m] EXCEPT !.state = "lost"]
        BY <1>1, <1>3, <3>2
      <3> QED
        BY <1>2, <3>1, <3>2
    <2>2. DOMAIN requests = 1 .. Len(requests) /\ Len(requests) \in Nat
      BY <1>1
    <2>3. requests' = [m \in 1 .. Len(requests) |-> requests'[m]]
      BY <2>2 DEF Throw
    <2> QED
      BY <2>1, <2>2, <2>3
  <1>5. Moved(requests, requests')
    <2>1. \A m \in DOMAIN requests :
            /\ requests'[m].kind = requests[m].kind
            /\ requests'[m].of = requests[m].of
            /\ requests'[m].input = requests[m].input
            /\ requests[m].state = "done" => requests'[m] = requests[m]
      <3> SUFFICES ASSUME NEW m \in DOMAIN requests
                   PROVE  /\ requests'[m].kind = requests[m].kind
                          /\ requests'[m].of = requests[m].of
                          /\ requests'[m].input = requests[m].input
                          /\ requests[m].state = "done" => requests'[m] = requests[m]
        OBVIOUS
      <3>1. CASE requests'[m] = requests[m]
        BY <3>1
      <3>2. CASE /\ requests'[m] = [requests[m] EXCEPT !.state = "lost"]
                 /\ requests[m].state \in {"reading", "calling"}
        BY <1>1, <1>3, <3>2
      <3> QED
        BY <1>2, <3>1, <3>2
    <2>2. \A m \in DOMAIN requests : Checked(requests'[m])
      <3> SUFFICES ASSUME NEW m \in DOMAIN requests PROVE Checked(requests'[m])
        OBVIOUS
      <3>1. CASE requests'[m] = requests[m]
        BY <3>1 DEF IInv, GoodPage
      <3>2. CASE requests'[m] = [requests[m] EXCEPT !.state = "lost"]
        <4>1. requests'[m].state = "lost"
          BY <1>1, <1>3, <3>2
        <4> QED
          BY <4>1 DEF Checked
      <3> QED
        BY <1>2, <3>1, <3>2
    <2> QED
      BY <1>4, <2>1, <2>2 DEF Moved
  <1>6. GoodPage(termOut', requests', scenario', cleared')
    BY <1>5, MovedGood DEF IInv
  <1>7. ServerSurvives'
    BY <1>4, <1>5 DEF ServerSurvives, Remote, Moved
  <1> QED
    BY <1>4, <1>6, <1>7 DEF IInv, TypeOK, Throw


LEMMA HandleStep ==
  ASSUME IInv, NEW n \in DOMAIN requests, Handle(n)
  PROVE  IInv'
  <1> DEFINE state == IF server = "up" THEN "reading" ELSE "lost"
  <1>1. requests[n] \in RequestRec
    BY DEF IInv, TypeOK
  <1>2. /\ requests' = [requests EXCEPT ![n].state = state,
                                        ![n].ok = requests[n].ok]
        /\ requests[n].ok \in BOOLEAN
    BY <1>1 DEF Handle, RequestRec
  <1>3. Checked([requests[n] EXCEPT !.state = state, !.ok = requests[n].ok])
    BY <1>1 DEF Checked, RequestRec
  <1> QED
    BY <1>2, <1>3, ServerStep DEF Handle

LEMMA AnswerStep ==
  ASSUME IInv, NEW n \in DOMAIN requests, NEW ok \in BOOLEAN, Answer(n, ok),
         UNCHANGED <<selected, scenario, termOut, cleared>>,
         requests[n].state # "done",
         requests[n].kind = "load" => ok /\ requests[n].of \in Readable,
         requests[n].kind = "command" /\ ok =>
           requests[n].input \in allow[requests[n].of]
  PROVE  IInv'
  <1>1. requests[n] \in RequestRec
    BY DEF IInv, TypeOK
  <1>2. Checked([requests[n] EXCEPT !.state = "answered", !.ok = ok])
    BY <1>1 DEF Checked, RequestRec
  <1> QED
    BY <1>2, ServerStep DEF Answer

LEMMA PostCommandStep ==
  ASSUME IInv, NEW n \in DOMAIN requests, PostCommand(n)
  PROVE  IInv'
  <1>1. /\ requests[n].kind = "command" /\ requests[n].state = "reading"
        /\ UNCHANGED <<selected, scenario, termOut, cleared>>
        /\ requests[n] \in RequestRec
    BY DEF PostCommand, Post, Resume, IInv, TypeOK
  <1>2. CASE requests[n].of \notin Readable
    BY <1>1, <1>2, ThrowStep DEF PostCommand, Post
  <1>3. CASE requests[n].of \in Readable /\ requests[n].input \in allow[requests[n].of]
    <2>1. callLlm(n)
      BY <1>3 DEF PostCommand, Post, validateCommand
    <2>2. CASE Remote(n)
      <3>1. /\ requests' = [requests EXCEPT ![n].state = "calling",
                                            ![n].ok = requests[n].ok]
            /\ server' = server /\ requests[n].ok \in BOOLEAN
        BY <1>1, <2>1, <2>2 DEF callLlm, RequestRec
      <3>2. Checked([requests[n] EXCEPT !.state = "calling", !.ok = requests[n].ok])
        BY <1>1, <1>3, <2>2 DEF Checked, RequestRec, Remote
      <3> QED
        BY <1>1, <3>1, <3>2, ServerStep
    <2>3. CASE ~Remote(n)
      BY <1>1, <1>3, <2>1, <2>3, AnswerStep DEF callLlm
    <2> QED
      BY <2>2, <2>3
  <1>4. CASE requests[n].of \in Readable /\ requests[n].input \notin allow[requests[n].of]
    <2>1. Answer(n, FALSE)
      BY <1>4 DEF PostCommand, Post, validateCommand
    <2> QED
      BY <1>1, <2>1, AnswerStep
  <1> QED
    BY <1>2, <1>3, <1>4

LEMMA GetStep ==
  ASSUME IInv, NEW n \in DOMAIN requests, GetScenarios(n) \/ GetScenario(n)
  PROVE  IInv'
  <1>1. CASE GetScenarios(n)
    BY <1>1, AnswerStep DEF GetScenarios, Resume
  <1>2. CASE GetScenario(n) /\ requests[n].of \in Readable
    BY <1>2, AnswerStep DEF GetScenario, Resume
  <1>3. CASE GetScenario(n) /\ requests[n].of \notin Readable
    BY <1>3, ThrowStep DEF GetScenario, Resume
  <1> QED
    BY <1>1, <1>2, <1>3

LEMMA LlmStep ==
  ASSUME IInv, NEW n \in DOMAIN requests, LlmReplies(n) \/ LlmFails(n)
  PROVE  IInv'
  <1>1. requests[n].state = "calling" /\ UNCHANGED <<selected, scenario, termOut, cleared>>
    BY DEF LlmReplies, LlmFails, Resume
  <1>2. /\ requests[n].kind = "command"
        /\ requests[n].of \in Readable /\ mode[requests[n].of] = "remote"
        /\ requests[n].input \in allow[requests[n].of]
    BY <1>1 DEF IInv, GoodPage, Checked
  <1>3. CASE LlmReplies(n)
    BY <1>1, <1>2, <1>3, AnswerStep DEF LlmReplies
  <1>4. CASE LlmFails(n)
    BY <1>1, <1>2, <1>4, ThrowStep DEF LlmFails, Remote
  <1> QED
    BY <1>3, <1>4


(* The page has taken an answer. *)
LEMMA DoneMoves ==
  ASSUME IInv, NEW n \in DOMAIN requests, requests[n].state = "answered"
  PROVE  /\ Done(n) \in Seq(RequestRec)
         /\ Moved(requests, Done(n))
         /\ Grows(requests, Done(n))
         /\ Len(Done(n)) = Len(requests)
         /\ Done(n)[n].state = "done" /\ Done(n)[n].ok = requests[n].ok
  <1> DEFINE q == requests
             r == [q[n] EXCEPT !.state = "done"]
             q2 == [q EXCEPT ![n] = r]
  <1>1. q \in Seq(RequestRec) /\ n \in DOMAIN q /\ q[n] \in RequestRec
    BY DEF IInv, TypeOK
  <1>2. /\ r \in RequestRec /\ r.kind = q[n].kind /\ r.of = q[n].of
        /\ r.input = q[n].input /\ r.ok = q[n].ok /\ r.state = "done"
    BY <1>1 DEF RequestRec
  <1>3. Checked(q[n]) /\ q[n].state = "answered"
    BY DEF IInv, GoodPage
  <1>4. Checked(r)
    BY <1>2, <1>3 DEF Checked
  <1>5. Done(n) = q2
    BY DEF Done
  <1>6. \A m \in DOMAIN q : Checked(q[m])
    BY DEF IInv, GoodPage
  <1> HIDE DEF q, r
  <1>7. /\ q2 \in Seq(RequestRec)
        /\ DOMAIN q2 = DOMAIN q
        /\ q2[n] = r
        /\ \A m \in DOMAIN q \ {n} : q2[m] = q[m]
    BY <1>1, <1>2, UpdateSeq
  <1>8. Len(q2) = Len(q)
    BY <1>1, <1>7
  <1> HIDE DEF q2
  <1>9. Moved(q, q2)
    BY <1>2, <1>3, <1>4, <1>6, <1>7 DEF Moved
  <1>10. Grows(q, q2)
    BY <1>9 DEF Moved, Grows
  <1> QED
    BY <1>2, <1>5, <1>7, <1>8, <1>9, <1>10 DEF q

LEMMA ListArrivesStep ==
  ASSUME IInv, NEW n \in DOMAIN requests, ListArrives(n)
  PROVE  IInv'
  <1> DEFINE r == Request("load", First, None)
             q == Done(n)
  <1>1. /\ q \in Seq(RequestRec) /\ Moved(requests, q) /\ Grows(requests, q)
    BY DoneMoves DEF ListArrives, Arrives
  <1>2. r \in RequestRec /\ r.kind = "load" /\ r.state = "sent"
    BY PagerUseAssumption DEF Request, RequestRec, Names
  <1>3. requests' = Append(q, r)
    BY DEF ListArrives
  <1> HIDE DEF q, r
  <1>4. GoodPage(termOut, q, scenario, cleared)
    BY <1>1, MovedGood DEF IInv
  <1>5. GoodPage(termOut, Append(q, r), scenario, cleared)
    BY <1>1, <1>2, <1>4, LoadGood
  <1>6. /\ Append(q, r) \in Seq(RequestRec)
        /\ DOMAIN Append(q, r) = DOMAIN q \cup {Len(q) + 1}
        /\ \A m \in DOMAIN q : Append(q, r)[m] = q[m]
    BY <1>1, <1>2, AppendSeq
  <1>7. Grows(requests, requests')
    BY <1>1, <1>3, <1>6 DEF Grows
  <1>8. ServerSurvives'
    BY <1>7, SurvivesKept DEF IInv, ListArrives
  <1> QED
    BY <1>3, <1>5, <1>6, <1>8, PagerUseAssumption DEF IInv, TypeOK, ListArrives

LEMMA ScenarioArrivesStep ==
  ASSUME IInv, NEW n \in DOMAIN requests, ScenarioArrives(n)
  PROVE  IInv'
  <1> DEFINE q == Done(n)
  <1>1. /\ q \in Seq(RequestRec) /\ Moved(requests, q) /\ Grows(requests, q)
        /\ Len(q) = Len(requests)
    BY DoneMoves DEF ScenarioArrives, Arrives
  <1>2. requests[n].ok /\ requests[n].of \in Readable
    BY DEF IInv, GoodPage, Checked, ScenarioArrives, Arrives
  <1>3. /\ scenario' = requests[n].of /\ termOut' = <<>>
        /\ cleared' = Len(requests) /\ requests' = q
        /\ UNCHANGED <<selected, server>>
    BY <1>2 DEF ScenarioArrives
  <1> HIDE DEF q
  <1>4. GoodPage(termOut, q, scenario, cleared)
    BY <1>1, MovedGood DEF IInv
  <1>5. GoodPage(<<>>, q, requests[n].of, Len(q))
    BY <1>1, <1>4, ClearGood
  <1>6. ServerSurvives'
    BY <1>1, <1>3, SurvivesKept DEF IInv
  <1>7. Len(requests) \in Nat /\ <<>> \in Seq(LineRec)
    BY DEF IInv, TypeOK
  <1> QED
    BY <1>1, <1>2, <1>3, <1>5, <1>6, <1>7 DEF IInv, TypeOK

LEMMA OutputArrivesStep ==
  ASSUME IInv, NEW n \in DOMAIN requests, OutputArrives(n)
  PROVE  IInv'
  <1> DEFINE q == Done(n)
             line == Line(IF requests[n].ok THEN "out" ELSE "err", n)
  <1>1. /\ q \in Seq(RequestRec) /\ Moved(requests, q) /\ Grows(requests, q)
        /\ q[n].state = "done" /\ q[n].ok = requests[n].ok
    BY DoneMoves DEF OutputArrives, Arrives
  <1>2. /\ requests \in Seq(RequestRec) /\ requests[n] \in RequestRec /\ n \in Nat
        /\ termOut \in Seq(LineRec)
        /\ requests[n].kind = "command" /\ requests[n].state # "done"
    BY DEF IInv, TypeOK, OutputArrives, Arrives
  <1>3. /\ line \in LineRec /\ line.n = n /\ line.of = requests[n].of
        /\ line.input = requests[n].input
        /\ line.cls = (IF q[n].ok THEN "out" ELSE "err")
    BY <1>1, <1>2 DEF Line, LineRec, RequestRec
  <1>4. /\ termOut' = Append(termOut, line) \/ termOut' = termOut
        /\ requests' = q /\ UNCHANGED <<selected, scenario, server, cleared>>
    BY DEF OutputArrives
  <1> HIDE DEF q, line
  <1>5. GoodPage(termOut, requests, scenario, cleared)
    BY DEF IInv
  <1>6. /\ GoodPage(Append(termOut, line), q, scenario, cleared)
        /\ Append(termOut, line) \in Seq(LineRec)
    BY <1>1, <1>2, <1>3, <1>5, OutputGood, AppendSeq
  <1>7. GoodPage(termOut, q, scenario, cleared)
    BY <1>1, <1>5, MovedGood
  <1>8. ServerSurvives'
    BY <1>1, <1>4, SurvivesKept DEF IInv
  <1> QED
    BY <1>1, <1>2, <1>4, <1>6, <1>7, <1>8 DEF IInv, TypeOK


LEMMA StudentStep ==
  ASSUME IInv, Student
  PROVE  IInv'
  <1>1. CASE \E f \in Files : Select(f)
    <2> PICK f \in Files : Select(f)
      BY <1>1
    <2>1. /\ selected' \in Files
          /\ UNCHANGED <<scenario, termOut, requests, server, cleared>>
      BY DEF Select
    <2> QED
      BY <2>1 DEF IInv, TypeOK, ServerSurvives, Remote
  <1>2. CASE ClickLoad
    <2> DEFINE r == Request("load", selected, None)
    <2>1. /\ requests' = Append(requests, r)
          /\ UNCHANGED <<selected, scenario, termOut, server, cleared>>
      BY <1>2 DEF ClickLoad, Send
    <2>2. requests \in Seq(RequestRec)
      BY DEF IInv, TypeOK
    <2>3. r \in RequestRec /\ r.kind = "load" /\ r.state = "sent"
      BY DEF IInv, TypeOK, Request, RequestRec, Names
    <2> HIDE DEF r
    <2>4. GoodPage(termOut, Append(requests, r), scenario, cleared)
      BY <2>2, <2>3, LoadGood DEF IInv
    <2>5. /\ Append(requests, r) \in Seq(RequestRec)
          /\ DOMAIN Append(requests, r) = DOMAIN requests \cup {Len(requests) + 1}
          /\ \A m \in DOMAIN requests : Append(requests, r)[m] = requests[m]
      BY <2>2, <2>3, AppendSeq
    <2>6. Grows(requests, requests')
      BY <2>1, <2>5 DEF Grows
    <2>7. ServerSurvives'
      BY <2>1, <2>6, SurvivesKept DEF IInv
    <2> QED
      BY <2>1, <2>4, <2>5, <2>7 DEF IInv, TypeOK
  <1>3. CASE \E input \in Commands : runCommand(input)
    <2> PICK input \in Commands : runCommand(input)
      BY <1>3
    <2> DEFINE r == Request("command", id[scenario], input)
               line == CommandLine(Len(requests) + 1, scenario, r.input)
    <2>1. /\ requests' = Append(requests, r)
          /\ termOut' = Append(termOut, [cls |-> "cmd", n |-> Len(requests'),
                                         of |-> scenario, input |-> input])
          /\ UNCHANGED <<selected, scenario, server, cleared>>
          /\ scenario # None
      BY DEF runCommand, Run, Send
    <2>2. /\ requests \in Seq(RequestRec) /\ termOut \in Seq(LineRec)
          /\ scenario \in Readable
      BY <2>1 DEF IInv, TypeOK
    <2>3. /\ r \in RequestRec /\ r.kind = "command" /\ r.state = "sent"
          /\ r.of = id[scenario] /\ r.input = input
      BY <2>2 DEF Request, RequestRec, Names
    <2>4. line \in LineRec
      BY <2>2, <2>3, PagerUseAssumption DEF CommandLine, LineRec, RequestRec, Names
    <2> HIDE DEF r
    <2>5. /\ Append(requests, r) \in Seq(RequestRec)
          /\ Len(Append(requests, r)) = Len(requests) + 1
          /\ DOMAIN Append(requests, r) = DOMAIN requests \cup {Len(requests) + 1}
          /\ \A m \in DOMAIN requests : Append(requests, r)[m] = requests[m]
      BY <2>2, <2>3, AppendSeq
    <2>6. termOut' = Append(termOut, line)
      BY <2>1, <2>3, <2>5 DEF CommandLine
    <2>7. GoodPage(Append(termOut, line), Append(requests, r), scenario, cleared)
      BY <2>2, <2>3, <2>4, CommandGood DEF IInv
    <2> HIDE DEF line
    <2>8. Append(termOut, line) \in Seq(LineRec)
      BY <2>2, <2>4, AppendSeq
    <2>9. Grows(requests, requests')
      BY <2>1, <2>5 DEF Grows
    <2>10. ServerSurvives'
      BY <2>1, <2>9, SurvivesKept DEF IInv
    <2> QED
      BY <2>1, <2>5, <2>6, <2>7, <2>8, <2>10 DEF IInv, TypeOK
  <1> QED
    BY <1>1, <1>2, <1>3 DEF Student

------------------------------------------------------------------------------
(* The theorems.                                                           *)

LEMMA IInvInit == Init => IInv
  <1> SUFFICES ASSUME Init PROVE IInv
    OBVIOUS
  <1> DEFINE r == Request("list", None, None)
  <1>1. r \in RequestRec /\ r.kind = "list" /\ r.state = "sent"
    BY DEF Request, RequestRec, Names
  <1>2. requests = <<r>> /\ termOut = <<>>
    BY DEF Init
  <1> HIDE DEF r
  <1>3. requests \in Seq(RequestRec) /\ termOut \in Seq(LineRec)
    BY <1>1, <1>2
  <1>4. DOMAIN requests = {1} /\ requests[1] = r
    BY <1>2
  <1>5. GoodPage(termOut, requests, scenario, cleared)
    BY <1>1, <1>2, <1>4 DEF GoodPage, Checked, OneOutput, Entered, Below
  <1> QED
    BY <1>3, <1>5 DEF IInv, TypeOK, Init, ServerSurvives

LEMMA IInvStep == IInv /\ [Next]_vars => IInv'
  <1> SUFFICES ASSUME IInv, [Next]_vars PROVE IInv'
    OBVIOUS
  <1>1. CASE Restart
    BY <1>1 DEF Restart, IInv, TypeOK, ServerSurvives
  <1>2. CASE UNCHANGED vars
    BY <1>2 DEF vars, IInv, TypeOK, ServerSurvives, Remote
  <1>3. CASE \E n \in DOMAIN requests :
               Page(n) \/ Server(n) \/ LlmReplies(n) \/ LlmFails(n)
    BY <1>3, ListArrivesStep, ScenarioArrivesStep, OutputArrivesStep, HandleStep,
       GetStep, PostCommandStep, LlmStep DEF Page, Server
  <1> QED
    BY <1>1, <1>2, <1>3, StudentStep DEF Next

LEMMA IInvHolds == Spec => []IInv
  BY IInvInit, IInvStep, PTL DEF Spec

(* The terminal is evidence about the scenario on the page, in whatever    *)
(* order loads, commands and their answers cross: but for what was entered *)
(* before the last load, an answer stands below its command, is its only   *)
(* one, is of the scenario loaded, and an output is of a command that the  *)
(* policy of the scenario it was sent for lets through.                    *)
THEOREM TranscriptIsEvidence == Spec => []Transcript
  <1>1. IInv => Transcript
    <2> SUFFICES ASSUME IInv PROVE Transcript
      OBVIOUS
    <2>1. scenario \in Readable \cup {None} /\ termOut \in Seq(LineRec)
      BY DEF IInv, TypeOK
    <2> SUFFICES ASSUME NEW k \in DOMAIN termOut,
                        termOut[k].cls # "cmd", termOut[k].n > cleared
                 PROVE
      /\ termOut[k].of = id[scenario]
      /\ \E j \in 1 .. k - 1 : /\ termOut[j].cls = "cmd"
                               /\ termOut[j].n = termOut[k].n
                               /\ termOut[j].of = scenario
                               /\ termOut[j].input = termOut[k].input
      /\ \A j \in DOMAIN termOut \ {k} :
           termOut[j].n = termOut[k].n => termOut[j].cls = "cmd"
      /\ termOut[k].cls = "out" => termOut[k].input \in allow[termOut[k].of]
      BY <2>1 DEF Transcript
    <2> DEFINE n == termOut[k].n
    <2>2. /\ n \in DOMAIN requests /\ requests[n].kind = "command"
          /\ requests[n].state = "done"
          /\ termOut[k].of = requests[n].of
          /\ termOut[k].input = requests[n].input
          /\ termOut[k].cls = "out" => requests[n].ok
      BY DEF IInv, GoodPage, LineOf
    <2>3. requests[n].of = id[scenario]
      BY <2>2 DEF IInv, GoodPage, Entered
    <2>4. \E j \in 1 .. k - 1 : termOut[j] = CommandLine(n, scenario, termOut[k].input)
      <3>1. \E j \in DOMAIN termOut :
              j < k /\ termOut[j] = CommandLine(n, scenario, termOut[k].input)
        BY DEF IInv, GoodPage, Below
      <3>2. \A j \in DOMAIN termOut : j < k => j \in 1 .. k - 1
        BY <2>1
      <3> QED
        BY <3>1, <3>2
    <2>5. \A j \in DOMAIN termOut \ {k} : termOut[j].n = n => termOut[j].cls = "cmd"
      BY DEF IInv, GoodPage, OneOutput
    <2>6. termOut[k].cls = "out" => requests[n].input \in allow[requests[n].of]
      BY <2>2 DEF IInv, GoodPage, Checked
    <2> QED
      BY <2>2, <2>3, <2>4, <2>5, <2>6 DEF CommandLine
  <1> QED
    BY IInvHolds, <1>1, PTL

(* Nothing that is typed or clicked ends the server, in any interleaving   *)
(* of its handlers: only a scenario file that cannot be read under the     *)
(* name it was asked for, or a model that cannot be reached.               *)
THEOREM ServerSurvivesStudents == Spec => []ServerSurvives
  <1>1. IInv => ServerSurvives
    BY DEF IInv
  <1> QED
    BY IInvHolds, <1>1, PTL

===============================================================================
