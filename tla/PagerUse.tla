------------------------------ MODULE PagerUse ------------------------------
(***************************************************************************)
(* PagerUSE: a page in the browser loads scenarios and sends the student's *)
(* commands, several at a time if the student is quick; one node process   *)
(* serves them, each in an async handler that gives way where it awaits.   *)
(* Answers may arrive in any order.  A handler that throws ends the        *)
(* process: express 4 does not catch what an async handler throws.         *)
(*                                                                         *)
(* A scenario is the name of its file; the lines of an output are one.     *)
(***************************************************************************)
EXTENDS Integers, Sequences

CONSTANTS
  Files,          \* the names of the *.json files in scenarios/
  Readable,       \* those that can be read and parsed
  First,          \* the first of them in the list, which the page selects
  id,             \* file -> the "id" in it, a string
  Commands,       \* the commands a student types
  allow,          \* file -> the commands its policy lets through; its
                  \* patterns compile
  mode,           \* file -> "mock", "none" without an API key, or "remote"
  None,           \* no scenario
  MaxRequests     \* bound: requests the page sends

ASSUME PagerUseAssumption ==
  /\ Readable \subseteq Files
  /\ First \in Files
  /\ None \notin Files
  /\ allow \in [Readable -> SUBSET Commands]
  /\ mode \in [Readable -> {"mock", "none", "remote"}]
  /\ MaxRequests \in Nat \ {0, 1}

VARIABLES
  selected,       \* scenarioSelect.value, None until the list has arrived
  scenario,       \* the page's scenario
  termOut,        \* the lines of the terminal
  requests,       \* the requests of the page, in the order they are sent
  server,         \* "up" or "down"
  cleared         \* history: requests sent when termOut was last cleared

vars == <<selected, scenario, termOut, requests, server, cleared>>

Request(kind, of, input) ==
  [kind |-> kind, of |-> of, input |-> input, state |-> "sent", ok |-> FALSE]

Send(kind, of, input) ==
  /\ Len(requests) < MaxRequests
  /\ requests' = Append(requests, Request(kind, of, input))

Line(cls, n) == [cls |-> cls, n |-> n, of |-> requests[n].of,
                 input |-> requests[n].input]

(* init of the page: listScenarios. *)
Init ==
  /\ selected = None
  /\ scenario = None
  /\ termOut = <<>>
  /\ requests = <<Request("list", None, None)>>
  /\ server = "up"
  /\ cleared = 0

------------------------------------------------------------------------------
(* static/index.html *)

Select(f) ==
  /\ selected \notin {None, f}
  /\ selected' = f
  /\ UNCHANGED <<scenario, termOut, requests, server, cleared>>

ClickLoad ==
  /\ selected # None
  /\ Send("load", selected, None)
  /\ UNCHANGED <<selected, scenario, termOut, server, cleared>>

(* The command is sent for a scenario, and its line is in the terminal     *)
(* before the answer can be.                                               *)
Run(of, input) ==
  /\ scenario # None
  /\ Send("command", of, input)
  /\ termOut' = Append(termOut, [cls |-> "cmd", n |-> Len(requests'),
                                 of |-> scenario, input |-> input])
  /\ UNCHANGED <<selected, scenario, server, cleared>>

(* Bug: for the selected scenario, which need not be loaded. *)
RunSelected(input) == Run(selected, input)

runCommand(input) == Run(id[scenario], input)

(* The request is one a model is asked about. *)
Remote(n) == /\ requests[n].kind = "command"
             /\ requests[n].of \in Readable
             /\ mode[requests[n].of] = "remote"

Arrives(n, kind) ==
  /\ requests[n].kind = kind
  /\ requests[n].state = "answered"

Done(n) == [requests EXCEPT ![n].state = "done"]

(* The list arrives, and init goes on with loadScenario. *)
ListArrives(n) ==
  /\ Arrives(n, "list")
  /\ selected' = First
  /\ requests' = Append(Done(n), Request("load", First, None))
  /\ UNCHANGED <<scenario, termOut, server, cleared>>

(* loadScenario after its awaits, and renderScenario, whose two lines of a *)
(* header are left out.  loadScenario does not look at the status, so that *)
(* an answer without a scenario would be taken for one, and not rendered.  *)
ScenarioArrives(n) ==
  /\ Arrives(n, "load")
  /\ \/ /\ requests[n].ok
        /\ scenario' = requests[n].of
        /\ termOut' = <<>>
        /\ cleared' = Len(requests)
     \/ /\ ~requests[n].ok
        /\ scenario' = "undefined"
        /\ UNCHANGED <<termOut, cleared>>
  /\ requests' = Done(n)
  /\ UNCHANGED <<selected, server>>

(* runCommand after its awaits.  A model may answer with nothing to print. *)
OutputArrives(n) ==
  /\ Arrives(n, "command")
  /\ termOut' \in {Append(termOut, Line(IF requests[n].ok THEN "out" ELSE "err", n))}
                  \cup (IF Remote(n) /\ requests[n].ok THEN {termOut} ELSE {})
  /\ requests' = Done(n)
  /\ UNCHANGED <<selected, scenario, server, cleared>>

------------------------------------------------------------------------------
(* server.js and src/core.js *)

(* A request reaches the server, whose handler awaits its file. *)
Handle(n) ==
  /\ requests[n].state = "sent"
  /\ requests' = [requests EXCEPT ![n].state =
                    IF server = "up" THEN "reading" ELSE "lost"]
  /\ UNCHANGED <<selected, scenario, termOut, server, cleared>>

(* res.json; nothing else follows it in a handler. *)
Answer(n, ok) ==
  /\ requests' = [requests EXCEPT ![n].state = "answered", ![n].ok = ok]
  /\ UNCHANGED server

(* The handler of n throws, and the requests being handled are lost. *)
Throw ==
  /\ server' = "down"
  /\ requests' = [n \in DOMAIN requests |->
                    IF requests[n].state \in {"reading", "calling"}
                    THEN [requests[n] EXCEPT !.state = "lost"]
                    ELSE requests[n]]

validateCommand(input, policy) == input \in policy

(* callLlm: at once, or after a request of its own. *)
callLlm(n) ==
  IF Remote(n)
  THEN /\ requests' = [requests EXCEPT ![n].state = "calling"]
       /\ UNCHANGED server
  ELSE Answer(n, TRUE)

Resume(n, state) ==
  /\ requests[n].state = state
  /\ UNCHANGED <<selected, scenario, termOut, cleared>>

(* Bugs: a command refused is not answered; it throws.                     *)
Post(n, Refuse) ==
  /\ requests[n].kind = "command"
  /\ Resume(n, "reading")
  /\ IF requests[n].of \notin Readable THEN Throw
     ELSE IF validateCommand(requests[n].input, allow[requests[n].of])
     THEN callLlm(n)
     ELSE Refuse

PostSilent(n) == Post(n, UNCHANGED <<requests, server>>)

PostThrows(n) == Post(n, Throw)

(* GET /api/scenarios, GET /api/scenario/:id and POST /api/command. *)
GetScenarios(n) ==
  /\ requests[n].kind = "list"
  /\ Resume(n, "reading")
  /\ Answer(n, TRUE)

GetScenario(n) ==
  /\ requests[n].kind = "load"
  /\ Resume(n, "reading")
  /\ IF requests[n].of \in Readable THEN Answer(n, TRUE) ELSE Throw

PostCommand(n) == Post(n, Answer(n, FALSE))

(* The model answers, if only with an error status, or cannot be reached. *)
LlmReplies(n) == Resume(n, "calling") /\ Answer(n, TRUE)

LlmFails(n) == Resume(n, "calling") /\ Throw

(* npm start, again. *)
Restart ==
  /\ server = "down"
  /\ server' = "up"
  /\ UNCHANGED <<selected, scenario, termOut, requests, cleared>>

------------------------------------------------------------------------------
Student ==
  \/ \E f \in Files : Select(f)
  \/ ClickLoad
  \/ \E input \in Commands : runCommand(input)

Page(n) == ListArrives(n) \/ ScenarioArrives(n) \/ OutputArrives(n)

Server(n) == Handle(n) \/ GetScenarios(n) \/ GetScenario(n) \/ PostCommand(n)

Next ==
  \/ Student
  \/ Restart
  \/ \E n \in DOMAIN requests :
       Page(n) \/ Server(n) \/ LlmReplies(n) \/ LlmFails(n)

(* The browser and the server run on: while a request can move, one does.  *)
(* That a model answers, or that anyone restarts the server, is not        *)
(* assumed: there is no timeout.                                           *)
Spec ==
  /\ Init /\ [][Next]_vars
  /\ WF_vars(\E n \in DOMAIN requests : Page(n) \/ Server(n))

------------------------------------------------------------------------------
(* Properties. *)

(* What the terminal shows is evidence about the scenario on the page: an  *)
(* answer stands below its command and comes from the scenario loaded, and *)
(* an output is of a command its policy lets through.  The exception is an *)
(* answer to a command that was entered before the last load.  The page    *)
(* does not look at the status of what it loads, but has only scenarios    *)
(* that can be read.                                                       *)
Transcript ==
  /\ scenario \in Readable \cup {None}
  /\ \A k \in DOMAIN termOut : LET line == termOut[k] IN
       line.cls # "cmd" /\ line.n > cleared =>
         /\ line.of = id[scenario]
         /\ \E j \in 1 .. k - 1 : /\ termOut[j].cls = "cmd"
                                  /\ termOut[j].n = line.n
                                  /\ termOut[j].of = scenario
                                  /\ termOut[j].input = line.input
         /\ \A j \in DOMAIN termOut \ {k} :
              termOut[j].n = line.n => termOut[j].cls = "cmd"
         /\ line.cls = "out" => line.input \in allow[line.of]

(* Nothing a student types ends the server: only a scenario file that does *)
(* not parse or bears another id than its name, or a model out of reach.   *)
ServerSurvives ==
  server = "down" =>
    \E n \in DOMAIN requests :
      requests[n].kind # "list" /\ (requests[n].of \notin Readable \/ Remote(n))

(* Without a model to wait for, every command is answered, or lost with    *)
(* the server, and every load too: of the requests the page sends, which   *)
(* are no more than MaxRequests, none is in flight for ever.               *)
CommandEnds ==
  <>[](\A n \in DOMAIN requests :
         ~Remote(n) => requests[n].state \in {"lost", "done"})

=============================================================================
