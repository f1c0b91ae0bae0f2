-------------------------- MODULE AgentSandboxProofs --------------------------
(***************************************************************************)
(* Theorems about AgentSandbox, for every number of sessions, every policy *)
(* and every stream of requests: what the audit log says holds at whatever *)
(* point a session is interrupted, killed or left by an exception.         *)
(***************************************************************************)
EXTENDS AgentSandbox, FiniteSetTheorems, TLAPS

------------------------------------------------------------------------------
(* A log l, as one session s reads it.  c is the session's request_counter *)
(* and here is its pc.                                                     *)

Decisions == {"ALLOWED", "BLOCKED"}
Outcomes == {"EXECUTED", "ERROR"}
InCall == {"allowed", "tool", "failed"}

(* Entry n of log l is one of s, of a kind in D. *)
Mine(l, n, s, D) == l[n].session = s /\ l[n].decision \in D

(* Ids come from request_counter. *)
IdsCounted(l, s, c) ==
  \A n \in DOMAIN l : Mine(l, n, s, Decisions \cup Outcomes) => l[n].id <= c

OneDecision(l, s) ==
  \A m, n \in DOMAIN l :
    Mine(l, m, s, Decisions) /\ Mine(l, n, s, Decisions) /\ l[m].id = l[n].id
      => m = n

OneOutcome(l, s) ==
  \A m, n \in DOMAIN l :
    Mine(l, m, s, Outcomes) /\ Mine(l, n, s, Outcomes) /\ l[m].id = l[n].id
      => m = n

OutcomeOfAllowed(l, s) ==
  \A n \in DOMAIN l : Mine(l, n, s, Outcomes) =>
    \E m \in DOMAIN l : Mine(l, m, s, {"ALLOWED"}) /\ l[m].id = l[n].id /\ m < n

EndIsLast(l, s) ==
  \A e, n \in DOMAIN l : Mine(l, e, s, {"END"}) /\ l[n].session = s => n <= e

EndIsClosed(l, s, here) ==
  \A n \in DOMAIN l : Mine(l, n, s, {"END"}) => here = "closed"

(* The call a session is in has its ALLOWED and no outcome yet. *)
InFlight(l, s, c, here) ==
  here \in InCall =>
    /\ \E n \in DOMAIN l : Mine(l, n, s, {"ALLOWED"}) /\ l[n].id = c
    /\ \A n \in DOMAIN l : Mine(l, n, s, Outcomes) => l[n].id # c

GoodLog(l, s, c, here) ==
  /\ IdsCounted(l, s, c)
  /\ OneDecision(l, s)
  /\ OneOutcome(l, s)
  /\ OutcomeOfAllowed(l, s)
  /\ EndIsLast(l, s)
  /\ EndIsClosed(l, s, here)
  /\ InFlight(l, s, c, here)

LEMMA AppendEntry ==
  ASSUME NEW l \in Seq(Entry), NEW e \in Entry
  PROVE  /\ Append(l, e) \in Seq(Entry)
         /\ Len(l) + 1 \in Nat
         /\ DOMAIN Append(l, e) = DOMAIN l \cup {Len(l) + 1}
         /\ Append(l, e)[Len(l) + 1] = e
         /\ \A n \in DOMAIN l : /\ Append(l, e)[n] = l[n]
                                /\ l[n] \in Entry
                                /\ n \in Nat /\ n < Len(l) + 1
  OBVIOUS

(* The ids of the entries are numbers. *)
LEMMA EntryIds ==
  ASSUME NEW l \in Seq(Entry)
  PROVE  \A n \in DOMAIN l : l[n].id \in Nat /\ n \in Nat
  <1>1. \A n \in DOMAIN l : l[n] \in Entry /\ n \in Nat
    OBVIOUS
  <1> QED
    BY <1>1 DEF Entry

(* What another session writes leaves the log of s as it is. *)
LEMMA OthersLog ==
  ASSUME NEW l \in Seq(Entry), NEW e \in Entry, NEW s, NEW c, NEW here,
         e.session # s, GoodLog(l, s, c, here)
  PROVE  GoodLog(Append(l, e), s, c, here)
  <1> DEFINE k == Len(l) + 1
             l2 == Append(l, e)
  <1>1. /\ DOMAIN l2 = DOMAIN l \cup {k}
        /\ l2[k].session # s
        /\ \A n \in DOMAIN l : l2[n] = l[n]
    BY AppendEntry
  <1> HIDE DEF k, l2
  <1>2. \A n \in DOMAIN l2 : l2[n].session = s => n \in DOMAIN l /\ l2[n] = l[n]
    BY <1>1
  <1>3. IdsCounted(l2, s, c) /\ OneDecision(l2, s) /\ OneOutcome(l2, s)
    BY <1>2 DEF GoodLog, IdsCounted, OneDecision, OneOutcome, Mine
  <1>4. OutcomeOfAllowed(l2, s)
    BY <1>1, <1>2 DEF GoodLog, OutcomeOfAllowed, Mine
  <1>5. EndIsLast(l2, s) /\ EndIsClosed(l2, s, here)
    BY <1>2 DEF GoodLog, EndIsLast, EndIsClosed, Mine
  <1>6. InFlight(l2, s, c, here)
    BY <1>1, <1>2 DEF GoodLog, InFlight, Mine
  <1> QED
    BY <1>3, <1>4, <1>5, <1>6 DEF GoodLog, l2

(* A step that logs nothing: the session must not enter a call. *)
LEMMA QuietLog ==
  ASSUME NEW l, NEW s, NEW c, NEW here, NEW there, GoodLog(l, s, c, here),
         here # "closed", there \in InCall => here \in InCall
  PROVE  GoodLog(l, s, c, there)
  BY DEF GoodLog, EndIsClosed, InFlight

(* The entries a session writes about itself. *)
LEMMA FrameLog ==
  ASSUME NEW l \in Seq(Entry), NEW s \in Sessions, NEW c \in Nat, NEW here,
         NEW there \in {"idle", "closed"}, NEW e \in Entry,
         e.session = s, e.decision \in {"START", "END"},
         GoodLog(l, s, c, here), here # "closed",
         e.decision = "END" => there = "closed"
  PROVE  GoodLog(Append(l, e), s, c, there)
  <1> DEFINE k == Len(l) + 1
             l2 == Append(l, e)
  <1>1. /\ DOMAIN l2 = DOMAIN l \cup {k}
        /\ l2[k].session = s /\ l2[k].decision = e.decision
        /\ \A n \in DOMAIN l : l2[n] = l[n] /\ n \in Nat /\ n < k
        /\ k \in Nat
    BY AppendEntry
  <1>2. \A n \in DOMAIN l : ~Mine(l, n, s, {"END"})
    BY DEF GoodLog, EndIsClosed
  <1> HIDE DEF k, l2
  <1>3. \A n \in DOMAIN l2 : Mine(l2, n, s, Decisions \cup Outcomes) =>
                              n \in DOMAIN l /\ l2[n] = l[n]
    BY <1>1 DEF Mine, Decisions, Outcomes
  <1>4. /\ IdsCounted(l2, s, c)
        /\ OneDecision(l2, s)
        /\ OneOutcome(l2, s)
    BY <1>3 DEF GoodLog, IdsCounted, OneDecision, OneOutcome, Mine
  <1>5. OutcomeOfAllowed(l2, s)
    BY <1>1, <1>3 DEF GoodLog, OutcomeOfAllowed, Mine
  <1>6. EndIsLast(l2, s) /\ EndIsClosed(l2, s, there)
    BY <1>1, <1>2 DEF EndIsLast, EndIsClosed, Mine
  <1>7. InFlight(l2, s, c, there)
    BY DEF InFlight, InCall
  <1> QED
    BY <1>4, <1>5, <1>6, <1>7 DEF GoodLog, l2

(* The decision of a call has a new id, which no entry has had. *)
LEMMA DecisionLog ==
  ASSUME NEW l \in Seq(Entry), NEW s \in Sessions, NEW c \in Nat, NEW here,
         NEW there, NEW e \in Entry,
         e.session = s, e.decision \in Decisions, e.id = c + 1,
         GoodLog(l, s, c, here), here # "closed",
         there \in InCall => e.decision = "ALLOWED"
  PROVE  GoodLog(Append(l, e), s, c + 1, there)
  <1> DEFINE k == Len(l) + 1
             l2 == Append(l, e)
  <1>1. /\ DOMAIN l2 = DOMAIN l \cup {k}
        /\ l2[k].id = c + 1
        /\ l2[k].session = s /\ l2[k].decision = e.decision
        /\ \A n \in DOMAIN l : l2[n] = l[n] /\ n \in Nat /\ n < k
        /\ k \in Nat /\ k \notin DOMAIN l
    BY AppendEntry
  <1>2. \A n \in DOMAIN l : l[n].id \in Nat
    BY EntryIds
  <1>3. \A n \in DOMAIN l : ~Mine(l, n, s, {"END"})
    BY DEF GoodLog, EndIsClosed
  <1> HIDE DEF k, l2
  <1>4. \A n \in DOMAIN l : Mine(l, n, s, Decisions \cup Outcomes) =>
                              l[n].id <= c /\ l[n].id # c + 1
    BY <1>2 DEF GoodLog, IdsCounted
  <1>5. \A n \in DOMAIN l2 : n = k \/ (n \in DOMAIN l /\ l2[n] = l[n])
    BY <1>1
  <1>6. IdsCounted(l2, s, c + 1)
    BY <1>1, <1>2, <1>4, <1>5 DEF IdsCounted, Mine
  <1>7. OneDecision(l2, s)
    BY <1>1, <1>4, <1>5 DEF GoodLog, OneDecision, Mine
  <1>8. \A n \in DOMAIN l2 : Mine(l2, n, s, Outcomes) =>
          n \in DOMAIN l /\ l2[n] = l[n] /\ Mine(l, n, s, Outcomes)
    BY <1>1 DEF Mine, Decisions, Outcomes
  <1>9. OneOutcome(l2, s)
    BY <1>8 DEF GoodLog, OneOutcome
  <1>10. OutcomeOfAllowed(l2, s)
    BY <1>1, <1>8 DEF GoodLog, OutcomeOfAllowed, Mine
  <1>11. EndIsLast(l2, s) /\ EndIsClosed(l2, s, there)
    BY <1>1, <1>3, <1>5 DEF EndIsLast, EndIsClosed, Mine, Decisions
  <1>12. InFlight(l2, s, c + 1, there)
    <2>1. \A n \in DOMAIN l2 : Mine(l2, n, s, Outcomes) => l2[n].id # c + 1
      BY <1>4, <1>8 DEF Mine
    <2>2. there \in InCall => Mine(l2, k, s, {"ALLOWED"})
      BY <1>1 DEF Mine
    <2> QED
      BY <1>1, <2>1, <2>2 DEF InFlight
  <1> QED
    BY <1>6, <1>7, <1>9, <1>10, <1>11, <1>12 DEF GoodLog, l2

(* The outcome of the call the session is in is its first. *)
LEMMA OutcomeLog ==
  ASSUME NEW l \in Seq(Entry), NEW s \in Sessions, NEW c \in Nat,
         NEW here \in InCall, NEW e \in Entry,
         e.session = s, e.decision \in Outcomes, e.id = c,
         GoodLog(l, s, c, here)
  PROVE  GoodLog(Append(l, e), s, c, "idle")
  <1> DEFINE k == Len(l) + 1
             l2 == Append(l, e)
  <1>1. /\ DOMAIN l2 = DOMAIN l \cup {k}
        /\ l2[k].id = c
        /\ l2[k].session = s /\ l2[k].decision = e.decision
        /\ \A n \in DOMAIN l : l2[n] = l[n] /\ n \in Nat /\ n < k
        /\ k \in Nat
    BY AppendEntry
  <1>2. /\ \A n \in DOMAIN l : ~Mine(l, n, s, {"END"})
        /\ \E n \in DOMAIN l : Mine(l, n, s, {"ALLOWED"}) /\ l[n].id = c
        /\ \A n \in DOMAIN l : Mine(l, n, s, Outcomes) => l[n].id # c
    BY DEF GoodLog, EndIsClosed, InFlight, InCall
  <1> HIDE DEF k, l2
  <1>3. \A n \in DOMAIN l2 : n = k \/ (n \in DOMAIN l /\ l2[n] = l[n])
    BY <1>1
  <1>4. IdsCounted(l2, s, c)
    BY <1>1, <1>3 DEF GoodLog, IdsCounted, Mine
  <1>5. \A n \in DOMAIN l2 : Mine(l2, n, s, Decisions) =>
          n \in DOMAIN l /\ l2[n] = l[n] /\ Mine(l, n, s, Decisions)
    BY <1>1 DEF Mine, Decisions, Outcomes
  <1>6. OneDecision(l2, s)
    BY <1>5 DEF GoodLog, OneDecision
  <1>7. OneOutcome(l2, s)
    BY <1>1, <1>2, <1>3 DEF GoodLog, OneOutcome, Mine
  <1>8. OutcomeOfAllowed(l2, s)
    BY <1>1, <1>2, <1>3 DEF GoodLog, OutcomeOfAllowed, Mine
  <1>9. EndIsLast(l2, s) /\ EndIsClosed(l2, s, "idle")
    BY <1>1, <1>2, <1>3 DEF EndIsLast, EndIsClosed, Mine, Outcomes
  <1>10. InFlight(l2, s, c, "idle")
    BY DEF InFlight, InCall
  <1> QED
    BY <1>4, <1>6, <1>7, <1>8, <1>9, <1>10 DEF GoodLog, l2

------------------------------------------------------------------------------
(* The inductive invariant.                                                *)

States == {"new", "idle", "checking", "limited", "allowed", "blocked", "tool",
           "failed", "raised", "closed", "killed"}

TypeOK ==
  /\ pc \in [Sessions -> States]
  /\ call_count \in [Sessions -> Nat]
  /\ allowed_count \in [Sessions -> Nat]
  /\ blocked_count \in [Sessions -> Nat]
  /\ error_count \in [Sessions -> Nat]
  /\ request_counter \in [Sessions -> Nat]
  /\ log \in Seq(Entry)
  /\ started \subseteq Sessions \X Nat

LogInv(s) == GoodLog(log, s, request_counter[s], pc[s])

(* How many entries of kind d session s has in log l. *)
Tally(l, s, d) ==
  Cardinality({n \in DOMAIN l : l[n].session = s /\ l[n].decision = d})

(* The call being handled is in the one count and not yet in the other. *)
Lag(here, places) == IF here \in places THEN 1 ELSE 0

(* The counts of a session against those of its log: execute counts a call *)
(* before it logs it, logs an ALLOWED before it counts it, and counts an   *)
(* error before it logs it.                                                *)
CountsBound(here, calls, allowed, blocked, errors, A, B, E) ==
  /\ A + B + Lag(here, {"checking", "limited"}) <= calls
  /\ allowed + blocked + Lag(here, {"checking", "allowed", "blocked"}) <= calls
  /\ allowed + Lag(here, {"allowed"}) <= A
  /\ E + Lag(here, {"failed"}) <= errors

CountsExact(here, calls, allowed, blocked, errors, A, B, E) ==
  /\ A + B + Lag(here, {"checking", "limited"}) = calls
  /\ allowed + blocked + Lag(here, {"checking", "allowed", "blocked"}) = calls
  /\ allowed + Lag(here, {"allowed"}) = A
  /\ E + Lag(here, {"failed"}) = errors

(* A session that no interrupt or exception has cut a call short of. *)
Ended == {"raised", "closed", "killed"}

CountsInv(s) ==
  /\ CountsBound(pc[s], call_count[s], allowed_count[s], blocked_count[s],
                 error_count[s], Tally(log, s, "ALLOWED"),
                 Tally(log, s, "BLOCKED"), Tally(log, s, "ERROR"))
  /\ s \notin Interactive /\ pc[s] \notin Ended =>
       CountsExact(pc[s], call_count[s], allowed_count[s], blocked_count[s],
                   error_count[s], Tally(log, s, "ALLOWED"),
                   Tally(log, s, "BLOCKED"), Tally(log, s, "ERROR"))

StartedBy(s) == {t \in started : t[1] = s}

(* A tool is started only for a call that is within the limit, and each    *)
(* start is one of the calls.                                              *)
LimitInv(s) ==
  /\ pc[s] = "allowed" => call_count[s] <= policy.max_calls_per_session
  /\ allowed_count[s] <= policy.max_calls_per_session
  /\ IsFiniteSet(StartedBy(s))
  /\ Cardinality(StartedBy(s)) <= allowed_count[s]

StartedLogged ==
  \A t \in started :
    \E n \in DOMAIN log : Mine(log, n, t[1], {"ALLOWED"}) /\ log[n].id = t[2]

IInv ==
  /\ TypeOK
  /\ StartedLogged
  /\ \A s \in Sessions : LogInv(s) /\ CountsInv(s) /\ LimitInv(s)

LEMMA TallyNat ==
  ASSUME NEW l \in Seq(Entry), NEW s, NEW d
  PROVE  Tally(l, s, d) \in Nat
  <1> DEFINE S == {n \in DOMAIN l : l[n].session = s /\ l[n].decision = d}
  <1>1. IsFiniteSet(DOMAIN l)
    <2>1. DOMAIN l = 1 .. Len(l) /\ Len(l) \in Int
      OBVIOUS
    <2>2. IsFiniteSet(1 .. Len(l))
      BY <2>1, FS_Interval
    <2> QED
      BY <2>1, <2>2
  <1>2. IsFiniteSet(S)
    BY <1>1, FS_Subset
  <1>3. Cardinality(S) \in Nat
    BY <1>2, FS_CardinalityType
  <1> QED
    BY <1>3 DEF Tally

LEMMA TallyAppend ==
  ASSUME NEW l \in Seq(Entry), NEW e \in Entry, NEW s, NEW d
  PROVE  Tally(Append(l, e), s, d) =
           IF e.session = s /\ e.decision = d THEN Tally(l, s, d) + 1
                                              ELSE Tally(l, s, d)
  <1> DEFINE k == Len(l) + 1
             l2 == Append(l, e)
             S == {n \in DOMAIN l : l[n].session = s /\ l[n].decision = d}
             S2 == {n \in DOMAIN l2 : l2[n].session = s /\ l2[n].decision = d}
  <1>1. /\ DOMAIN l2 = DOMAIN l \cup {k}
        /\ l2[k] = e
        /\ \A n \in DOMAIN l : l2[n] = l[n] /\ n # k
    BY AppendEntry
  <1>2. IsFiniteSet(S)
    <2>1. DOMAIN l = 1 .. Len(l) /\ Len(l) \in Int
      OBVIOUS
    <2>2. IsFiniteSet(DOMAIN l)
      BY <2>1, FS_Interval
    <2> QED
      BY <2>2, FS_Subset
  <1> HIDE DEF k, l2
  <1>3. /\ k \notin S
        /\ e.session = s /\ e.decision = d => S2 = S \cup {k}
        /\ ~(e.session = s /\ e.decision = d) => S2 = S
    BY <1>1
  <1> HIDE DEF S, S2
  <1>4. k \notin S => Cardinality(S \cup {k}) = Cardinality(S) + 1
    BY <1>2, FS_AddElement
  <1> QED
    BY <1>3, <1>4 DEF Tally, S, S2, l2

------------------------------------------------------------------------------
(* A step of one session, as the others see it.                            *)

SessionStep(s) ==
  \/ Open(s) \/ Execute(s) \/ Executed(s) \/ Failed(s) \/ TimedOut(s)
  \/ Raise(s) \/ Interrupt(s) \/ Close(s) \/ Kill(s)

Same(t) ==
  /\ pc'[t] = pc[t]
  /\ call_count'[t] = call_count[t]
  /\ allowed_count'[t] = allowed_count[t]
  /\ blocked_count'[t] = blocked_count[t]
  /\ error_count'[t] = error_count[t]
  /\ request_counter'[t] = request_counter[t]

Writes(s) == log' = log \/ \E e \in Entry : e.session = s /\ log' = Append(log, e)

OwnStep(s) ==
  /\ TypeOK'
  /\ \A t \in Sessions \ {s} : Same(t)
  /\ Writes(s)
  /\ started' = started \/ started' = started \cup {ToolOf(s)}

LEMMA EntryOf ==
  ASSUME NEW s \in Sessions, NEW id \in Nat,
         NEW d \in {"START", "ALLOWED", "BLOCKED", "EXECUTED", "ERROR", "END"}
  PROVE  [session |-> s, id |-> id, decision |-> d] \in Entry
  BY DEF Entry

(* What a step writes is an entry of the session's own. *)
LEMMA WriteOwn ==
  ASSUME TypeOK, NEW s \in Sessions, NEW id \in Nat,
         NEW d \in {"START", "ALLOWED", "BLOCKED", "EXECUTED", "ERROR", "END"},
         _write_entry(s, id, d)
  PROVE  Writes(s) /\ log' \in Seq(Entry)
  <1> DEFINE e == [session |-> s, id |-> id, decision |-> d]
  <1>1. e \in Entry /\ e.session = s
    BY EntryOf
  <1>2. log' = Append(log, e)
    BY DEF _write_entry
  <1> HIDE DEF e
  <1> QED
    BY <1>1, <1>2 DEF Writes, TypeOK

LEMMA SessionStepOwn ==
  ASSUME TypeOK, NEW s \in Sessions, SessionStep(s)
  PROVE  OwnStep(s)
  <1> USE DEF TypeOK, States
  <1>1. request_counter[s] \in Nat /\ request_counter[s] + 1 \in Nat
    OBVIOUS
  <1>2. CASE Open(s)
    <2>1. Writes(s) /\ log' \in Seq(Entry)
      BY <1>2, WriteOwn DEF Open
    <2> QED
      BY <1>2, <2>1 DEF Open, At, OwnStep, Same, counts
  <1>3. CASE Receive(s)
    BY <1>3 DEF Receive, At, Inc, OwnStep, Same, Writes
  <1>4. CASE RateLimited(s)
    <2>1. CASE /\ At(s, "checking", "limited")
               /\ blocked_count' = Inc(blocked_count, s)
               /\ UNCHANGED <<call_count, allowed_count, error_count,
                              request_counter, log, alive, started>>
      BY <2>1 DEF At, Inc, OwnStep, Same, Writes
    <2>2. CASE /\ At(s, "limited", "idle")
               /\ log_decision(s, FALSE)
               /\ UNCHANGED <<counts, alive, started>>
      <3>1. Writes(s) /\ log' \in Seq(Entry)
        BY <1>1, <2>2, WriteOwn DEF log_decision
      <3> QED
        BY <1>1, <2>2, <3>1 DEF log_decision, At, OwnStep, Same, counts
    <2> QED
      BY <1>4, <2>1, <2>2 DEF RateLimited
  <1>5. CASE \E request \in Requests : Decide(s, request)
    <2> PICK request \in Requests : Decide(s, request)
      BY <1>5
    <2>1. CASE At(s, "checking", "raised") /\ UNCHANGED <<request_counter, log>>
      BY <2>1 DEF Decide, At, OwnStep, Same, Writes, counts
    <2>2. CASE /\ log_decision(s, validate_tool_call(request))
               /\ At(s, "checking",
                     IF validate_tool_call(request) THEN "allowed" ELSE "blocked")
      <3>1. Writes(s) /\ log' \in Seq(Entry)
        BY <1>1, <2>2, WriteOwn DEF log_decision
      <3> QED
        BY <1>1, <2>2, <3>1 DEF Decide, log_decision, At, OwnStep, Same, counts
    <2> QED
      BY <2>1, <2>2 DEF Decide
  <1>6. CASE Blocked(s)
    BY <1>6 DEF Blocked, At, Inc, OwnStep, Same, Writes
  <1>7. CASE StartTool(s)
    BY <1>7 DEF StartTool, ToolOf, At, Inc, OwnStep, Same, Writes
  <1>8. CASE LogError(s)
    <2>1. Writes(s) /\ log' \in Seq(Entry)
      BY <1>1, <1>8, WriteOwn DEF LogError, log_execution
    <2> QED
      BY <1>8, <2>1 DEF LogError, At, OwnStep, Same, counts
  <1>9. CASE Executed(s)
    <2>1. Writes(s) /\ log' \in Seq(Entry)
      BY <1>1, <1>9, WriteOwn DEF Executed, log_execution
    <2> QED
      BY <1>9, <2>1 DEF Executed, At, OwnStep, Same, counts
  <1>10. CASE Failed(s)
    BY <1>10 DEF Failed, At, Inc, OwnStep, Same, Writes
  <1>11. CASE TimedOut(s)
    BY <1>11 DEF TimedOut, At, Inc, OwnStep, Same, Writes
  <1>12. CASE Raise(s)
    BY <1>12 DEF Raise, At, OwnStep, Same, Writes, counts
  <1>13. CASE Interrupt(s)
    BY <1>13 DEF Interrupt, OwnStep, Same, Writes, counts
  <1>14. CASE Close(s)
    <2>1. Writes(s) /\ log' \in Seq(Entry)
      BY <1>14, WriteOwn DEF Close, close
    <2> QED
      BY <1>14, <2>1 DEF Close, OwnStep, Same, counts
  <1>15. CASE Kill(s)
    BY <1>15 DEF Kill, OwnStep, Same, Writes, counts
  <1> QED
    BY <1>2, <1>3, <1>4, <1>5, <1>6, <1>7, <1>8, <1>9, <1>10, <1>11, <1>12,
       <1>13, <1>14, <1>15 DEF SessionStep, Execute


(* What the others keep of their invariants. *)
LEMMA OthersKept ==
  ASSUME IInv, NEW s \in Sessions, NEW t \in Sessions \ {s}, OwnStep(s)
  PROVE  LogInv(t)' /\ CountsInv(t)' /\ LimitInv(t)'
  <1>1. LogInv(t) /\ CountsInv(t) /\ LimitInv(t) /\ Same(t) /\ log \in Seq(Entry)
    BY DEF IInv, TypeOK, OwnStep
  <1>2. LogInv(t)'
    <2>1. GoodLog(log', t, request_counter[t], pc[t])
      BY <1>1, OthersLog DEF OwnStep, Writes, LogInv
    <2> QED
      BY <1>1, <2>1 DEF LogInv, Same
  <1>3. CountsInv(t)'
    <2>1. \A d : Tally(log', t, d) = Tally(log, t, d)
      <3>1. CASE log' = log
        BY <3>1
      <3>2. CASE \E e \in Entry : e.session = s /\ log' = Append(log, e)
        <4> PICK e \in Entry : e.session = s /\ log' = Append(log, e)
          BY <3>2
        <4>1. e.session # t
          OBVIOUS
        <4>2. \A d : Tally(Append(log, e), t, d) = Tally(log, t, d)
          BY <1>1, <4>1, TallyAppend
        <4> QED
          BY <4>2
      <3> QED
        BY <3>1, <3>2 DEF OwnStep, Writes
    <2> QED
      BY <1>1, <2>1 DEF CountsInv, Same
  <1>4. LimitInv(t)'
    <2>1. StartedBy(t)' = StartedBy(t)
      BY DEF StartedBy, OwnStep, ToolOf
    <2> QED
      BY <1>1, <2>1 DEF LimitInv, Same
  <1> QED
    BY <1>2, <1>3, <1>4

LEMMA StartedStaysLogged ==
  ASSUME IInv, NEW s \in Sessions, OwnStep(s), started' = started
  PROVE  StartedLogged'
  <1>1. \A n \in DOMAIN log : n \in DOMAIN log' /\ log'[n] = log[n]
    <2>1. CASE log' = log
      BY <2>1
    <2>2. CASE \E e \in Entry : e.session = s /\ log' = Append(log, e)
      <3> PICK e \in Entry : e.session = s /\ log' = Append(log, e)
        BY <2>2
      <3>1. log \in Seq(Entry)
        BY DEF IInv, TypeOK
      <3>2. /\ DOMAIN Append(log, e) = DOMAIN log \cup {Len(log) + 1}
            /\ \A n \in DOMAIN log : Append(log, e)[n] = log[n]
        BY <3>1, AppendEntry
      <3> QED
        BY <3>2
    <2> QED
      BY <2>1, <2>2 DEF OwnStep, Writes
  <1> QED
    BY <1>1 DEF IInv, StartedLogged, Mine

(* A step of a session that logs nothing and starts nothing. *)
LEMMA QuietStep ==
  ASSUME IInv, NEW s \in Sessions, OwnStep(s),
         UNCHANGED <<log, request_counter, started>>, pc[s] # "closed",
         pc'[s] \in InCall => pc[s] \in InCall
  PROVE  LogInv(s)' /\ StartedLogged'
  <1>1. LogInv(s)'
    BY QuietLog DEF IInv, LogInv
  <1> QED
    BY <1>1, StartedStaysLogged


(* The numbers the counts of a session are compared with. *)
LEMMA Tallies ==
  ASSUME TypeOK, NEW s \in Sessions
  PROVE  /\ Tally(log, s, "ALLOWED") \in Nat
         /\ Tally(log, s, "BLOCKED") \in Nat
         /\ Tally(log, s, "ERROR") \in Nat
         /\ call_count[s] \in Nat /\ allowed_count[s] \in Nat
         /\ blocked_count[s] \in Nat /\ error_count[s] \in Nat
         /\ request_counter[s] \in Nat /\ request_counter[s] + 1 \in Nat
  BY TallyNat DEF TypeOK

LEMMA WriteTallies ==
  ASSUME TypeOK, NEW s \in Sessions, NEW id \in Nat,
         NEW d \in {"START", "ALLOWED", "BLOCKED", "EXECUTED", "ERROR", "END"},
         _write_entry(s, id, d)
  PROVE  /\ Tally(log', s, "ALLOWED") =
              Tally(log, s, "ALLOWED") + (IF d = "ALLOWED" THEN 1 ELSE 0)
         /\ Tally(log', s, "BLOCKED") =
              Tally(log, s, "BLOCKED") + (IF d = "BLOCKED" THEN 1 ELSE 0)
         /\ Tally(log', s, "ERROR") =
              Tally(log, s, "ERROR") + (IF d = "ERROR" THEN 1 ELSE 0)
  <1> DEFINE e == [session |-> s, id |-> id, decision |-> d]
  <1>1. e \in Entry /\ e.session = s /\ e.decision = d
    BY EntryOf
  <1>2. log' = Append(log, e) /\ log \in Seq(Entry)
    BY DEF _write_entry, TypeOK
  <1> HIDE DEF e
  <1>3. \A k : Tally(log', s, k) = IF k = d THEN Tally(log, s, k) + 1
                                           ELSE Tally(log, s, k)
    BY <1>1, <1>2, TallyAppend
  <1>4. Tally(log, s, "ALLOWED") \in Nat /\ Tally(log, s, "BLOCKED") \in Nat
          /\ Tally(log, s, "ERROR") \in Nat
    BY Tallies
  <1> QED
    BY <1>3, <1>4

(* A step that starts no tool leaves what is started within the limit. *)
LEMMA LimitStep ==
  ASSUME IInv, NEW s \in Sessions, UNCHANGED <<allowed_count, started>>,
         pc'[s] = "allowed" => call_count'[s] <= policy.max_calls_per_session
  PROVE  LimitInv(s)'
  BY DEF IInv, LimitInv, StartedBy

------------------------------------------------------------------------------
(* Each step of a session keeps its invariants.                            *)

Kept(s) == LogInv(s)' /\ CountsInv(s)' /\ LimitInv(s)' /\ StartedLogged'

LEMMA OpenKept ==
  ASSUME IInv, NEW s \in Sessions, Open(s)
  PROVE  Kept(s)
  <1> DEFINE e == [session |-> s, id |-> 0, decision |-> "START"]
  <1>1. OwnStep(s) /\ TypeOK /\ log \in Seq(Entry) /\ request_counter[s] \in Nat
    BY SessionStepOwn, Tallies DEF IInv, SessionStep, TypeOK
  <1>2. log' = Append(log, e) /\ e \in Entry
    BY EntryOf DEF Open, _write_entry
  <1>3. pc[s] = "new" /\ pc'[s] = "idle"
    BY DEF Open, At, IInv, TypeOK
  <1>4. LogInv(s)'
    <2>1. GoodLog(Append(log, e), s, request_counter[s], "idle")
      BY <1>1, <1>2, <1>3, FrameLog DEF IInv, LogInv
    <2> QED
      BY <1>2, <1>3, <2>1 DEF LogInv, Open
  <1>5. CountsInv(s)'
    <2>1. /\ Tally(log', s, "ALLOWED") = Tally(log, s, "ALLOWED")
          /\ Tally(log', s, "BLOCKED") = Tally(log, s, "BLOCKED")
          /\ Tally(log', s, "ERROR") = Tally(log, s, "ERROR")
      BY <1>1, WriteTallies, Tallies DEF Open
    <2> QED
      BY <1>1, <1>3, <2>1, Tallies
      DEF IInv, CountsInv, CountsBound, CountsExact, Lag, Ended, Open, counts
  <1>6. LimitInv(s)' /\ StartedLogged'
    BY <1>1, <1>3, LimitStep, StartedStaysLogged DEF Open, counts
  <1> QED
    BY <1>4, <1>5, <1>6 DEF Kept

LEMMA ReceiveKept ==
  ASSUME IInv, NEW s \in Sessions, Receive(s)
  PROVE  Kept(s)
  <1>1. OwnStep(s) /\ TypeOK
    BY SessionStepOwn DEF IInv, SessionStep, Execute
  <1>2. /\ pc[s] = "idle" /\ pc'[s] = "checking"
        /\ call_count'[s] = call_count[s] + 1
    BY DEF Receive, At, Inc, IInv, TypeOK
  <1>3. LogInv(s)' /\ StartedLogged'
    BY <1>1, <1>2, QuietStep DEF Receive, InCall
  <1>4. CountsInv(s)'
    BY <1>1, <1>2, Tallies
    DEF IInv, CountsInv, CountsBound, CountsExact, Lag, Ended, Receive
  <1>5. LimitInv(s)'
    BY <1>2, LimitStep DEF Receive
  <1> QED
    BY <1>3, <1>4, <1>5 DEF Kept


(* The log after log_decision, of RateLimited and of Decide. *)
LEMMA DecisionStep ==
  ASSUME IInv, NEW s \in Sessions, NEW d \in Decisions, OwnStep(s),
         request_counter'[s] = request_counter[s] + 1,
         _write_entry(s, request_counter[s] + 1, d),
         pc[s] # "closed", pc'[s] \in InCall => d = "ALLOWED",
         started' = started
  PROVE  LogInv(s)' /\ StartedLogged'
  <1> DEFINE e == [session |-> s, id |-> request_counter[s] + 1, decision |-> d]
  <1>1. log \in Seq(Entry) /\ request_counter[s] \in Nat
          /\ request_counter[s] + 1 \in Nat
    BY DEF IInv, TypeOK
  <1>2. log' = Append(log, e) /\ e \in Entry /\ e.session = s
          /\ e.decision = d /\ e.id = request_counter[s] + 1
    BY <1>1, EntryOf DEF _write_entry, Decisions
  <1> HIDE DEF e
  <1>3. GoodLog(Append(log, e), s, request_counter[s] + 1, pc'[s])
    BY <1>1, <1>2, DecisionLog DEF IInv, LogInv
  <1> QED
    BY <1>2, <1>3, StartedStaysLogged DEF LogInv

LEMMA RateLimitedKept ==
  ASSUME IInv, NEW s \in Sessions, RateLimited(s)
  PROVE  Kept(s)
  <1>1. OwnStep(s) /\ TypeOK /\ CountsInv(s)
    BY SessionStepOwn DEF IInv, SessionStep, Execute
  <1>2. CASE /\ At(s, "checking", "limited")
             /\ blocked_count' = Inc(blocked_count, s)
             /\ UNCHANGED <<call_count, allowed_count, error_count,
                            request_counter, log, alive, started>>
    <2>1. /\ pc[s] = "checking" /\ pc'[s] = "limited"
          /\ blocked_count'[s] = blocked_count[s] + 1
      BY <1>1, <1>2 DEF At, Inc, TypeOK
    <2>2. LogInv(s)' /\ StartedLogged'
      BY <1>1, <1>2, <2>1, QuietStep DEF InCall
    <2>3. CountsInv(s)'
      BY <1>1, <1>2, <2>1, Tallies
      DEF CountsInv, CountsBound, CountsExact, Lag, Ended
    <2>4. LimitInv(s)'
      BY <1>2, <2>1, LimitStep
    <2> QED
      BY <2>2, <2>3, <2>4 DEF Kept
  <1>3. CASE /\ At(s, "limited", "idle")
             /\ log_decision(s, FALSE)
             /\ UNCHANGED <<counts, alive, started>>
    <2>1. /\ pc[s] = "limited" /\ pc'[s] = "idle"
          /\ request_counter'[s] = request_counter[s] + 1
          /\ _write_entry(s, request_counter[s] + 1, "BLOCKED")
      BY <1>1, <1>3 DEF At, log_decision, TypeOK
    <2>2. LogInv(s)' /\ StartedLogged'
      BY <1>1, <1>3, <2>1, DecisionStep DEF InCall, Decisions
    <2>3. /\ Tally(log', s, "ALLOWED") = Tally(log, s, "ALLOWED")
          /\ Tally(log', s, "BLOCKED") = Tally(log, s, "BLOCKED") + 1
          /\ Tally(log', s, "ERROR") = Tally(log, s, "ERROR")
      BY <1>1, <2>1, WriteTallies, Tallies
    <2>4. CountsInv(s)'
      BY <1>1, <1>3, <2>1, <2>3, Tallies
      DEF CountsInv, CountsBound, CountsExact, Lag, Ended, counts
    <2>5. LimitInv(s)'
      BY <1>3, <2>1, LimitStep DEF counts
    <2> QED
      BY <2>2, <2>4, <2>5 DEF Kept
  <1> QED
    BY <1>2, <1>3 DEF RateLimited

LEMMA DecideKept ==
  ASSUME IInv, NEW s \in Sessions, NEW request \in Requests, Decide(s, request)
  PROVE  Kept(s)
  <1>1. OwnStep(s) /\ TypeOK /\ CountsInv(s)
    BY SessionStepOwn DEF IInv, SessionStep, Execute
  <1>2. ~over_limit(s) /\ UNCHANGED <<counts, alive, started>>
    BY DEF Decide
  <1>3. call_count'[s] <= policy.max_calls_per_session
    BY <1>1, <1>2, Tallies, SandboxAssumption DEF over_limit, counts
  <1>4. LimitInv(s)'
    BY <1>2, <1>3, LimitStep DEF counts
  <1>5. CASE At(s, "checking", "raised") /\ UNCHANGED <<request_counter, log>>
    <2>1. pc[s] = "checking" /\ pc'[s] = "raised"
      BY <1>1, <1>5 DEF At, TypeOK
    <2>2. LogInv(s)' /\ StartedLogged'
      BY <1>1, <1>2, <1>5, <2>1, QuietStep DEF InCall
    <2>3. CountsInv(s)'
      BY <1>1, <1>2, <1>5, <2>1, Tallies
      DEF CountsInv, CountsBound, Lag, Ended, counts
    <2> QED
      BY <1>4, <2>2, <2>3 DEF Kept
  <1>6. CASE /\ log_decision(s, validate_tool_call(request))
             /\ At(s, "checking",
                   IF validate_tool_call(request) THEN "allowed" ELSE "blocked")
    <2> DEFINE d == IF validate_tool_call(request) THEN "ALLOWED" ELSE "BLOCKED"
    <2>1. /\ pc[s] = "checking"
          /\ \/ pc'[s] = "allowed" /\ d = "ALLOWED"
             \/ pc'[s] = "blocked" /\ d = "BLOCKED"
          /\ request_counter'[s] = request_counter[s] + 1
          /\ _write_entry(s, request_counter[s] + 1, d)
      BY <1>1, <1>6 DEF At, log_decision, TypeOK
    <2> HIDE DEF d
    <2>2. d \in Decisions
      BY <2>1 DEF Decisions
    <2>3. LogInv(s)' /\ StartedLogged'
      BY <1>1, <1>2, <2>1, <2>2, DecisionStep DEF InCall
    <2>4. /\ Tally(log', s, "ALLOWED") =
               Tally(log, s, "ALLOWED") + (IF d = "ALLOWED" THEN 1 ELSE 0)
          /\ Tally(log', s, "BLOCKED") =
               Tally(log, s, "BLOCKED") + (IF d = "BLOCKED" THEN 1 ELSE 0)
          /\ Tally(log', s, "ERROR") = Tally(log, s, "ERROR")
      BY <1>1, <2>1, WriteTallies, Tallies
    <2>5. CountsInv(s)'
      BY <1>1, <1>2, <2>1, <2>4, Tallies
      DEF CountsInv, CountsBound, CountsExact, Lag, Ended, counts
    <2> QED
      BY <1>4, <2>3, <2>5 DEF Kept
  <1> QED
    BY <1>5, <1>6 DEF Decide

LEMMA BlockedKept ==
  ASSUME IInv, NEW s \in Sessions, Blocked(s)
  PROVE  Kept(s)
  <1>1. OwnStep(s) /\ TypeOK /\ CountsInv(s)
    BY SessionStepOwn DEF IInv, SessionStep, Execute
  <1>2. /\ pc[s] = "blocked" /\ pc'[s] = "idle"
        /\ blocked_count'[s] = blocked_count[s] + 1
    BY <1>1 DEF Blocked, At, Inc, TypeOK
  <1>3. LogInv(s)' /\ StartedLogged'
    BY <1>1, <1>2, QuietStep DEF Blocked, InCall
  <1>4. CountsInv(s)'
    BY <1>1, <1>2, Tallies
    DEF CountsInv, CountsBound, CountsExact, Lag, Ended, Blocked
  <1>5. LimitInv(s)'
    BY <1>2, LimitStep DEF Blocked
  <1> QED
    BY <1>3, <1>4, <1>5 DEF Kept

LEMMA StartToolKept ==
  ASSUME IInv, NEW s \in Sessions, StartTool(s)
  PROVE  Kept(s)
  <1>1. OwnStep(s) /\ TypeOK /\ LogInv(s) /\ CountsInv(s) /\ LimitInv(s)
    BY SessionStepOwn DEF IInv, SessionStep, Execute
  <1>2. /\ pc[s] = "allowed" /\ pc'[s] = "tool"
        /\ allowed_count'[s] = allowed_count[s] + 1
        /\ started' = started \cup {ToolOf(s)}
        /\ UNCHANGED <<call_count, blocked_count, error_count, request_counter, log>>
    BY <1>1 DEF StartTool, At, Inc, TypeOK
  <1>3. LogInv(s)'
    BY <1>1, <1>2, QuietLog DEF LogInv, InCall
  <1>4. StartedLogged'
    <2>1. \E n \in DOMAIN log : Mine(log, n, s, {"ALLOWED"})
                                  /\ log[n].id = request_counter[s]
      BY <1>1, <1>2 DEF LogInv, GoodLog, InFlight, InCall
    <2>2. ToolOf(s)[1] = s /\ ToolOf(s)[2] = request_counter[s]
      BY DEF ToolOf
    <2> QED
      BY <1>2, <2>1, <2>2 DEF IInv, StartedLogged, Mine
  <1>5. CountsInv(s)'
    BY <1>1, <1>2, Tallies
    DEF CountsInv, CountsBound, CountsExact, Lag, Ended
  <1>6. allowed_count[s] + 1 <= policy.max_calls_per_session
    <2>1. allowed_count[s] + blocked_count[s] + 1 <= call_count[s]
      BY <1>1, <1>2, Tallies DEF CountsInv, CountsBound, Lag
    <2> QED
      BY <1>1, <1>2, <2>1, Tallies, SandboxAssumption DEF LimitInv
  <1>7. /\ IsFiniteSet(StartedBy(s)')
        /\ Cardinality(StartedBy(s)') <= Cardinality(StartedBy(s)) + 1
    <2>1. StartedBy(s)' = StartedBy(s) \cup {ToolOf(s)}
      BY <1>2 DEF StartedBy, ToolOf
    <2>2. IsFiniteSet(StartedBy(s)) /\ Cardinality(StartedBy(s)) \in Nat
      BY <1>1, FS_CardinalityType DEF LimitInv
    <2>3. /\ IsFiniteSet(StartedBy(s) \cup {ToolOf(s)})
          /\ \/ Cardinality(StartedBy(s) \cup {ToolOf(s)}) = Cardinality(StartedBy(s))
             \/ Cardinality(StartedBy(s) \cup {ToolOf(s)}) = Cardinality(StartedBy(s)) + 1
      BY <2>2, FS_AddElement
    <2> QED
      BY <2>1, <2>2, <2>3
  <1>8. LimitInv(s)'
    <2>1. IsFiniteSet(StartedBy(s)) /\ Cardinality(StartedBy(s)) \in Nat
      BY <1>1, FS_CardinalityType DEF LimitInv
    <2>2. Cardinality(StartedBy(s)') \in Nat
      BY <1>7, FS_CardinalityType
    <2> QED
      BY <1>1, <1>2, <1>6, <1>7, <2>1, <2>2, Tallies, SandboxAssumption
      DEF LimitInv
  <1> QED
    BY <1>3, <1>4, <1>5, <1>8 DEF Kept


(* The log after log_execution, of Executed and of LogError. *)
LEMMA OutcomeStep ==
  ASSUME IInv, NEW s \in Sessions, NEW d \in Outcomes, OwnStep(s),
         log_execution(s, d), UNCHANGED <<request_counter, started>>,
         pc[s] \in InCall, pc'[s] = "idle"
  PROVE  LogInv(s)' /\ StartedLogged'
  <1> DEFINE e == [session |-> s, id |-> request_counter[s], decision |-> d]
  <1>1. log \in Seq(Entry) /\ request_counter[s] \in Nat
    BY DEF IInv, TypeOK
  <1>2. log' = Append(log, e) /\ e \in Entry /\ e.session = s
          /\ e.decision = d /\ e.id = request_counter[s]
    BY <1>1, EntryOf DEF log_execution, _write_entry, Outcomes
  <1> HIDE DEF e
  <1>3. GoodLog(Append(log, e), s, request_counter[s], "idle")
    BY <1>1, <1>2, OutcomeLog DEF IInv, LogInv
  <1> QED
    BY <1>2, <1>3, StartedStaysLogged DEF LogInv

LEMMA LogErrorKept ==
  ASSUME IInv, NEW s \in Sessions, LogError(s)
  PROVE  Kept(s)
  <1>1. OwnStep(s) /\ TypeOK /\ CountsInv(s)
    BY SessionStepOwn DEF IInv, SessionStep, Execute
  <1>2. /\ pc[s] = "failed" /\ pc'[s] = "idle"
        /\ _write_entry(s, request_counter[s], "ERROR")
    BY <1>1 DEF LogError, At, log_execution, TypeOK
  <1>3. LogInv(s)' /\ StartedLogged'
    BY <1>1, <1>2, OutcomeStep DEF LogError, InCall, Outcomes
  <1>4. /\ Tally(log', s, "ALLOWED") = Tally(log, s, "ALLOWED")
        /\ Tally(log', s, "BLOCKED") = Tally(log, s, "BLOCKED")
        /\ Tally(log', s, "ERROR") = Tally(log, s, "ERROR") + 1
    BY <1>1, <1>2, WriteTallies, Tallies
  <1>5. CountsInv(s)'
    BY <1>1, <1>2, <1>4, Tallies
    DEF CountsInv, CountsBound, CountsExact, Lag, Ended, LogError, counts
  <1>6. LimitInv(s)'
    BY <1>2, LimitStep DEF LogError, counts
  <1> QED
    BY <1>3, <1>5, <1>6 DEF Kept

LEMMA ExecutedKept ==
  ASSUME IInv, NEW s \in Sessions, Executed(s)
  PROVE  Kept(s)
  <1>1. OwnStep(s) /\ TypeOK /\ CountsInv(s)
    BY SessionStepOwn DEF IInv, SessionStep
  <1>2. /\ pc[s] = "tool" /\ pc'[s] = "idle"
        /\ _write_entry(s, request_counter[s], "EXECUTED")
    BY <1>1 DEF Executed, At, log_execution, TypeOK
  <1>3. LogInv(s)' /\ StartedLogged'
    BY <1>1, <1>2, OutcomeStep DEF Executed, InCall, Outcomes
  <1>4. /\ Tally(log', s, "ALLOWED") = Tally(log, s, "ALLOWED")
        /\ Tally(log', s, "BLOCKED") = Tally(log, s, "BLOCKED")
        /\ Tally(log', s, "ERROR") = Tally(log, s, "ERROR")
    BY <1>1, <1>2, WriteTallies, Tallies
  <1>5. CountsInv(s)'
    BY <1>1, <1>2, <1>4, Tallies
    DEF CountsInv, CountsBound, CountsExact, Lag, Ended, Executed, counts
  <1>6. LimitInv(s)'
    BY <1>2, LimitStep DEF Executed, counts
  <1> QED
    BY <1>3, <1>5, <1>6 DEF Kept

LEMMA FailedKept ==
  ASSUME IInv, NEW s \in Sessions, Failed(s) \/ TimedOut(s)
  PROVE  Kept(s)
  <1>1. OwnStep(s) /\ TypeOK /\ CountsInv(s)
    BY SessionStepOwn DEF IInv, SessionStep
  <1>2. /\ pc[s] = "tool" /\ pc'[s] = "failed"
        /\ error_count'[s] = error_count[s] + 1
        /\ UNCHANGED <<call_count, allowed_count, blocked_count,
                       request_counter, log, started>>
    BY <1>1 DEF Failed, TimedOut, At, Inc, TypeOK
  <1>3. LogInv(s)' /\ StartedLogged'
    BY <1>1, <1>2, QuietStep DEF InCall
  <1>4. CountsInv(s)'
    BY <1>1, <1>2, Tallies
    DEF CountsInv, CountsBound, CountsExact, Lag, Ended
  <1>5. LimitInv(s)'
    BY <1>2, LimitStep
  <1> QED
    BY <1>3, <1>4, <1>5 DEF Kept

(* A call is left where it is: by an exception, Ctrl-C or a kill. *)
LEMMA LeftKept ==
  ASSUME IInv, NEW s \in Sessions, Raise(s) \/ Interrupt(s) \/ Kill(s)
  PROVE  Kept(s)
  <1>1. OwnStep(s) /\ TypeOK /\ CountsInv(s)
    BY SessionStepOwn DEF IInv, SessionStep
  <1>2. /\ UNCHANGED <<counts, request_counter, log, started>>
        /\ pc[s] # "closed"
        /\ \/ pc'[s] \in {"raised", "killed"}
           \/ pc'[s] = "idle" /\ s \in Interactive
    BY <1>1 DEF Raise, Interrupt, Kill, At, TypeOK
  <1>3. LogInv(s)' /\ StartedLogged'
    BY <1>1, <1>2, QuietStep DEF InCall
  <1>4. CountsInv(s)'
    BY <1>1, <1>2, Tallies
    DEF CountsInv, CountsBound, Lag, Ended, counts
  <1>5. LimitInv(s)'
    BY <1>2, LimitStep DEF counts
  <1> QED
    BY <1>3, <1>4, <1>5 DEF Kept

LEMMA CloseKept ==
  ASSUME IInv, NEW s \in Sessions, Close(s)
  PROVE  Kept(s)
  <1> DEFINE e == [session |-> s, id |-> 0, decision |-> "END"]
  <1>1. /\ OwnStep(s) /\ TypeOK /\ CountsInv(s) /\ log \in Seq(Entry)
        /\ request_counter[s] \in Nat
    BY SessionStepOwn, Tallies DEF IInv, SessionStep, TypeOK
  <1>2. log' = Append(log, e) /\ e \in Entry
    BY EntryOf DEF Close, close, _write_entry
  <1>3. pc[s] \in {"raised", "idle"} /\ pc'[s] = "closed"
    BY <1>1 DEF Close, TypeOK
  <1>4. LogInv(s)'
    <2>1. GoodLog(Append(log, e), s, request_counter[s], "closed")
      BY <1>1, <1>2, <1>3, FrameLog DEF IInv, LogInv
    <2> QED
      BY <1>2, <1>3, <2>1 DEF LogInv, Close
  <1>5. CountsInv(s)'
    <2>1. /\ Tally(log', s, "ALLOWED") = Tally(log, s, "ALLOWED")
          /\ Tally(log', s, "BLOCKED") = Tally(log, s, "BLOCKED")
          /\ Tally(log', s, "ERROR") = Tally(log, s, "ERROR")
      BY <1>1, WriteTallies, Tallies DEF Close, close
    <2> QED
      BY <1>1, <1>3, <2>1, Tallies
      DEF CountsInv, CountsBound, Lag, Ended, Close, counts
  <1>6. LimitInv(s)' /\ StartedLogged'
    BY <1>1, <1>3, LimitStep, StartedStaysLogged DEF Close, counts
  <1> QED
    BY <1>4, <1>5, <1>6 DEF Kept

------------------------------------------------------------------------------
(* The theorems.                                                           *)

LEMMA IInvInit == Init => IInv
  <1> SUFFICES ASSUME Init PROVE IInv
    OBVIOUS
  <1> USE DEF Init
  <1>1. TypeOK
    BY DEF TypeOK, States
  <1>2. StartedLogged
    BY DEF StartedLogged
  <1> SUFFICES ASSUME NEW s \in Sessions
               PROVE  LogInv(s) /\ CountsInv(s) /\ LimitInv(s)
    BY <1>1, <1>2 DEF IInv
  <1>3. LogInv(s)
    BY DEF LogInv, GoodLog, IdsCounted, OneDecision, OneOutcome,
           OutcomeOfAllowed, EndIsLast, EndIsClosed, InFlight, InCall
  <1>4. CountsInv(s)
    <2>1. \A d : Tally(log, s, d) = 0
      <3>1. \A d : {n \in DOMAIN log : log[n].session = s /\ log[n].decision = d} = {}
        OBVIOUS
      <3> QED
        BY <3>1, FS_EmptySet DEF Tally
    <2> QED
      BY <2>1 DEF CountsInv, CountsBound, CountsExact, Lag
  <1>5. LimitInv(s)
    <2>1. StartedBy(s) = {}
      BY DEF StartedBy
    <2> QED
      BY <2>1, FS_EmptySet, SandboxAssumption DEF LimitInv
  <1> QED
    BY <1>3, <1>4, <1>5

LEMMA IInvStep == IInv /\ [Next]_vars => IInv'
  <1> SUFFICES ASSUME IInv, [Next]_vars PROVE IInv'
    OBVIOUS
  <1>1. CASE \E s \in Sessions : SessionStep(s)
    <2> PICK s \in Sessions : SessionStep(s)
      BY <1>1
    <2>1. OwnStep(s)
      BY SessionStepOwn DEF IInv
    <2>2. Kept(s)
      BY OpenKept, ReceiveKept, RateLimitedKept, DecideKept, BlockedKept,
         StartToolKept, LogErrorKept, ExecutedKept, FailedKept, LeftKept,
         CloseKept DEF SessionStep, Execute
    <2>3. \A t \in Sessions \ {s} : LogInv(t)' /\ CountsInv(t)' /\ LimitInv(t)'
      BY <2>1, OthersKept
    <2> QED
      BY <2>1, <2>2, <2>3 DEF IInv, Kept, OwnStep
  <1>2. CASE (\E t \in alive : OrphanEnds(t)) \/ UNCHANGED vars
    BY <1>2 DEF OrphanEnds, vars, counts, IInv, TypeOK, StartedLogged, LogInv,
                CountsInv, LimitInv, StartedBy
  <1> QED
    BY <1>1, <1>2 DEF Next, SessionStep

LEMMA IInvHolds == Spec => []IInv
  BY IInvInit, IInvStep, PTL DEF Spec


(* The entries of the properties are those of the invariant. *)
LEMMA EntriesOf ==
  ASSUME NEW s, NEW id, NEW D
  PROVE  /\ Entries(s, D) = {n \in DOMAIN log : Mine(log, n, s, D)}
         /\ Of(s, id, D) = {n \in DOMAIN log : Mine(log, n, s, D) /\ log[n].id = id}
  BY DEF Entries, Of, Mine

(* At whatever point a session is interrupted, killed or left by an        *)
(* exception: every tool that was started has its ALLOWED in the log and   *)
(* no BLOCKED of its id, and a session started no more tools than          *)
(* max_calls_per_session, of any policy.                                   *)
THEOREM StartsOnlyAllowed == Spec => []StartsAllowed
  <1>1. IInv => StartsAllowed
    <2> SUFFICES ASSUME IInv PROVE StartsAllowed
      OBVIOUS
    <2>1. WriteAhead
      <3> SUFFICES ASSUME NEW t \in started
                   PROVE  /\ Of(t[1], t[2], {"ALLOWED"}) # {}
                          /\ Of(t[1], t[2], {"BLOCKED"}) = {}
        BY DEF WriteAhead
      <3>1. t[1] \in Sessions
        BY DEF IInv, TypeOK
      <3> PICK n \in DOMAIN log : Mine(log, n, t[1], {"ALLOWED"}) /\ log[n].id = t[2]
        BY DEF IInv, StartedLogged
      <3>2. \A m \in DOMAIN log :
              Mine(log, m, t[1], {"BLOCKED"}) => log[m].id # t[2]
        <4>1. OneDecision(log, t[1])
          BY <3>1 DEF IInv, LogInv, GoodLog
        <4> QED
          BY <4>1 DEF OneDecision, Mine, Decisions
      <3> QED
        BY <3>2, EntriesOf
    <2>2. RateLimit
      <3> SUFFICES ASSUME NEW s \in Sessions
                   PROVE  Cardinality(StartedBy(s)) <= policy.max_calls_per_session
        BY DEF RateLimit, StartedBy
      <3>1. LimitInv(s) /\ allowed_count[s] \in Nat
        BY DEF IInv, TypeOK
      <3>2. Cardinality(StartedBy(s)) \in Nat
        BY <3>1, FS_CardinalityType DEF LimitInv
      <3> QED
        BY <3>1, <3>2, SandboxAssumption DEF LimitInv
    <2> QED
      BY <2>1, <2>2 DEF StartsAllowed
  <1> QED
    BY IInvHolds, <1>1, PTL

(* The audit log, appended to by all sessions in any order, is well formed *)
(* after every step: one decision to a request, at most one outcome, after *)
(* its ALLOWED, and nothing of a session after its end.                    *)
THEOREM LogStaysWellFormed == Spec => []LogWellFormed
  <1>1. IInv => LogWellFormed
    <2> SUFFICES ASSUME IInv, NEW s \in Sessions
                 PROVE
      /\ \A m, n \in Entries(s, {"ALLOWED", "BLOCKED"}) :
           log[m].id = log[n].id => m = n
      /\ \A n \in Entries(s, {"EXECUTED", "ERROR"}) :
           /\ Of(s, log[n].id, {"EXECUTED", "ERROR"}) = {n}
           /\ \E m \in Of(s, log[n].id, {"ALLOWED"}) : m < n
      /\ \A e \in Entries(s, {"END"}), n \in DOMAIN log :
           log[n].session = s => n <= e
      BY DEF IInv, TypeOK, LogWellFormed
    <2>1. GoodLog(log, s, request_counter[s], pc[s])
      BY DEF IInv, LogInv
    <2>2. \A m, n \in Entries(s, {"ALLOWED", "BLOCKED"}) :
            log[m].id = log[n].id => m = n
      <3>1. \A n \in Entries(s, {"ALLOWED", "BLOCKED"}) :
              n \in DOMAIN log /\ Mine(log, n, s, Decisions)
        BY EntriesOf DEF Decisions
      <3> QED
        BY <2>1, <3>1 DEF GoodLog, OneDecision
    <2>3. ASSUME NEW n \in Entries(s, {"EXECUTED", "ERROR"})
          PROVE  /\ Of(s, log[n].id, {"EXECUTED", "ERROR"}) = {n}
                 /\ \E m \in Of(s, log[n].id, {"ALLOWED"}) : m < n
      <3>1. n \in DOMAIN log /\ Mine(log, n, s, Outcomes)
        BY EntriesOf DEF Outcomes
      <3>2. Of(s, log[n].id, Outcomes) = {n}
        BY <2>1, <3>1, EntriesOf DEF GoodLog, OneOutcome
      <3>3. \E m \in DOMAIN log :
              Mine(log, m, s, {"ALLOWED"}) /\ log[m].id = log[n].id /\ m < n
        BY <2>1, <3>1 DEF GoodLog, OutcomeOfAllowed
      <3> QED
        BY <3>2, <3>3, EntriesOf DEF Outcomes
    <2>4. \A e \in Entries(s, {"END"}), n \in DOMAIN log :
            log[n].session = s => n <= e
      <3>1. \A e \in Entries(s, {"END"}) :
              e \in DOMAIN log /\ Mine(log, e, s, {"END"})
        BY EntriesOf
      <3> QED
        BY <2>1, <3>1 DEF GoodLog, EndIsLast
    <2> QED
      BY <2>2, <2>3, <2>4
  <1> QED
    BY IInvHolds, <1>1, PTL

(* Between two calls the statistics of a session bound those of its log,   *)
(* whatever interrupts it had, and equal them when it can have had none.   *)
THEOREM StatsAgreeWithLog == Spec => []StatsMatchLog
  <1>1. IInv => StatsMatchLog
    <2> SUFFICES ASSUME IInv, NEW s \in Sessions, pc[s] = "idle"
                 PROVE
      LET stats  == get_stats(s)
          logged == analyze_audit_log(s)
      IN  /\ logged["ALLOWED"] + logged["BLOCKED"] <= stats.total_calls
          /\ stats.allowed <= logged["ALLOWED"]
          /\ stats.allowed + stats.blocked <= stats.total_calls
          /\ logged["ERROR"] <= stats.errors
          /\ s \notin Interactive =>
               /\ stats.allowed = logged["ALLOWED"]
               /\ stats.blocked = logged["BLOCKED"]
               /\ stats.total_calls = stats.allowed + stats.blocked
               /\ stats.errors = logged["ERROR"]
      BY DEF StatsMatchLog
    <2>1. /\ analyze_audit_log(s)["ALLOWED"] = Tally(log, s, "ALLOWED")
          /\ analyze_audit_log(s)["BLOCKED"] = Tally(log, s, "BLOCKED")
          /\ analyze_audit_log(s)["ERROR"] = Tally(log, s, "ERROR")
      BY DEF analyze_audit_log, Tally
    <2>2. CountsInv(s) /\ TypeOK
      BY DEF IInv
    <2> QED
      BY <2>1, <2>2, Tallies
      DEF CountsInv, CountsBound, CountsExact, Lag, Ended, get_stats
  <1> QED
    BY IInvHolds, <1>1, PTL

===============================================================================
