-------------------------- MODULE SchedLabBpfProofs --------------------------
(***************************************************************************)
(* Theorems about SchedLabBpf, for every set of pids and CPUs, every map,  *)
(* ring and histogram size, every filter and every clock: first about run  *)
(* time, then about the wakeups that are sampled and the waiting that is   *)
(* accounted, and last that the maps implement RunqueueLatency.            *)
(***************************************************************************)
EXTENDS SchedLabBpf, FiniteSetTheorems, TLAPS

Traced == {p \in Pids : should_trace(p)}

Slots == 0 .. MaxBuckets - 1

------------------------------------------------------------------------------
LEMMA BucketType ==
  ASSUME NEW t \in Nat
  PROVE  Bucket(t) \in Slots
  <1>1. (t \div BucketSize) \in Nat
    BY HistAssumption
  <1>2. ((t \div BucketSize) % U32) \in Nat
    BY <1>1, HistAssumption
  <1> QED
    BY <1>2, HistAssumption DEF Bucket, Slots

------------------------------------------------------------------------------
(* The task_stats record. *)

LEMMA FirstStatsType ==
  ASSUME NEW ts \in Nat
  PROVE  FirstStats(ts) \in TaskStats
  BY DEF FirstStats, TaskStats

LEMMA FieldUpdate ==
  ASSUME NEW s \in TaskStats, NEW n \in Nat
  PROVE  /\ [s EXCEPT !.run_time_ns = n] \in TaskStats
         /\ [s EXCEPT !.wait_time_ns = n] \in TaskStats
         /\ [s EXCEPT !.switches = n] \in TaskStats
         /\ [s EXCEPT !.wakeups = n] \in TaskStats
         /\ [s EXCEPT !.last_wakeup_ts = n] \in TaskStats
         /\ [s EXCEPT !.last_switch_in_ts = n] \in TaskStats
  BY DEF TaskStats

LEMMA WokenType ==
  ASSUME NEW s \in TaskStats, NEW ts \in Nat
  PROVE  /\ Woken(s, ts) \in TaskStats
         /\ Woken(s, ts).run_time_ns = s.run_time_ns
         /\ Woken(s, ts).wait_time_ns = s.wait_time_ns
         /\ Woken(s, ts).switches = s.switches
         /\ Woken(s, ts).wakeups = s.wakeups + 1
         /\ Woken(s, ts).last_switch_in_ts = s.last_switch_in_ts
  <1> DEFINE n == s.wakeups + 1
  <1>1. n \in Nat
    BY DEF TaskStats
  <1>2. [s EXCEPT !.wakeups = n] \in TaskStats
    BY <1>1, FieldUpdate
  <1>3. Woken(s, ts) \in TaskStats
    BY <1>2, FieldUpdate DEF Woken, TaskStats
  <1> QED
    BY <1>3 DEF Woken, TaskStats

LEMMA SwitchedOutType ==
  ASSUME NEW s \in TaskStats, NEW ts \in Nat, s.last_switch_in_ts <= ts
  PROVE  /\ SwitchedOut(s, ts) \in TaskStats
         /\ SwitchedOut(s, ts).run_time_ns =
              IF s.last_switch_in_ts > 0
              THEN s.run_time_ns + (ts - s.last_switch_in_ts)
              ELSE s.run_time_ns
         /\ SwitchedOut(s, ts).wait_time_ns = s.wait_time_ns
         /\ SwitchedOut(s, ts).switches >= s.switches
         /\ SwitchedOut(s, ts).wakeups = s.wakeups
         /\ SwitchedOut(s, ts).last_switch_in_ts = s.last_switch_in_ts
  <1> DEFINE r == s.run_time_ns + (ts - s.last_switch_in_ts)
             n == s.switches + 1
  <1>1. r \in Nat /\ n \in Nat
    BY DEF TaskStats
  <1>2. [s EXCEPT !.run_time_ns = r] \in TaskStats
    BY <1>1, FieldUpdate
  <1>3. SwitchedOut(s, ts) \in TaskStats
    BY <1>1, <1>2, FieldUpdate DEF SwitchedOut, TaskStats
  <1> QED
    BY <1>3 DEF SwitchedOut, TaskStats

LEMMA SwitchedInType ==
  ASSUME NEW s \in TaskStats, NEW ts \in Nat, NEW w \in Nat
  PROVE  /\ SwitchedIn(s, ts, w) \in TaskStats
         /\ SwitchedIn(s, ts, w).run_time_ns = s.run_time_ns
         /\ SwitchedIn(s, ts, w).wait_time_ns = s.wait_time_ns + w
         /\ SwitchedIn(s, ts, w).switches = s.switches
         /\ SwitchedIn(s, ts, w).wakeups = s.wakeups
         /\ SwitchedIn(s, ts, w).last_switch_in_ts = ts
  <1> DEFINE n == s.wait_time_ns + w
  <1>1. n \in Nat
    BY DEF TaskStats
  <1>2. [s EXCEPT !.wait_time_ns = n] \in TaskStats
    BY <1>1, FieldUpdate
  <1>3. SwitchedIn(s, ts, w) \in TaskStats
    BY <1>2, FieldUpdate DEF SwitchedIn, TaskStats
  <1> QED
    BY <1>3 DEF SwitchedIn, TaskStats
------------------------------------------------------------------------------
(* What each handler does to the maps. *)

(* The part of TypeOK that speaks of the maps. *)
MapsTypeOK ==
  /\ DOMAIN wakeup_ts \subseteq Traced
  /\ wakeup_ts \in [DOMAIN wakeup_ts -> Nat]
  /\ DOMAIN task_stats \subseteq Traced
  /\ task_stats \in [DOMAIN task_stats -> TaskStats]
  /\ latency_hist \in [Slots -> Nat]
  /\ events \in Seq(Event)

(* No time stamp in the maps is later than t. *)
StampsUpTo(t) ==
  /\ \A p \in DOMAIN wakeup_ts : wakeup_ts[p] <= t
  /\ \A p \in DOMAIN task_stats : task_stats[p].last_switch_in_ts <= t

(* The same of the maps after a step. *)
StampsAfter(t) ==
  /\ \A p \in DOMAIN wakeup_ts' : wakeup_ts'[p] <= t
  /\ \A p \in DOMAIN task_stats' : task_stats'[p].last_switch_in_ts <= t

LEMMA StreamType ==
  ASSUME MapsTypeOK,
         NEW type \in {"WAKEUP", "SWITCH", "EXIT"}, NEW ts \in Nat,
         NEW p \in Nat, NEW q \in Nat, Stream(type, ts, p, q)
  PROVE  events' \in Seq(Event)
  <1> DEFINE e == [event_type |-> type, timestamp_ns |-> ts,
                   pid |-> p, prev_pid |-> q]
  <1>1. e \in Event
    BY DEF Event
  <1>2. Append(events, e) \in Seq(Event)
    BY <1>1 DEF MapsTypeOK
  <1> QED
    BY <1>2 DEF Stream, MapsTypeOK

(* A wakeup leaves what earlier events accounted alone, and gives the pid  *)
(* a record if there is room for one.                                      *)
WakeStats(p) ==
  /\ DOMAIN task_stats \subseteq DOMAIN task_stats'
  /\ DOMAIN task_stats' \subseteq DOMAIN task_stats \cup {p}
  /\ \A q \in DOMAIN task_stats :
       /\ task_stats'[q].run_time_ns = task_stats[q].run_time_ns
       /\ task_stats'[q].wait_time_ns = task_stats[q].wait_time_ns
       /\ task_stats'[q].switches = task_stats[q].switches
       /\ task_stats'[q].last_switch_in_ts = task_stats[q].last_switch_in_ts
       /\ task_stats'[q].wakeups >= task_stats[q].wakeups
       /\ task_stats'[q].wakeups <=
            task_stats[q].wakeups + (IF q = p /\ task_stats' # task_stats THEN 1 ELSE 0)
  /\ \A q \in DOMAIN task_stats' \ DOMAIN task_stats :
       /\ ~Full(task_stats)
       /\ task_stats'[q].run_time_ns = 0
       /\ task_stats'[q].wait_time_ns = 0
       /\ task_stats'[q].wakeups = 1
       /\ task_stats'[q].last_switch_in_ts = 0

LEMMA WakeupHandler ==
  ASSUME MapsTypeOK, NEW p \in Pids, NEW ts \in Nat, StampsUpTo(ts),
         handle_sched_wakeup(p, ts)
  PROVE  /\ MapsTypeOK'
         /\ StampsAfter(ts)
         /\ WakeStats(p)
         /\ latency_hist' = latency_hist
         /\ \A q \in DOMAIN wakeup_ts' : q # p =>
              q \in DOMAIN wakeup_ts /\ wakeup_ts'[q] = wakeup_ts[q]
         /\ Attached(WAKEUP) /\ p \in DOMAIN wakeup_ts' => wakeup_ts'[p] = ts
         /\ ~Attached(WAKEUP) => UNCHANGED mapVars
  <1>1. CASE Attached(WAKEUP) /\ should_trace(p)
    <2>1. /\ wakeup_ts' = UpdateAny(wakeup_ts, p, ts)
          /\ task_stats' = IF p \in DOMAIN task_stats
                           THEN [task_stats EXCEPT ![p] = Woken(@, ts)]
                           ELSE UpdateNoExist(task_stats, p, FirstStats(ts))
          /\ Stream("WAKEUP", ts, p, Idle)
          /\ UNCHANGED latency_hist
      BY <1>1 DEF handle_sched_wakeup
    <2>2. p \in Traced
      BY <1>1 DEF Traced
    <2>3. events' \in Seq(Event)
      BY <2>1, StreamType, PidsAssumption DEF Idle
    <2>4. /\ DOMAIN wakeup_ts' \subseteq Traced
          /\ wakeup_ts' \in [DOMAIN wakeup_ts' -> Nat]
          /\ \A q \in DOMAIN wakeup_ts' : wakeup_ts'[q] <= ts
          /\ \A q \in DOMAIN wakeup_ts' : q # p =>
               q \in DOMAIN wakeup_ts /\ wakeup_ts'[q] = wakeup_ts[q]
          /\ p \in DOMAIN wakeup_ts' => wakeup_ts'[p] = ts
      <3> DEFINE w == UpdateAny(wakeup_ts, p, ts)
      <3>1. /\ DOMAIN w \subseteq Traced
            /\ w \in [DOMAIN w -> Nat]
            /\ DOMAIN w \in {DOMAIN wakeup_ts, DOMAIN wakeup_ts \cup {p}}
            /\ p \in DOMAIN w => w[p] = ts
            /\ \A q \in DOMAIN wakeup_ts \ {p} : w[q] = wakeup_ts[q]
        BY <2>2 DEF MapsTypeOK, UpdateAny, Put
      <3> HIDE DEF w
      <3>2. wakeup_ts' = w
        BY <2>1 DEF w
      <3>3. \A q \in DOMAIN w : w[q] <= ts
        BY <3>1 DEF StampsUpTo
      <3> QED
        BY <3>1, <3>2, <3>3
    <2>5. /\ DOMAIN task_stats' \subseteq Traced
          /\ task_stats' \in [DOMAIN task_stats' -> TaskStats]
          /\ \A q \in DOMAIN task_stats' :
               task_stats'[q].last_switch_in_ts <= ts
          /\ WakeStats(p)
      <3>1. CASE p \in DOMAIN task_stats
        <4> DEFINE s == Woken(task_stats[p], ts)
        <4>1. task_stats[p] \in TaskStats
          BY <3>1 DEF MapsTypeOK
        <4>2. /\ s \in TaskStats
              /\ s.run_time_ns = task_stats[p].run_time_ns
              /\ s.wait_time_ns = task_stats[p].wait_time_ns
              /\ s.switches = task_stats[p].switches
              /\ s.wakeups = task_stats[p].wakeups + 1
              /\ s.last_switch_in_ts = task_stats[p].last_switch_in_ts
          BY <4>1, WokenType
        <4> HIDE DEF s
        <4>3. task_stats' = [task_stats EXCEPT ![p] = s]
          BY <2>1, <3>1 DEF s
        <4>4. DOMAIN task_stats' = DOMAIN task_stats
          BY <4>3
        <4>5. \A q \in DOMAIN task_stats :
                task_stats'[q] = IF q = p THEN s ELSE task_stats[q]
          BY <4>3, <3>1
        <4>6. \A q \in DOMAIN task_stats : task_stats[q] \in TaskStats
          BY DEF MapsTypeOK
        <4>7. task_stats' \in [DOMAIN task_stats' -> TaskStats]
          BY <4>2, <4>3, <4>4, <4>5, <4>6
        <4>8. \A q \in DOMAIN task_stats : task_stats[q].wakeups \in Nat
          BY <4>6 DEF TaskStats
        <4>9. task_stats' # task_stats
          BY <4>5, <4>2, <4>8, <3>1
        <4> QED
          BY <3>1, <4>2, <4>4, <4>5, <4>7, <4>8, <4>9
          DEF WakeStats, MapsTypeOK, StampsUpTo, StampsAfter
      <3>2. CASE p \notin DOMAIN task_stats
        <4> DEFINE m == UpdateNoExist(task_stats, p, FirstStats(ts))
        <4>1. FirstStats(ts) \in TaskStats
          BY FirstStatsType
        <4>2. /\ DOMAIN m \subseteq Traced
              /\ m \in [DOMAIN m -> TaskStats]
              /\ DOMAIN m \in {DOMAIN task_stats, DOMAIN task_stats \cup {p}}
              /\ p \in DOMAIN m => m[p] = FirstStats(ts)
              /\ \A q \in DOMAIN task_stats : m[q] = task_stats[q]
              /\ Full(task_stats) => m = task_stats
          BY <2>2, <3>2, <4>1 DEF MapsTypeOK, UpdateNoExist, Put
        <4>3. task_stats' = m
          BY <2>1, <3>2
        <4> HIDE DEF m
        <4>4. \A q \in DOMAIN task_stats : task_stats[q].wakeups \in Nat
          BY DEF TaskStats, MapsTypeOK
        <4> QED
          BY <3>2, <4>2, <4>3, <4>4 DEF WakeStats, StampsUpTo, FirstStats
      <3> QED
        BY <3>1, <3>2
    <2> QED
      BY <1>1, <2>1, <2>3, <2>4, <2>5 DEF MapsTypeOK, StampsUpTo, StampsAfter
  <1>2. CASE ~(Attached(WAKEUP) /\ should_trace(p))
    <2>1. UNCHANGED mapVars
      BY <1>2 DEF handle_sched_wakeup
    <2>2. \A q \in DOMAIN task_stats : task_stats[q].wakeups \in Nat
      BY DEF TaskStats, MapsTypeOK
    <2>3. p \notin Traced \/ ~Attached(WAKEUP)
      BY <1>2 DEF Traced
    <2> QED
      BY <2>1, <2>2, <2>3
      DEF mapVars, MapsTypeOK, StampsUpTo, StampsAfter, WakeStats
  <1> QED
    BY <1>1, <1>2

LEMMA WakeupNewHandler ==
  ASSUME MapsTypeOK, NEW p \in Pids, NEW ts \in Nat, StampsUpTo(ts),
         handle_sched_wakeup_new(p, ts)
  PROVE  /\ MapsTypeOK'
         /\ StampsAfter(ts)
         /\ WakeStats(p)
         /\ latency_hist' = latency_hist
         /\ \A q \in DOMAIN wakeup_ts' : q # p =>
              q \in DOMAIN wakeup_ts /\ wakeup_ts'[q] = wakeup_ts[q]
         /\ Attached(WAKEUP_NEW) /\ p \in Traced /\ ~Full(task_stats)
              => p \in DOMAIN task_stats'
         /\ Attached(WAKEUP_NEW) /\ p \in DOMAIN wakeup_ts'
              => wakeup_ts'[p] = ts
         /\ ~Attached(WAKEUP_NEW) => UNCHANGED mapVars
  <1>1. CASE Attached(WAKEUP_NEW) /\ should_trace(p)
    <2> DEFINE w == UpdateAny(wakeup_ts, p, ts)
               m == UpdateNoExist(task_stats, p, FirstStats(ts))
    <2>1. /\ wakeup_ts' = w
          /\ task_stats' = m
          /\ UNCHANGED <<latency_hist, events>>
      BY <1>1 DEF handle_sched_wakeup_new
    <2>2. p \in Traced
      BY <1>1 DEF Traced
    <2>3. /\ DOMAIN w \subseteq Traced
          /\ w \in [DOMAIN w -> Nat]
          /\ p \in DOMAIN w => w[p] = ts
          /\ \A q \in DOMAIN w : q # p =>
               q \in DOMAIN wakeup_ts /\ w[q] = wakeup_ts[q]
      BY <2>2 DEF MapsTypeOK, UpdateAny, Put
    <2>4. \A q \in DOMAIN w : w[q] <= ts
      BY <2>3 DEF StampsUpTo
    <2>5. FirstStats(ts) \in TaskStats
      BY FirstStatsType
    <2>6. /\ DOMAIN m \subseteq Traced
          /\ m \in [DOMAIN m -> TaskStats]
          /\ DOMAIN m \in {DOMAIN task_stats, DOMAIN task_stats \cup {p}}
          /\ p \notin DOMAIN task_stats /\ p \in DOMAIN m
               => m[p] = FirstStats(ts)
          /\ \A q \in DOMAIN task_stats : m[q] = task_stats[q]
          /\ Full(task_stats) => m = task_stats
          /\ ~Full(task_stats) => p \in DOMAIN m
      BY <2>2, <2>5 DEF MapsTypeOK, UpdateNoExist, Put
    <2>7. \A q \in DOMAIN task_stats : task_stats[q].wakeups \in Nat
      BY DEF TaskStats, MapsTypeOK
    <2> HIDE DEF w, m
    <2>8. WakeStats(p)
      BY <2>1, <2>6, <2>7 DEF WakeStats, FirstStats
    <2>9. \A q \in DOMAIN m : m[q].last_switch_in_ts <= ts
      BY <2>6 DEF StampsUpTo, FirstStats
    <2>10. MapsTypeOK'
      BY <2>1, <2>3, <2>6 DEF MapsTypeOK
    <2>11. StampsAfter(ts)
      BY <2>1, <2>4, <2>9 DEF StampsUpTo, StampsAfter
    <2> QED
      BY <1>1, <2>1, <2>3, <2>6, <2>8, <2>10, <2>11
  <1>2. CASE ~(Attached(WAKEUP_NEW) /\ should_trace(p))
    <2>1. UNCHANGED mapVars
      BY <1>2 DEF handle_sched_wakeup_new
    <2>2. \A q \in DOMAIN task_stats : task_stats[q].wakeups \in Nat
      BY DEF TaskStats, MapsTypeOK
    <2>3. WakeStats(p)
      BY <2>1, <2>2 DEF mapVars, WakeStats
    <2>4. MapsTypeOK' /\ StampsAfter(ts)
      BY <2>1 DEF mapVars, MapsTypeOK, StampsUpTo, StampsAfter
    <2> QED
      BY <1>2, <2>1, <2>3, <2>4 DEF mapVars, Traced, MapsTypeOK
  <1> QED
    BY <1>1, <1>2

(* A switch adds a slice to prev, stamps next, and takes next's wakeup out. *)
SwitchStats(prev, next, ts) ==
  /\ DOMAIN task_stats' = DOMAIN task_stats
  /\ \A q \in DOMAIN task_stats :
       /\ task_stats'[q].run_time_ns =
            IF q = prev /\ task_stats[q].last_switch_in_ts > 0
            THEN task_stats[q].run_time_ns
                   + (ts - task_stats[q].last_switch_in_ts)
            ELSE task_stats[q].run_time_ns
       /\ task_stats'[q].wait_time_ns =
            IF q = next /\ q \in DOMAIN wakeup_ts
            THEN task_stats[q].wait_time_ns + (ts - wakeup_ts[q])
            ELSE task_stats[q].wait_time_ns
       /\ task_stats'[q].switches >= task_stats[q].switches
       /\ task_stats'[q].wakeups = task_stats[q].wakeups
       /\ task_stats'[q].last_switch_in_ts =
            IF q = next THEN ts ELSE task_stats[q].last_switch_in_ts
  /\ DOMAIN wakeup_ts' = DOMAIN wakeup_ts \ {next}
  /\ \A q \in DOMAIN wakeup_ts' : wakeup_ts'[q] = wakeup_ts[q]
  /\ latency_hist' = IF next \in DOMAIN wakeup_ts
                     THEN [latency_hist EXCEPT
                             ![Bucket(ts - wakeup_ts[next])] = @ + 1]
                     ELSE latency_hist

LEMMA AfterPrevStats ==
  ASSUME MapsTypeOK, NEW prev \in Pids \cup {Idle}, NEW ts \in Nat,
         StampsUpTo(ts)
  PROVE  /\ DOMAIN AfterPrev(prev, ts) = DOMAIN task_stats
         /\ AfterPrev(prev, ts) \in [DOMAIN task_stats -> TaskStats]
         /\ \A q \in DOMAIN task_stats :
              AfterPrev(prev, ts)[q] =
                IF q = prev THEN SwitchedOut(task_stats[q], ts)
                ELSE task_stats[q]
  <1>1. CASE prev \in DOMAIN task_stats
    <2>1. should_trace(prev)
      BY <1>1 DEF MapsTypeOK, Traced
    <2>2. AfterPrev(prev, ts) =
            [task_stats EXCEPT ![prev] = SwitchedOut(task_stats[prev], ts)]
      BY <1>1, <2>1 DEF AfterPrev
    <2>3. task_stats[prev] \in TaskStats
      BY <1>1 DEF MapsTypeOK
    <2>4. SwitchedOut(task_stats[prev], ts) \in TaskStats
      BY <1>1, <2>3, SwitchedOutType DEF StampsUpTo
    <2> QED
      BY <1>1, <2>2, <2>4 DEF MapsTypeOK
  <1>2. CASE prev \notin DOMAIN task_stats
    BY <1>2 DEF AfterPrev, MapsTypeOK
  <1> QED
    BY <1>1, <1>2

LEMMA SwitchHandler ==
  ASSUME MapsTypeOK, NEW prev \in Pids \cup {Idle},
         NEW next \in Pids \cup {Idle}, NEW ts \in Nat, StampsUpTo(ts),
         next # prev,
         Attached(SWITCH), handle_sched_switch(prev, next, ts)
  PROVE  /\ MapsTypeOK'
         /\ StampsAfter(ts)
         /\ SwitchStats(prev, next, ts)
  <1> DEFINE a == AfterPrev(prev, ts)
             waited == IF next \in DOMAIN wakeup_ts THEN ts - wakeup_ts[next] ELSE 0
  <1>1. /\ DOMAIN a = DOMAIN task_stats
        /\ a \in [DOMAIN task_stats -> TaskStats]
        /\ \A q \in DOMAIN task_stats :
             a[q] = IF q = prev THEN SwitchedOut(task_stats[q], ts)
                    ELSE task_stats[q]
    BY AfterPrevStats
  <1>2. waited \in Nat
    BY DEF MapsTypeOK, StampsUpTo, StampsAfter
  <1>3. \A p : p \in DOMAIN wakeup_ts \/ p \in DOMAIN task_stats => should_trace(p)
    BY DEF MapsTypeOK, Traced
  <1>4. task_stats' = IF next \in DOMAIN task_stats
                      THEN [a EXCEPT ![next] = SwitchedIn(a[next], ts, waited)]
                      ELSE a
    BY <1>1, <1>3 DEF handle_sched_switch
  <1>5. /\ wakeup_ts' = Delete(wakeup_ts, next)
        /\ latency_hist' = IF next \in DOMAIN wakeup_ts
                           THEN [latency_hist EXCEPT ![Bucket(waited)] = @ + 1]
                           ELSE latency_hist
    BY <1>3 DEF handle_sched_switch, record_latency, Delete, MapsTypeOK
  <1>6. events' \in Seq(Event)
    <2>1. next \in Nat /\ prev \in Nat
      BY PidsAssumption DEF Idle
    <2> QED
      BY <2>1, StreamType DEF handle_sched_switch, MapsTypeOK
  <1> HIDE DEF a
  <1>7. /\ DOMAIN wakeup_ts' = DOMAIN wakeup_ts \ {next}
        /\ wakeup_ts' \in [DOMAIN wakeup_ts' -> Nat]
        /\ \A q \in DOMAIN wakeup_ts' : wakeup_ts'[q] = wakeup_ts[q]
    BY <1>5 DEF Delete, MapsTypeOK
  <1>8. latency_hist' \in [Slots -> Nat]
    <2>1. Bucket(waited) \in Slots
      BY <1>2, BucketType
    <2> QED
      BY <1>5, <2>1 DEF MapsTypeOK
  <1>9. /\ DOMAIN task_stats' = DOMAIN task_stats
        /\ task_stats' \in [DOMAIN task_stats -> TaskStats]
        /\ \A q \in DOMAIN task_stats :
             task_stats'[q] = IF q = next THEN SwitchedIn(a[q], ts, waited)
                              ELSE a[q]
    <2>1. CASE next \in DOMAIN task_stats
      <3>1. SwitchedIn(a[next], ts, waited) \in TaskStats
        BY <1>1, <1>2, <2>1, SwitchedInType
      <3> QED
        BY <1>1, <1>4, <2>1, <3>1
    <2>2. CASE next \notin DOMAIN task_stats
      BY <1>1, <1>4, <2>2
    <2> QED
      BY <2>1, <2>2
  <1>10. ASSUME NEW q \in DOMAIN task_stats
         PROVE  /\ task_stats'[q].run_time_ns =
                     IF q = prev /\ task_stats[q].last_switch_in_ts > 0
                     THEN task_stats[q].run_time_ns
                            + (ts - task_stats[q].last_switch_in_ts)
                     ELSE task_stats[q].run_time_ns
                /\ task_stats'[q].wait_time_ns =
                     IF q = next /\ q \in DOMAIN wakeup_ts
                     THEN task_stats[q].wait_time_ns + (ts - wakeup_ts[q])
                     ELSE task_stats[q].wait_time_ns
                /\ task_stats'[q].switches >= task_stats[q].switches
                /\ task_stats'[q].wakeups = task_stats[q].wakeups
                /\ task_stats'[q].last_switch_in_ts =
                     IF q = next THEN ts ELSE task_stats[q].last_switch_in_ts
                /\ task_stats'[q].last_switch_in_ts <= ts
    <2>1. task_stats[q] \in TaskStats /\ task_stats[q].last_switch_in_ts <= ts
      BY DEF MapsTypeOK, StampsUpTo, StampsAfter
    <2>2. CASE q = prev
      <3>1. task_stats'[q] = SwitchedOut(task_stats[q], ts)
        BY <1>1, <1>9, <2>2
      <3> QED
        BY <2>1, <2>2, <3>1, SwitchedOutType DEF TaskStats
    <2>3. CASE q = next
      <3>1. task_stats'[q] = SwitchedIn(task_stats[q], ts, waited)
        BY <1>1, <1>9, <2>3
      <3>2. task_stats[q].switches \in Nat /\ task_stats[q].wait_time_ns \in Nat
        BY <2>1 DEF TaskStats
      <3>3. /\ task_stats'[q].run_time_ns = task_stats[q].run_time_ns
            /\ task_stats'[q].wait_time_ns = task_stats[q].wait_time_ns + waited
            /\ task_stats'[q].switches = task_stats[q].switches
            /\ task_stats'[q].wakeups = task_stats[q].wakeups
            /\ task_stats'[q].last_switch_in_ts = ts
        <4> HIDE DEF waited
        <4> QED
          BY <1>2, <2>1, <3>1, SwitchedInType
      <3> QED
        BY <2>3, <3>2, <3>3
    <2>4. CASE q # prev /\ q # next
      <3>1. task_stats'[q] = task_stats[q]
        BY <1>1, <1>9, <2>4
      <3> QED
        BY <2>1, <2>4, <3>1 DEF TaskStats
    <2> QED
      BY <2>2, <2>3, <2>4
  <1>11. SwitchStats(prev, next, ts)
    BY <1>5, <1>7, <1>9, <1>10 DEF SwitchStats
  <1>12. MapsTypeOK'
    BY <1>6, <1>7, <1>8, <1>9 DEF MapsTypeOK
  <1>13. StampsAfter(ts)
    BY <1>7, <1>9, <1>10 DEF StampsUpTo, StampsAfter
  <1> QED
    BY <1>11, <1>12, <1>13

LEMMA ExitHandler ==
  ASSUME MapsTypeOK, NEW p \in Pids, NEW ts \in Nat, StampsUpTo(ts),
         handle_sched_process_exit(p, ts)
  PROVE  /\ MapsTypeOK'
         /\ StampsAfter(ts)
         /\ task_stats' = task_stats
         /\ latency_hist' = latency_hist
         /\ DOMAIN wakeup_ts' \in {DOMAIN wakeup_ts, DOMAIN wakeup_ts \ {p}}
         /\ \A q \in DOMAIN wakeup_ts' : wakeup_ts'[q] = wakeup_ts[q]
  <1>1. CASE Attached(EXIT) /\ should_trace(p)
    <2>1. /\ wakeup_ts' = Delete(wakeup_ts, p)
          /\ Stream("EXIT", ts, p, Idle)
          /\ UNCHANGED <<task_stats, latency_hist>>
      BY <1>1 DEF handle_sched_process_exit
    <2>2. events' \in Seq(Event)
      BY <2>1, StreamType, PidsAssumption DEF Idle
    <2>3. /\ DOMAIN wakeup_ts' = DOMAIN wakeup_ts \ {p}
          /\ wakeup_ts' \in [DOMAIN wakeup_ts' -> Nat]
          /\ \A q \in DOMAIN wakeup_ts' : wakeup_ts'[q] = wakeup_ts[q]
      BY <2>1 DEF Delete, MapsTypeOK
    <2> QED
      BY <2>1, <2>2, <2>3 DEF MapsTypeOK, StampsUpTo, StampsAfter
  <1>2. CASE ~(Attached(EXIT) /\ should_trace(p))
    BY <1>2 DEF handle_sched_process_exit, mapVars, MapsTypeOK, StampsUpTo, StampsAfter
  <1> QED
    BY <1>1, <1>2

------------------------------------------------------------------------------
(* Types. *)

LEMMA ElapseFacts ==
  ASSUME TypeOK, StampsUpTo(now), NEW d \in Durations, NEW J, Elapse(d, J)
  PROVE  /\ d \in Nat /\ d > 0
         /\ now' = now + d /\ now + d \in Nat /\ now + d > 0
         /\ StampsUpTo(now + d)
         /\ cpuTime' \in [Pids -> Nat]
         /\ queueTime' \in [Pids -> Nat]
         /\ queuedFor' \in [Pids -> Nat]
  <1>1. d \in Nat /\ d > 0
    BY TimeAssumption
  <1>2. now' = now + d /\ now + d \in Nat /\ now + d > 0
    BY <1>1 DEF Elapse, TypeOK
  <1>3. StampsUpTo(now + d)
    BY <1>1 DEF StampsUpTo, TypeOK, TaskStats
  <1>4. /\ cpuTime' \in [Pids -> Nat]
        /\ queueTime' \in [Pids -> Nat]
        /\ queuedFor' \in [Pids -> Nat]
    BY <1>1 DEF Elapse, TypeOK
  <1> QED
    BY <1>1, <1>2, <1>3, <1>4

LEMMA MapsOfTypeOK == TypeOK => MapsTypeOK
  BY DEF TypeOK, MapsTypeOK, Traced, Slots

Stamped == StampsUpTo(now)

LEMMA TypeInit ==
  ASSUME NEW programs \in 0 .. EXIT, NEW states \in SUBSET TaskStates,
         NEW seen \in SUBSET Pids, Start(programs, states, seen)
  PROVE  TypeOK /\ Stamped
  <1>1. tstate \in [Pids -> TaskStates]
    BY DEF Start
  <1>2. latency_hist \in [0 .. MaxBuckets - 1 -> Nat]
    BY DEF Start
  <1>3. events \in Seq(Event)
    BY DEF Start
  <1> QED
    BY <1>1, <1>2, <1>3
    DEF Start, TypeOK, EmptyMap, Idle, Stamped, StampsUpTo

(* What a step of time and of one of the handlers leaves to prove. *)
LEMMA TypeStep ==
  ASSUME TypeOK, Stamped, [Next]_vars
  PROVE  TypeOK' /\ Stamped'
  <1> USE MapsOfTypeOK
  <1>1. CASE Attach
    <2>1. attached' \in 0 .. EXIT
      <3>1. attached < 4 /\ attached' = attached + 1
        BY <1>1 DEF Attach, EXIT
      <3>2. attached \in 0 .. 4
        BY DEF TypeOK, EXIT
      <3> QED
        BY <3>1, <3>2 DEF EXIT
    <2>2. observed' \subseteq Pids
      BY <1>1 DEF Attach, TypeOK
    <2> QED
      BY <1>1, <2>1, <2>2 DEF Attach, kernelVars, mapVars, TypeOK, Stamped,
                              StampsUpTo, should_trace
  <1>2. ASSUME NEW p \in Pids, NEW d \in Durations, Fork(p, d)
        PROVE  TypeOK' /\ Stamped'
    <2>1. /\ Elapse(d, {p})
          /\ tstate' = [tstate EXCEPT ![p] = "queued"]
          /\ wakeups' = IF Attached(WAKEUP_NEW)
                        THEN [wakeups EXCEPT ![p] = @ + 1] ELSE wakeups
          /\ handle_sched_wakeup_new(p, now + d)
          /\ UNCHANGED <<curr, preparing, exited, attached, observed>>
      BY <1>2 DEF Fork
    <2>2. /\ now' = now + d /\ now + d \in Nat /\ StampsUpTo(now + d)
          /\ cpuTime' \in [Pids -> Nat]
          /\ queueTime' \in [Pids -> Nat]
          /\ queuedFor' \in [Pids -> Nat]
      BY <2>1, ElapseFacts DEF Stamped
    <2>3. MapsTypeOK' /\ StampsAfter(now + d)
      BY <2>1, <2>2, WakeupNewHandler
    <2>4. tstate' \in [Pids -> TaskStates] /\ wakeups' \in [Pids -> Nat]
      <3>1. tstate \in [Pids -> TaskStates] /\ wakeups \in [Pids -> Nat]
        BY DEF TypeOK
      <3>2. wakeups' \in [Pids -> Nat]
        BY <2>1, <3>1
      <3> QED
        BY <2>1, <3>1, <3>2 DEF TaskStates
    <2> QED
      BY <2>1, <2>2, <2>3, <2>4
      DEF TypeOK, MapsTypeOK, Traced, Slots, Stamped, StampsUpTo, StampsAfter,
          should_trace
  <1>3. ASSUME NEW p \in Pids, NEW d \in Durations, Wake(p, d)
        PROVE  TypeOK' /\ Stamped'
    <2>1. \E J : Elapse(d, J)
      BY <1>3 DEF Wake
    <2>2. /\ now' = now + d /\ now + d \in Nat /\ StampsUpTo(now + d)
          /\ cpuTime' \in [Pids -> Nat]
          /\ queueTime' \in [Pids -> Nat]
          /\ queuedFor' \in [Pids -> Nat]
      BY <2>1, ElapseFacts DEF Stamped
    <2>3. /\ handle_sched_wakeup(p, now + d)
          /\ wakeups' = IF Attached(WAKEUP)
                        THEN [wakeups EXCEPT ![p] = @ + 1] ELSE wakeups
          /\ UNCHANGED <<curr, exited, attached, observed>>
      BY <1>3 DEF Wake
    <2>4. MapsTypeOK' /\ StampsAfter(now + d)
      BY <2>2, <2>3, WakeupHandler
    <2>5. tstate' \in [Pids -> TaskStates] /\ preparing' \subseteq Pids
      BY <1>3 DEF Wake, TypeOK, TaskStates
    <2>6. wakeups' \in [Pids -> Nat]
      <3>1. wakeups \in [Pids -> Nat]
        BY DEF TypeOK
      <3> QED
        BY <2>3, <3>1
    <2> QED
      BY <2>2, <2>3, <2>4, <2>5, <2>6
      DEF TypeOK, MapsTypeOK, Traced, Slots, Stamped, StampsUpTo, StampsAfter,
          should_trace
  <1>4. ASSUME NEW p \in Pids, PrepareToSleep(p)
        PROVE  TypeOK' /\ Stamped'
    BY <1>4 DEF PrepareToSleep, mapVars, historyVars, TypeOK, Stamped,
                StampsUpTo, should_trace
  <1>5. ASSUME NEW c \in CPUs, NEW next \in Pids \cup {Idle},
               NEW d \in Durations, ContextSwitch(c, next, d)
        PROVE  TypeOK' /\ Stamped'
    <2> DEFINE prev == curr[c]
    <2>1. /\ next # prev
          /\ curr' = [curr EXCEPT ![c] = next]
          /\ Elapse(d, {prev} \cap Pids)
          /\ handle_sched_switch(prev, next, now + d)
          /\ UNCHANGED <<attached, wakeups, observed>>
      BY <1>5 DEF ContextSwitch
    <2>2. prev \in Pids \cup {Idle}
      BY DEF TypeOK
    <2>3. /\ now' = now + d /\ now + d \in Nat /\ StampsUpTo(now + d)
          /\ cpuTime' \in [Pids -> Nat]
          /\ queueTime' \in [Pids -> Nat]
          /\ queuedFor' \in [Pids -> Nat]
      BY <2>1, ElapseFacts DEF Stamped
    <2>4. MapsTypeOK' /\ StampsAfter(now + d)
      <3>1. CASE Attached(SWITCH)
        BY <2>1, <2>2, <2>3, <3>1, SwitchHandler
      <3>2. CASE ~Attached(SWITCH)
        BY <2>1, <2>3, <3>2
        DEF handle_sched_switch, mapVars, MapsTypeOK, StampsUpTo, StampsAfter
      <3> QED
        BY <3>1, <3>2
    <2>5. /\ tstate' \in [Pids -> TaskStates]
          /\ preparing' \subseteq Pids
          /\ exited' \subseteq Pids
      BY <1>5 DEF ContextSwitch, LeavesAs, TypeOK, TaskStates
    <2>6. curr' \in [CPUs -> Pids \cup {Idle}]
      BY <2>1 DEF TypeOK
    <2> QED
      BY <2>1, <2>3, <2>4, <2>5, <2>6
      DEF TypeOK, MapsTypeOK, Traced, Slots, Stamped, StampsUpTo, StampsAfter,
          should_trace
  <1>6. ASSUME NEW p \in Pids, NEW d \in Durations, ProcessExit(p, d)
        PROVE  TypeOK' /\ Stamped'
    <2>1. /\ Elapse(d, {})
          /\ exited' = exited \cup {p}
          /\ handle_sched_process_exit(p, now + d)
          /\ UNCHANGED <<tstate, curr, preparing, attached, wakeups, observed>>
      BY <1>6 DEF ProcessExit
    <2>2. /\ now' = now + d /\ now + d \in Nat /\ StampsUpTo(now + d)
          /\ cpuTime' \in [Pids -> Nat]
          /\ queueTime' \in [Pids -> Nat]
          /\ queuedFor' \in [Pids -> Nat]
      BY <2>1, ElapseFacts DEF Stamped
    <2>3. MapsTypeOK' /\ StampsAfter(now + d)
      BY <2>1, <2>2, ExitHandler
    <2> QED
      BY <2>1, <2>2, <2>3
      DEF TypeOK, MapsTypeOK, Traced, Slots, Stamped, StampsUpTo, StampsAfter,
          should_trace
  <1>7. CASE Consume
    <2>1. events' \in Seq(Event)
      BY <1>7 DEF Consume, TypeOK
    <2> QED
      BY <1>7, <2>1 DEF Consume, kernelVars, historyVars, TypeOK, Stamped,
                        StampsUpTo, should_trace
  <1>8. CASE UNCHANGED vars
    BY <1>8 DEF vars, kernelVars, mapVars, historyVars, TypeOK, Stamped,
                StampsUpTo, should_trace
  <1> QED
    BY <1>1, <1>2, <1>3, <1>4, <1>5, <1>6, <1>7, <1>8 DEF Next

(* Every variable keeps its type, and no time stamp in the maps is ahead of *)
(* the clock, so no latency or run time the handlers subtract is negative.  *)
THEOREM TypeCorrect == Spec => [](TypeOK /\ Stamped)
  <1>1. Init => TypeOK /\ Stamped
    <2>1. {"none", "asleep", "queued"} \in SUBSET TaskStates
      BY DEF TaskStates
    <2> QED
      BY <2>1, TypeInit DEF Init, EXIT
  <1>2. TypeOK /\ Stamped /\ [Next]_vars => (TypeOK /\ Stamped)'
    BY TypeStep
  <1> QED
    BY <1>1, <1>2, PTL DEF Spec

------------------------------------------------------------------------------
(* Run time and wakeup counts. *)

(* A CPU runs a running task, and no two CPUs the same one. *)
CpuOK ==
  \A c \in CPUs : curr[c] # Idle =>
    /\ tstate[curr[c]] = "running"
    /\ \A e \in CPUs : curr[e] = curr[c] => e = c

(* A task on the way to sleep is on a runqueue. *)
PreparingOK == \A p \in preparing : tstate[p] \in {"running", "queued"}

(* Only handle_sched_switch stamps a switch-in. *)
NoSwitchYet ==
  ~Attached(SWITCH) =>
    \A p \in DOMAIN task_stats : task_stats[p].last_switch_in_ts = 0

(* A pid with an entry in wakeup_ts has been woken. *)
PendingCounted == \A p \in DOMAIN wakeup_ts : wakeups[p] > 0

(* A task traced from its fork is stamped whenever it runs, and without a  *)
(* record only while it does not exist yet or since the map is full.       *)
ObservedOK ==
  \A p \in observed :
    /\ attached = EXIT
    /\ p \in DOMAIN task_stats /\ tstate[p] = "running"
         => task_stats[p].last_switch_in_ts > 0
    /\ p \notin DOMAIN task_stats /\ should_trace(p) /\ ~Full(task_stats)
         => tstate[p] = "none" /\ cpuTime[p] = 0

IInv ==
  /\ TypeOK
  /\ Stamped
  /\ CpuOK
  /\ PreparingOK
  /\ NoSwitchYet
  /\ PendingCounted
  /\ WakeupsSound
  /\ RunTimeSound
  /\ ObservedOK
  /\ RunTimeExact

(* A step that moves at most one task, onto a runqueue, and only adds a    *)
(* record or a wakeup to the stats: Fork, Wake and ProcessExit.            *)
LEMMA QuietStep ==
  ASSUME IInv, TypeOK', NEW p \in Pids, NEW d \in Durations, NEW J,
         Elapse(d, J), WakeStats(p),
         UNCHANGED <<curr, attached, observed>>,
         \/ UNCHANGED tstate
         \/ /\ tstate' = [tstate EXCEPT ![p] = "queued"]
            /\ tstate[p] # "running",
         p \in observed /\ should_trace(p) /\ p \notin DOMAIN task_stats
           /\ ~Full(task_stats)
             => p \in DOMAIN task_stats' \/ UNCHANGED tstate
  PROVE  CpuOK' /\ NoSwitchYet' /\ RunTimeSound' /\ ObservedOK' /\ RunTimeExact'
  <1>1. d \in Nat /\ d > 0 /\ now' = now + d /\ now \in Nat
    BY TimeAssumption DEF Elapse, IInv, TypeOK
  <1>2. \A q \in Pids : tstate'[q] = "running" <=> tstate[q] = "running"
    BY DEF IInv, TypeOK
  <1>3. \A q \in Pids : cpuTime'[q] = IF tstate[q] = "running"
                                      THEN cpuTime[q] + d ELSE cpuTime[q]
    BY DEF Elapse
  <1>4. \A q \in DOMAIN task_stats' :
          /\ q \in Pids
          /\ cpuTime[q] \in Nat
    BY DEF IInv, TypeOK
  <1>5. \A q \in DOMAIN task_stats :
          /\ task_stats[q].run_time_ns \in Nat
          /\ task_stats[q].last_switch_in_ts \in Nat
          /\ task_stats[q].last_switch_in_ts <= now
    BY DEF IInv, TypeOK, TaskStats, Stamped, StampsUpTo
  <1>6. CpuOK'
    <2>1. \A c \in CPUs : curr[c] \in Pids \cup {Idle}
      BY DEF IInv, TypeOK
    <2> QED
      BY <1>2, <2>1 DEF IInv, CpuOK
  <1>7. NoSwitchYet'
    BY DEF IInv, NoSwitchYet, WakeStats, Attached
  <1>8. ASSUME NEW q \in DOMAIN task_stats'
        PROVE  /\ task_stats'[q].run_time_ns + Slice(q)' <= cpuTime'[q]
               /\ q \in observed =>
                    task_stats'[q].run_time_ns + Slice(q)' = cpuTime'[q]
    <2>1. CASE q \in DOMAIN task_stats
      <3>1. /\ task_stats'[q].run_time_ns = task_stats[q].run_time_ns
            /\ task_stats'[q].last_switch_in_ts
                 = task_stats[q].last_switch_in_ts
        BY <2>1 DEF WakeStats
      <3>2. task_stats[q].run_time_ns + Slice(q) <= cpuTime[q]
        BY <2>1 DEF IInv, RunTimeSound
      <3>3. q \in observed => task_stats[q].run_time_ns + Slice(q) = cpuTime[q]
        BY <2>1 DEF IInv, RunTimeExact
      <3>4. q \in observed /\ tstate[q] = "running"
              => task_stats[q].last_switch_in_ts > 0
        BY <2>1 DEF IInv, ObservedOK
      <3>5. Slice(q)' = IF tstate[q] = "running"
                           /\ task_stats[q].last_switch_in_ts > 0
                        THEN (now + d) - task_stats[q].last_switch_in_ts ELSE 0
        <4>1. tstate'[q] = "running" <=> tstate[q] = "running"
          BY <1>2, <1>4
        <4>2. task_stats[q].last_switch_in_ts \in Nat
          BY <1>5, <2>1
        <4>3. task_stats'[q].last_switch_in_ts \in Nat
          BY <3>1, <4>2
        <4> QED
          BY <1>1, <3>1, <4>1, <4>2, <4>3, SMTT(30) DEF Slice
      <3>6. Slice(q) = IF tstate[q] = "running"
                           /\ task_stats[q].last_switch_in_ts > 0
                       THEN now - task_stats[q].last_switch_in_ts ELSE 0
        BY DEF Slice
      <3>7. q \in Pids /\ cpuTime[q] \in Nat
        BY <1>4
      <3>8. /\ task_stats[q].run_time_ns \in Nat
            /\ task_stats[q].last_switch_in_ts \in Nat
        BY <1>5, <2>1
      <3> QED
        BY <1>1, <1>3, <3>1, <3>2, <3>3, <3>4, <3>5, <3>6, <3>7, <3>8
    <2>2. CASE q \notin DOMAIN task_stats
      <3>1. /\ q = p /\ ~Full(task_stats)
            /\ task_stats'[q].run_time_ns = 0
            /\ task_stats'[q].last_switch_in_ts = 0
        BY <2>2 DEF WakeStats
      <3>2. Slice(q)' = 0
        BY <3>1 DEF Slice
      <3>3. cpuTime'[q] >= 0
        BY <1>1, <1>3, <1>4
      <3>4. q \in observed => tstate[q] = "none" /\ cpuTime[q] = 0
        BY <2>2, <3>1 DEF IInv, ObservedOK, TypeOK
      <3> QED
        BY <1>3, <1>4, <3>1, <3>2, <3>3, <3>4
    <2> QED
      BY <2>1, <2>2
  <1>9. ObservedOK'
    <2> SUFFICES ASSUME NEW q \in observed
                 PROVE  /\ attached = EXIT
                        /\ q \in DOMAIN task_stats' /\ tstate'[q] = "running"
                             => task_stats'[q].last_switch_in_ts > 0
                        /\ q \notin DOMAIN task_stats' /\ should_trace(q)
                             /\ ~Full(task_stats')
                             => tstate'[q] = "none" /\ cpuTime'[q] = 0
      BY DEF ObservedOK, should_trace
    <2>1. q \in Pids /\ cpuTime[q] \in Nat
      BY DEF IInv, TypeOK
    <2>2. /\ attached = EXIT
          /\ q \in DOMAIN task_stats /\ tstate[q] = "running"
               => task_stats[q].last_switch_in_ts > 0
          /\ q \notin DOMAIN task_stats /\ should_trace(q)
               /\ ~Full(task_stats) => tstate[q] = "none" /\ cpuTime[q] = 0
      BY DEF IInv, ObservedOK
    <2>3. ASSUME q \in DOMAIN task_stats', tstate'[q] = "running"
          PROVE  task_stats'[q].last_switch_in_ts > 0
      <3>1. tstate[q] = "running"
        BY <1>2, <2>1, <2>3
      <3>2. q \in DOMAIN task_stats
        BY <2>2, <2>3, <3>1 DEF WakeStats, IInv, TypeOK
      <3> QED
        BY <2>2, <3>1, <3>2 DEF WakeStats
    <2>4. ASSUME q \notin DOMAIN task_stats', should_trace(q),
                 ~Full(task_stats')
          PROVE  tstate'[q] = "none" /\ cpuTime'[q] = 0
      <3>1. q \notin DOMAIN task_stats
        BY <2>4 DEF WakeStats
      <3>2. Full(task_stats) => DOMAIN task_stats' = DOMAIN task_stats
        BY DEF WakeStats
      <3>3. ~Full(task_stats)
        BY <2>4, <3>2 DEF Full
      <3>4. tstate[q] = "none" /\ cpuTime[q] = 0
        BY <2>2, <2>4, <3>1, <3>3
      <3>5. cpuTime'[q] = 0
        BY <1>3, <2>1, <3>4
      <3>6. tstate'[q] = tstate[q]
        BY <2>1, <2>4, <3>1, <3>3 DEF IInv, TypeOK
      <3> QED
        BY <3>4, <3>5, <3>6
    <2> QED
      BY <2>2, <2>3, <2>4
  <1>10. RunTimeSound' /\ RunTimeExact'
    BY <1>8 DEF RunTimeSound, RunTimeExact
  <1> QED
    BY <1>6, <1>7, <1>9, <1>10

(* The step that moves prev off a CPU and next onto it. *)
LEMMA SwitchStep ==
  ASSUME IInv, TypeOK', NEW c \in CPUs, NEW next \in Pids \cup {Idle},
         NEW d \in Durations, ContextSwitch(c, next, d)
  PROVE  CpuOK' /\ NoSwitchYet' /\ RunTimeSound' /\ ObservedOK' /\ RunTimeExact'
  <1> DEFINE prev == curr[c]
  <1>1. /\ next # prev
        /\ next # Idle => tstate[next] = "queued"
        /\ curr' = [curr EXCEPT ![c] = next]
        /\ Elapse(d, {prev} \cap Pids)
        /\ handle_sched_switch(prev, next, now + d)
        /\ UNCHANGED <<attached, wakeups, observed>>
    BY DEF ContextSwitch
  <1>2. PICK left \in {"queued", "asleep", "none"} :
          tstate' = [p \in Pids |-> IF p = prev THEN left
                                    ELSE IF p = next THEN "running"
                                    ELSE tstate[p]]
    BY DEF ContextSwitch, LeavesAs
  <1>3. /\ prev \in Pids \cup {Idle}
        /\ prev # Idle => prev \in Pids /\ tstate[prev] = "running"
        /\ next # Idle => next \in Pids
        /\ Idle \notin Pids
    BY PidsAssumption DEF IInv, TypeOK, CpuOK, Idle
  <1>4. /\ d \in Nat /\ d > 0 /\ now' = now + d /\ now + d \in Nat
        /\ now \in Nat
        /\ StampsUpTo(now + d)
    BY <1>1, ElapseFacts DEF IInv, Stamped, TypeOK
  <1>5. \A q \in Pids : cpuTime'[q] = IF tstate[q] = "running"
                                      THEN cpuTime[q] + d ELSE cpuTime[q]
    BY <1>1 DEF Elapse
  <1>6. \A q \in Pids : tstate'[q] = IF q = prev THEN left
                                     ELSE IF q = next THEN "running"
                                     ELSE tstate[q]
    BY <1>2
  <1>7. Attached(SWITCH) => SwitchStats(prev, next, now + d)
    BY <1>1, <1>3, <1>4, MapsOfTypeOK, SwitchHandler DEF IInv
  <1>8. ~Attached(SWITCH) => UNCHANGED mapVars
    BY <1>1 DEF handle_sched_switch
  (* Both cases in one: what becomes of a record. *)
  <1>9. /\ DOMAIN task_stats' = DOMAIN task_stats
        /\ \A q \in DOMAIN task_stats :
             /\ task_stats'[q].run_time_ns =
                  IF q = prev /\ task_stats[q].last_switch_in_ts > 0
                  THEN task_stats[q].run_time_ns
                         + ((now + d) - task_stats[q].last_switch_in_ts)
                  ELSE task_stats[q].run_time_ns
             /\ task_stats'[q].last_switch_in_ts =
                  IF q = next /\ Attached(SWITCH) THEN now + d
                  ELSE task_stats[q].last_switch_in_ts
    <2>1. CASE Attached(SWITCH)
      <3> DEFINE ts == now + d
      <3>1. SwitchStats(prev, next, ts)
        BY <1>7, <2>1
      <3> HIDE DEF prev, ts
      <3>2. ASSUME NEW q \in DOMAIN task_stats
            PROVE  /\ task_stats'[q].run_time_ns =
                        IF q = prev /\ task_stats[q].last_switch_in_ts > 0
                        THEN task_stats[q].run_time_ns
                               + (ts - task_stats[q].last_switch_in_ts)
                        ELSE task_stats[q].run_time_ns
                   /\ task_stats'[q].last_switch_in_ts =
                        IF q = next THEN ts
                        ELSE task_stats[q].last_switch_in_ts
        BY <3>1 DEF SwitchStats
      <3>3. DOMAIN task_stats' = DOMAIN task_stats
        BY <3>1 DEF SwitchStats
      <3> QED
        BY <2>1, <3>2, <3>3, Zenon DEF ts
    <2>2. CASE ~Attached(SWITCH)
      <3>1. \A q \in DOMAIN task_stats : task_stats[q].last_switch_in_ts = 0
        BY <2>2 DEF IInv, NoSwitchYet
      <3>2. task_stats' = task_stats
        BY <1>8, <2>2 DEF mapVars
      <3>3. \A q \in DOMAIN task_stats : ~(task_stats[q].last_switch_in_ts > 0)
        BY <3>1
      <3> QED
        BY <2>2, <3>2, <3>3
    <2> QED
      BY <2>1, <2>2
  <1>10. CpuOK'
    <2> SUFFICES ASSUME NEW e \in CPUs, curr'[e] # Idle
                 PROVE  /\ tstate'[curr'[e]] = "running"
                        /\ \A f \in CPUs : curr'[f] = curr'[e] => f = e
      BY DEF CpuOK
    <2>1. \A f \in CPUs : curr'[f] = IF f = c THEN next ELSE curr[f]
      BY <1>1 DEF IInv, TypeOK
    <2>2. \A f \in CPUs : f # c /\ curr[f] # Idle =>
            /\ tstate[curr[f]] = "running"
            /\ curr[f] \in Pids
            /\ curr[f] # prev
            /\ curr[f] # next
      BY <1>1 DEF IInv, TypeOK, CpuOK
    <2>3. CASE e = c
      BY <1>1, <1>3, <1>6, <2>1, <2>2, <2>3
    <2>4. CASE e # c
      <3>1. /\ curr'[e] = curr[e] /\ curr[e] # Idle
        BY <2>1, <2>4
      <3>2. tstate'[curr[e]] = "running"
        BY <1>6, <2>2, <2>4, <3>1
      <3>3. \A f \in CPUs : curr'[f] = curr[e] => f = e
        BY <2>1, <2>2, <2>4, <3>1 DEF IInv, CpuOK
      <3> QED
        BY <3>1, <3>2, <3>3
    <2> QED
      BY <2>3, <2>4
  <1>11. NoSwitchYet'
    BY <1>1, <1>9 DEF IInv, NoSwitchYet, Attached
  <1>12. ASSUME NEW q \in DOMAIN task_stats
         PROVE  /\ task_stats'[q].run_time_ns + Slice(q)' <= cpuTime'[q]
                /\ q \in observed =>
                     task_stats'[q].run_time_ns + Slice(q)' = cpuTime'[q]
    <2> DEFINE run == task_stats[q].run_time_ns
               last == task_stats[q].last_switch_in_ts
    <2>1. /\ q \in Pids /\ cpuTime[q] \in Nat
          /\ run \in Nat /\ last \in Nat /\ last <= now
      BY DEF IInv, TypeOK, TaskStats, Stamped, StampsUpTo
    <2>2. run + Slice(q) <= cpuTime[q]
      BY DEF IInv, RunTimeSound
    <2>3. q \in observed => run + Slice(q) = cpuTime[q]
      BY DEF IInv, RunTimeExact
    <2>4. q \in observed /\ tstate[q] = "running" => last > 0
      BY DEF IInv, ObservedOK
    <2>5. Slice(q) = IF tstate[q] = "running" /\ last > 0 THEN now - last ELSE 0
      BY DEF Slice
    <2>6. Slice(q)' = IF tstate'[q] = "running"
                         /\ task_stats'[q].last_switch_in_ts > 0
                      THEN now' - task_stats'[q].last_switch_in_ts ELSE 0
      BY DEF Slice
    <2>7. CASE q = prev
      <3>1. Slice(q)' = 0
        BY <1>2, <1>6, <2>1, <2>6, <2>7
      <3>2. tstate[q] = "running" /\ cpuTime'[q] = cpuTime[q] + d
        BY <1>3, <1>5, <2>1, <2>7
      <3>3. task_stats'[q].run_time_ns =
              IF last > 0 THEN run + ((now + d) - last) ELSE run
        BY <1>9, <2>7
      <3> HIDE DEF run, last, prev
      <3> QED
        BY <1>4, <2>1, <2>2, <2>3, <2>4, <2>5, <3>1, <3>2, <3>3
    <2>8. CASE q = next
      <3>1. q # prev /\ tstate[q] = "queued" /\ tstate'[q] = "running"
        BY <1>1, <1>3, <1>6, <2>1, <2>8
      <3>2. task_stats'[q].run_time_ns = run
        BY <1>9, <3>1
      <3>3. Slice(q)' = 0
        <4>1. CASE Attached(SWITCH)
          BY <1>4, <1>9, <2>6, <2>8, <4>1
        <4>2. CASE ~Attached(SWITCH)
          BY <1>9, <2>6, <4>2 DEF IInv, NoSwitchYet
        <4> QED
          BY <4>1, <4>2
      <3>4. cpuTime'[q] = cpuTime[q] /\ Slice(q) = 0
        BY <1>5, <2>1, <2>5, <3>1
      <3> HIDE DEF run, last, prev
      <3> QED
        BY <2>1, <2>2, <2>3, <3>2, <3>3, <3>4
    <2>9. CASE q # prev /\ q # next
      <3>1. tstate'[q] = tstate[q]
        BY <1>6, <2>1, <2>9
      <3>2. /\ task_stats'[q].run_time_ns = run
            /\ task_stats'[q].last_switch_in_ts = last
        BY <1>9, <2>9
      <3> HIDE DEF run, last, prev
      <3>3. Slice(q)' = IF tstate[q] = "running" /\ last > 0
                        THEN (now + d) - last ELSE 0
        BY <1>4, <2>1, <2>6, <3>1, <3>2
      <3> QED
        BY <1>4, <1>5, <2>1, <2>2, <2>3, <2>4, <2>5, <3>2, <3>3
    <2> QED
      BY <2>7, <2>8, <2>9
  <1>13. RunTimeSound' /\ RunTimeExact'
    BY <1>1, <1>9, <1>12 DEF RunTimeSound, RunTimeExact
  <1>14. ObservedOK'
    <2> SUFFICES ASSUME NEW q \in observed
                 PROVE  /\ attached = EXIT
                        /\ q \in DOMAIN task_stats' /\ tstate'[q] = "running"
                             => task_stats'[q].last_switch_in_ts > 0
                        /\ q \notin DOMAIN task_stats' /\ should_trace(q)
                             /\ ~Full(task_stats')
                             => tstate'[q] = "none" /\ cpuTime'[q] = 0
      BY <1>1 DEF ObservedOK, should_trace
    <2>1. /\ q \in Pids
          /\ attached = EXIT
          /\ q \in DOMAIN task_stats /\ tstate[q] = "running"
               => task_stats[q].last_switch_in_ts > 0
          /\ q \notin DOMAIN task_stats /\ should_trace(q)
               /\ ~Full(task_stats) => tstate[q] = "none" /\ cpuTime[q] = 0
      BY DEF IInv, TypeOK, ObservedOK
    <2>2. Attached(SWITCH)
      BY <2>1 DEF Attached, SWITCH, EXIT
    <2>3. Full(task_stats') <=> Full(task_stats)
      BY <1>9 DEF Full
    <2>4. ASSUME q \in DOMAIN task_stats', tstate'[q] = "running"
          PROVE  task_stats'[q].last_switch_in_ts > 0
      <3>1. q \in DOMAIN task_stats /\ q # prev
        BY <1>2, <1>6, <1>9, <2>1, <2>4
      <3>2. CASE q = next
        BY <1>4, <1>9, <2>2, <3>1, <3>2
      <3>3. CASE q # next
        BY <1>6, <1>9, <2>1, <2>4, <3>1, <3>3
      <3> QED
        BY <3>2, <3>3
    <2>5. ASSUME q \notin DOMAIN task_stats', should_trace(q),
                 ~Full(task_stats')
          PROVE  tstate'[q] = "none" /\ cpuTime'[q] = 0
      <3>1. tstate[q] = "none" /\ cpuTime[q] = 0
        BY <1>9, <2>1, <2>3, <2>5
      <3>2. q # prev /\ q # next
        BY <1>1, <1>3, <2>1, <3>1
      <3> QED
        BY <1>5, <1>6, <2>1, <3>1, <3>2
    <2> QED
      BY <2>1, <2>4, <2>5
  <1> QED
    BY <1>10, <1>11, <1>13, <1>14

(* A wakeup the handlers see is counted for its pid, whether or not the    *)
(* record could be inserted.                                               *)
LEMMA CountStep ==
  ASSUME IInv, TypeOK', NEW p \in Pids, WakeStats(p),
         \A q \in DOMAIN wakeup_ts' : q # p => q \in DOMAIN wakeup_ts,
         \/ wakeups' = [wakeups EXCEPT ![p] = @ + 1]
         \/ UNCHANGED <<wakeups, wakeup_ts, task_stats>>
  PROVE  WakeupsSound' /\ PendingCounted'
  <1>1. CASE UNCHANGED <<wakeups, wakeup_ts, task_stats>>
    BY <1>1 DEF IInv, WakeupsSound, PendingCounted
  <1>2. CASE wakeups' = [wakeups EXCEPT ![p] = @ + 1]
    <2>1. \A q \in Pids : /\ wakeups[q] \in Nat
                          /\ wakeups'[q] = IF q = p THEN wakeups[q] + 1
                                           ELSE wakeups[q]
      BY <1>2 DEF IInv, TypeOK
    <2>2. PendingCounted'
      <3>1. \A q \in DOMAIN wakeup_ts' : q \in Pids
        BY DEF TypeOK
      <3> QED
        BY <2>1, <3>1 DEF IInv, PendingCounted
    <2>3. ASSUME NEW q \in DOMAIN task_stats'
          PROVE  task_stats'[q].wakeups \in 1 .. wakeups'[q]
      <3>1. q \in Pids /\ task_stats'[q].wakeups \in Nat
        BY DEF TypeOK, TaskStats
      <3>2. CASE q \in DOMAIN task_stats
        <4>1. task_stats[q].wakeups \in 1 .. wakeups[q]
          BY <3>2 DEF IInv, WakeupsSound
        <4>2. /\ task_stats'[q].wakeups >= task_stats[q].wakeups
              /\ task_stats'[q].wakeups <=
                   task_stats[q].wakeups
                     + (IF q = p /\ task_stats' # task_stats THEN 1 ELSE 0)
          BY <3>2 DEF WakeStats
        <4> QED
          BY <2>1, <3>1, <4>1, <4>2
      <3>3. CASE q \notin DOMAIN task_stats
        <4>1. q = p /\ task_stats'[q].wakeups = 1
          BY <3>3 DEF WakeStats
        <4> QED
          BY <2>1, <3>1, <4>1
      <3> QED
        BY <3>2, <3>3
    <2> QED
      BY <2>2, <2>3 DEF WakeupsSound
  <1> QED
    BY <1>1, <1>2

LEMMA IInvInit == Init => IInv
  <1> SUFFICES ASSUME Init
               PROVE  IInv
    OBVIOUS
  <1>1. TypeOK /\ Stamped
    <2>1. {"none", "asleep", "queued"} \in SUBSET TaskStates
      BY DEF TaskStates
    <2> QED
      BY <2>1, TypeInit DEF Init, EXIT
  <1> QED
    BY <1>1 DEF Init, Start, EmptyMap, IInv, CpuOK, PreparingOK, NoSwitchYet,
                PendingCounted, WakeupsSound, RunTimeSound, ObservedOK,
                RunTimeExact

LEMMA IInvStep == IInv /\ [Next]_vars => IInv'
  <1> SUFFICES ASSUME IInv, [Next]_vars
               PROVE  IInv'
    OBVIOUS
  <1>1. TypeOK' /\ Stamped'
    BY TypeStep DEF IInv
  <1>2. CASE Attach
    <2>1. /\ UNCHANGED <<now, tstate, curr, preparing, wakeup_ts, task_stats,
                         cpuTime, wakeups>>
          /\ attached' = attached + 1
          /\ observed' = IF attached' = EXIT
                         THEN {p \in Pids : tstate[p] = "none"
                                 /\ cpuTime[p] = 0 /\ wakeups[p] = 0}
                         ELSE observed
          /\ attached < EXIT
          /\ attached \in Nat
      BY <1>2 DEF Attach, kernelVars, mapVars, IInv, TypeOK, EXIT
    <2>2. observed = {}
      BY <2>1 DEF IInv, ObservedOK, EXIT
    <2>3. \A p \in observed' : /\ attached' = EXIT
                               /\ tstate[p] = "none"
                               /\ cpuTime[p] = 0
                               /\ p \notin DOMAIN task_stats
      BY <2>1, <2>2 DEF IInv, WakeupsSound
    <2>4. CpuOK' /\ PreparingOK' /\ PendingCounted' /\ WakeupsSound'
            /\ RunTimeSound'
      BY <2>1 DEF IInv, CpuOK, PreparingOK, PendingCounted, WakeupsSound,
                  RunTimeSound, Slice
    <2>5. NoSwitchYet'
      BY <2>1 DEF IInv, NoSwitchYet, Attached, SWITCH
    <2>6. ObservedOK' /\ RunTimeExact'
      BY <2>1, <2>3 DEF ObservedOK, RunTimeExact
    <2> QED
      BY <1>1, <2>4, <2>5, <2>6 DEF IInv
  <1>3. ASSUME NEW p \in Pids, NEW d \in Durations, Fork(p, d)
        PROVE  IInv'
    <2>1. /\ Elapse(d, {p})
          /\ tstate[p] = "none"
          /\ tstate' = [tstate EXCEPT ![p] = "queued"]
          /\ wakeups' = IF Attached(WAKEUP_NEW)
                        THEN [wakeups EXCEPT ![p] = @ + 1] ELSE wakeups
          /\ handle_sched_wakeup_new(p, now + d)
          /\ UNCHANGED <<curr, preparing, exited, attached, observed>>
      BY <1>3 DEF Fork
    <2>2. now + d \in Nat /\ StampsUpTo(now + d)
      BY <2>1, ElapseFacts DEF IInv, Stamped
    <2>3. /\ WakeStats(p)
          /\ \A q \in DOMAIN wakeup_ts' : q # p => q \in DOMAIN wakeup_ts
          /\ Attached(WAKEUP_NEW) /\ p \in Traced /\ ~Full(task_stats)
               => p \in DOMAIN task_stats'
          /\ ~Attached(WAKEUP_NEW) => UNCHANGED mapVars
      BY <2>1, <2>2, MapsOfTypeOK, WakeupNewHandler DEF IInv
    <2>4. p \in observed => Attached(WAKEUP_NEW)
      BY DEF IInv, ObservedOK, Attached, WAKEUP_NEW, EXIT
    <2>5. CpuOK' /\ NoSwitchYet' /\ RunTimeSound' /\ ObservedOK' /\ RunTimeExact'
      BY <1>1, <2>1, <2>3, <2>4, QuietStep DEF Traced
    <2>6. WakeupsSound' /\ PendingCounted'
      BY <1>1, <2>1, <2>3, CountStep DEF mapVars
    <2>7. PreparingOK'
      BY <2>1 DEF IInv, TypeOK, PreparingOK
    <2> QED
      BY <1>1, <2>5, <2>6, <2>7 DEF IInv
  <1>4. ASSUME NEW p \in Pids, NEW d \in Durations, Wake(p, d)
        PROVE  IInv'
    <2>1. PICK J : Elapse(d, J)
      BY <1>4 DEF Wake
    <2>2. /\ handle_sched_wakeup(p, now + d)
          /\ wakeups' = IF Attached(WAKEUP)
                        THEN [wakeups EXCEPT ![p] = @ + 1] ELSE wakeups
          /\ UNCHANGED <<curr, exited, attached, observed>>
          /\ \/ /\ tstate[p] = "asleep"
                /\ tstate' = [tstate EXCEPT ![p] = "queued"]
                /\ UNCHANGED preparing
             \/ /\ preparing' = preparing \ {p}
                /\ UNCHANGED tstate
      BY <1>4 DEF Wake
    <2>3. now + d \in Nat /\ StampsUpTo(now + d)
      BY <2>1, ElapseFacts DEF IInv, Stamped
    <2>4. /\ WakeStats(p)
          /\ \A q \in DOMAIN wakeup_ts' : q # p => q \in DOMAIN wakeup_ts
          /\ ~Attached(WAKEUP) => UNCHANGED mapVars
      BY <2>2, <2>3, MapsOfTypeOK, WakeupHandler DEF IInv
    <2>5. p \in observed /\ should_trace(p) /\ p \notin DOMAIN task_stats
            /\ ~Full(task_stats) => UNCHANGED tstate
      BY <2>2 DEF IInv, ObservedOK
    <2>6. CpuOK' /\ NoSwitchYet' /\ RunTimeSound' /\ ObservedOK' /\ RunTimeExact'
      BY <1>1, <2>1, <2>2, <2>4, <2>5, QuietStep
    <2>7. WakeupsSound' /\ PendingCounted'
      BY <1>1, <2>2, <2>4, CountStep DEF mapVars
    <2>8. PreparingOK'
      BY <2>2 DEF IInv, TypeOK, PreparingOK
    <2> QED
      BY <1>1, <2>6, <2>7, <2>8 DEF IInv
  <1>5. ASSUME NEW p \in Pids, PrepareToSleep(p)
        PROVE  IInv'
    <2>1. /\ UNCHANGED <<now, tstate, curr, attached, wakeup_ts, task_stats,
                         cpuTime, wakeups, observed>>
          /\ tstate[p] = "running"
          /\ preparing' = preparing \cup {p}
      BY <1>5 DEF PrepareToSleep, mapVars, historyVars
    <2>2. CpuOK' /\ PreparingOK' /\ PendingCounted' /\ WakeupsSound'
            /\ RunTimeSound'
      BY <2>1 DEF IInv, CpuOK, PreparingOK, PendingCounted, WakeupsSound,
                  RunTimeSound, Slice
    <2>3. NoSwitchYet' /\ ObservedOK' /\ RunTimeExact'
      BY <2>1 DEF IInv, NoSwitchYet, Attached, ObservedOK, RunTimeExact, Slice,
                  should_trace, Full
    <2> QED
      BY <1>1, <2>2, <2>3 DEF IInv
  <1>6. ASSUME NEW c \in CPUs, NEW next \in Pids \cup {Idle},
               NEW d \in Durations, ContextSwitch(c, next, d)
        PROVE  IInv'
    <2> DEFINE prev == curr[c]
    <2>1. /\ next # prev
          /\ next # Idle => tstate[next] = "queued"
          /\ Elapse(d, {prev} \cap Pids)
          /\ handle_sched_switch(prev, next, now + d)
          /\ UNCHANGED <<attached, wakeups, observed>>
      BY <1>6 DEF ContextSwitch
    <2>2. PICK left \in {"queued", "asleep", "none"} :
            /\ tstate' = [p \in Pids |-> IF p = prev THEN left
                                         ELSE IF p = next THEN "running"
                                         ELSE tstate[p]]
            /\ preparing' = IF left = "queued" THEN preparing
                            ELSE preparing \ {prev}
      BY <1>6 DEF ContextSwitch, LeavesAs
    <2>3. prev \in Pids \cup {Idle}
      BY DEF IInv, TypeOK
    <2>4. now + d \in Nat /\ StampsUpTo(now + d)
      BY <2>1, ElapseFacts DEF IInv, Stamped
    <2>5. Attached(SWITCH) => SwitchStats(prev, next, now + d)
      BY <2>1, <2>3, <2>4, MapsOfTypeOK, SwitchHandler DEF IInv
    <2>6. ~Attached(SWITCH) => UNCHANGED mapVars
      BY <2>1 DEF handle_sched_switch
    <2>7. CpuOK' /\ NoSwitchYet' /\ RunTimeSound' /\ ObservedOK' /\ RunTimeExact'
      BY <1>1, <1>6, SwitchStep
    <2> HIDE DEF prev
    <2>8. /\ DOMAIN wakeup_ts' \subseteq DOMAIN wakeup_ts
          /\ DOMAIN task_stats' = DOMAIN task_stats
          /\ \A q \in DOMAIN task_stats :
               task_stats'[q].wakeups = task_stats[q].wakeups
      <3>1. CASE Attached(SWITCH)
        BY <2>5, <3>1 DEF SwitchStats
      <3>2. CASE ~Attached(SWITCH)
        BY <2>6, <3>2 DEF mapVars
      <3> QED
        BY <3>1, <3>2
    <2>9. WakeupsSound' /\ PendingCounted'
      BY <2>1, <2>8 DEF IInv, WakeupsSound, PendingCounted
    <2>10. PreparingOK'
      BY <2>2 DEF IInv, TypeOK, PreparingOK
    <2> QED
      BY <1>1, <2>7, <2>9, <2>10 DEF IInv
  <1>7. ASSUME NEW p \in Pids, NEW d \in Durations, ProcessExit(p, d)
        PROVE  IInv'
    <2>1. /\ Elapse(d, {})
          /\ handle_sched_process_exit(p, now + d)
          /\ UNCHANGED <<tstate, curr, preparing, attached, wakeups, observed>>
      BY <1>7 DEF ProcessExit
    <2>2. now + d \in Nat /\ StampsUpTo(now + d)
      BY <2>1, ElapseFacts DEF IInv, Stamped
    <2>3. /\ task_stats' = task_stats
          /\ DOMAIN wakeup_ts' \subseteq DOMAIN wakeup_ts
      BY <2>1, <2>2, MapsOfTypeOK, ExitHandler DEF IInv
    <2>4. WakeStats(p)
      <3>1. \A q \in DOMAIN task_stats : task_stats[q].wakeups \in Nat
        BY DEF IInv, TypeOK, TaskStats
      <3>2. \A q \in DOMAIN task_stats : task_stats[q].switches \in Nat
        BY DEF IInv, TypeOK, TaskStats
      <3> QED
        BY <2>3, <3>1, <3>2 DEF WakeStats
    <2>5. CpuOK' /\ NoSwitchYet' /\ RunTimeSound' /\ ObservedOK' /\ RunTimeExact'
      BY <1>1, <2>1, <2>4, QuietStep
    <2>6. WakeupsSound' /\ PendingCounted' /\ PreparingOK'
      BY <2>1, <2>3 DEF IInv, WakeupsSound, PendingCounted, PreparingOK
    <2> QED
      BY <1>1, <2>5, <2>6 DEF IInv
  <1>8. CASE Consume
    <2>1. UNCHANGED <<now, tstate, curr, preparing, attached, wakeup_ts,
                      task_stats, cpuTime, wakeups, observed>>
      BY <1>8 DEF Consume, kernelVars, historyVars
    <2>2. CpuOK' /\ PreparingOK' /\ PendingCounted' /\ WakeupsSound'
            /\ RunTimeSound'
      BY <2>1 DEF IInv, CpuOK, PreparingOK, PendingCounted, WakeupsSound,
                  RunTimeSound, Slice
    <2>3. NoSwitchYet' /\ ObservedOK' /\ RunTimeExact'
      BY <2>1 DEF IInv, NoSwitchYet, Attached, ObservedOK, RunTimeExact, Slice,
                  should_trace, Full
    <2> QED
      BY <1>1, <2>2, <2>3 DEF IInv
  <1>9. CASE UNCHANGED vars
    <2>1. UNCHANGED <<now, tstate, curr, preparing, attached, wakeup_ts,
                      task_stats, cpuTime, wakeups, observed>>
      BY <1>9 DEF vars, kernelVars, mapVars, historyVars
    <2>2. CpuOK' /\ PreparingOK' /\ PendingCounted' /\ WakeupsSound'
            /\ RunTimeSound'
      BY <2>1 DEF IInv, CpuOK, PreparingOK, PendingCounted, WakeupsSound,
                  RunTimeSound, Slice
    <2>3. NoSwitchYet' /\ ObservedOK' /\ RunTimeExact'
      BY <2>1 DEF IInv, NoSwitchYet, Attached, ObservedOK, RunTimeExact, Slice,
                  should_trace, Full
    <2> QED
      BY <1>1, <2>2, <2>3 DEF IInv
  <1> QED
    BY <1>2, <1>3, <1>4, <1>5, <1>6, <1>7, <1>8, <1>9 DEF Next

THEOREM Inductive == Spec => []IInv
  BY IInvInit, IInvStep, PTL DEF Spec

(* handle_sched_switch never reports more run time for a pid than its tasks *)
(* had, at every instant and for every moment of attachment.               *)
THEOREM RunTimeIsSound == Spec => []RunTimeSound
  <1>1. IInv => RunTimeSound
    BY DEF IInv
  <1> QED
    BY <1>1, Inductive, PTL

(* For a task traced from its fork the reported run time, with the slice   *)
(* that is running, is its CPU time: handle_sched_switch misses no slice.  *)
THEOREM RunTimeIsExact == Spec => []RunTimeExact
  <1>1. IInv => RunTimeExact
    BY DEF IInv
  <1> QED
    BY <1>1, Inductive, PTL

(* handle_sched_wakeup and handle_sched_wakeup_new count no wakeup twice.  *)
THEOREM WakeupsAreSound == Spec => []WakeupsSound
  <1>1. IInv => WakeupsSound
    BY DEF IInv
  <1> QED
    BY <1>1, Inductive, PTL

------------------------------------------------------------------------------
(* Counting. *)

LEMMA UnitsZero ==
  ASSUME NEW S
  PROVE  Units([x \in S |-> 0]) = {}
  BY DEF Units

LEMMA UnitsAdd ==
  ASSUME NEW S, NEW f \in [S -> Nat], NEW x \in S, IsFiniteSet(Units(f)),
         NEW g, g = [f EXCEPT ![x] = @ + 1]
  PROVE  /\ IsFiniteSet(Units(g))
         /\ Cardinality(Units(g)) = Cardinality(Units(f)) + 1
  <1> DEFINE n == f[x] + 1
  <1>1. f[x] \in Nat /\ n \in Nat /\ n > f[x]
    OBVIOUS
  <1>2. g \in [S -> Nat] /\ \A y \in S : g[y] = IF y = x THEN n ELSE f[y]
    BY <1>1
  <1>3. <<x, n>> \notin Units(f)
    BY <1>1 DEF Units
  <1>4. 1 .. n = (1 .. f[x]) \cup {n}
    BY <1>1
  <1>5. Units(g) = Units(f) \cup {<<x, n>>}
    <2> HIDE DEF n
    <2>1. Units(g) \subseteq Units(f) \cup {<<x, n>>}
      <3> SUFFICES ASSUME NEW y \in S, NEW u \in {y} \X (1 .. g[y])
                   PROVE  u \in Units(f) \cup {<<x, n>>}
        BY <1>2 DEF Units
      <3>1. CASE y # x
        BY <1>2, <3>1 DEF Units
      <3>2. CASE y = x
        <4>1. PICK k \in 1 .. n : u = <<x, k>>
          BY <1>2, <3>2
        <4>2. CASE k \in 1 .. f[x]
          BY <4>1, <4>2 DEF Units
        <4>3. CASE k = n
          BY <4>1, <4>3
        <4> QED
          BY <1>4, <4>2, <4>3
      <3> QED
        BY <3>1, <3>2
    <2>2. Units(f) \subseteq Units(g)
      <3> SUFFICES ASSUME NEW y \in S, NEW u \in {y} \X (1 .. f[y])
                   PROVE  u \in {y} \X (1 .. g[y])
        BY <1>2 DEF Units
      <3> QED
        BY <1>1, <1>2
    <2>3. <<x, n>> \in Units(g)
      <3>1. n \in 1 .. g[x]
        BY <1>1, <1>2
      <3> QED
        BY <1>2, <3>1 DEF Units
    <2> QED
      BY <2>1, <2>2, <2>3
  <1>6. /\ IsFiniteSet(Units(f) \cup {<<x, n>>})
        /\ Cardinality(Units(f) \cup {<<x, n>>}) = Cardinality(Units(f)) + 1
    <2> HIDE DEF n
    <2> QED
      BY <1>3, FS_AddElement
  <1> QED
    BY <1>5, <1>6

------------------------------------------------------------------------------
(* What a step does to the pending wakeups, the samples and the count. *)

(* The tracepoint of a wakeup of p fired. *)
Woke(p) ==
  /\ wakeups' = [wakeups EXCEPT ![p] = @ + 1]
  /\ DOMAIN wakeup_ts' \in {DOMAIN wakeup_ts, DOMAIN wakeup_ts \cup {p}}
  /\ should_trace(p) /\ ~Full(wakeup_ts) => p \in DOMAIN wakeup_ts'
  /\ latency_hist' = latency_hist

(* The pending wakeup of p became a sample. *)
Sampled(p) ==
  /\ p \in DOMAIN wakeup_ts
  /\ DOMAIN wakeup_ts' = DOMAIN wakeup_ts \ {p}
  /\ \E b \in Slots : latency_hist' = [latency_hist EXCEPT ![b] = @ + 1]
  /\ UNCHANGED wakeups

(* Neither, although a pending wakeup may have been dropped. *)
Dropped(S) ==
  /\ DOMAIN wakeup_ts' = DOMAIN wakeup_ts \ S
  /\ UNCHANGED <<latency_hist, wakeups>>

LEMMA UpdateAnyFacts ==
  ASSUME NEW m, NEW k, NEW v
  PROVE  /\ DOMAIN UpdateAny(m, k, v) \in {DOMAIN m, DOMAIN m \cup {k}}
         /\ ~Full(m) => k \in DOMAIN UpdateAny(m, k, v)
         /\ k \in DOMAIN UpdateAny(m, k, v) => UpdateAny(m, k, v)[k] = v
         /\ \A q \in DOMAIN m \ {k} : UpdateAny(m, k, v)[q] = m[q]
  BY DEF UpdateAny, Put

LEMMA ForkCounts ==
  ASSUME TypeOK, NEW p \in Pids, NEW d \in Durations, Fork(p, d)
  PROVE  Woke(p) \/ Dropped({})
  <1>1. /\ wakeups' = IF Attached(WAKEUP_NEW)
                      THEN [wakeups EXCEPT ![p] = @ + 1] ELSE wakeups
        /\ handle_sched_wakeup_new(p, now + d)
    BY DEF Fork
  <1>2. CASE Attached(WAKEUP_NEW) /\ should_trace(p)
    <2> DEFINE w == UpdateAny(wakeup_ts, p, now + d)
    <2>1. wakeup_ts' = w /\ latency_hist' = latency_hist
      BY <1>1, <1>2 DEF handle_sched_wakeup_new
    <2>2. /\ DOMAIN w \in {DOMAIN wakeup_ts, DOMAIN wakeup_ts \cup {p}}
          /\ ~Full(wakeup_ts) => p \in DOMAIN w
      BY UpdateAnyFacts
    <2> HIDE DEF w
    <2> QED
      BY <1>1, <1>2, <2>1, <2>2 DEF Woke
  <1>3. CASE Attached(WAKEUP_NEW) /\ ~should_trace(p)
    BY <1>1, <1>3 DEF handle_sched_wakeup_new, Woke, mapVars
  <1>4. CASE ~Attached(WAKEUP_NEW)
    BY <1>1, <1>4 DEF handle_sched_wakeup_new, Dropped, mapVars
  <1> QED
    BY <1>2, <1>3, <1>4

LEMMA WakeCounts ==
  ASSUME TypeOK, NEW p \in Pids, NEW d \in Durations, Wake(p, d)
  PROVE  Woke(p) \/ Dropped({})
  <1>1. /\ wakeups' = IF Attached(WAKEUP)
                      THEN [wakeups EXCEPT ![p] = @ + 1] ELSE wakeups
        /\ handle_sched_wakeup(p, now + d)
    BY DEF Wake
  <1>2. CASE Attached(WAKEUP) /\ should_trace(p)
    <2> DEFINE w == UpdateAny(wakeup_ts, p, now + d)
    <2>1. wakeup_ts' = w /\ latency_hist' = latency_hist
      BY <1>1, <1>2 DEF handle_sched_wakeup
    <2>2. /\ DOMAIN w \in {DOMAIN wakeup_ts, DOMAIN wakeup_ts \cup {p}}
          /\ ~Full(wakeup_ts) => p \in DOMAIN w
      BY UpdateAnyFacts
    <2> HIDE DEF w
    <2> QED
      BY <1>1, <1>2, <2>1, <2>2 DEF Woke
  <1>3. CASE Attached(WAKEUP) /\ ~should_trace(p)
    BY <1>1, <1>3 DEF handle_sched_wakeup, Woke, mapVars
  <1>4. CASE ~Attached(WAKEUP)
    BY <1>1, <1>4 DEF handle_sched_wakeup, Dropped, mapVars
  <1> QED
    BY <1>2, <1>3, <1>4

LEMMA SwitchCounts ==
  ASSUME TypeOK, Stamped, NEW c \in CPUs, NEW next \in Pids \cup {Idle},
         NEW d \in Durations, ContextSwitch(c, next, d)
  PROVE  Sampled(next) \/ Dropped({})
  <1> DEFINE prev == curr[c]
             ts == now + d
  <1>1. /\ next # prev
        /\ \E J : Elapse(d, J)
        /\ handle_sched_switch(prev, next, ts)
        /\ UNCHANGED wakeups
    BY DEF ContextSwitch
  <1>2. prev \in Pids \cup {Idle}
    BY DEF TypeOK
  <1>3. ts \in Nat /\ StampsUpTo(ts)
    BY <1>1, ElapseFacts DEF Stamped
  <1>4. MapsTypeOK
    BY MapsOfTypeOK
  <1> HIDE DEF prev, ts
  <1>5. CASE Attached(SWITCH)
    <2>1. SwitchStats(prev, next, ts)
      BY <1>1, <1>2, <1>3, <1>4, <1>5, SwitchHandler
    <2>2. CASE next \in DOMAIN wakeup_ts
      <3>1. ts - wakeup_ts[next] \in Nat
        BY <1>3, <1>4, <2>2 DEF StampsUpTo, MapsTypeOK
      <3>2. Bucket(ts - wakeup_ts[next]) \in Slots
        BY <3>1, BucketType
      <3> QED
        BY <1>1, <2>1, <2>2, <3>2 DEF SwitchStats, Sampled
    <2>3. CASE next \notin DOMAIN wakeup_ts
      BY <1>1, <2>1, <2>3 DEF SwitchStats, Dropped
    <2> QED
      BY <2>2, <2>3
  <1>6. CASE ~Attached(SWITCH)
    BY <1>1, <1>6 DEF handle_sched_switch, Dropped, mapVars
  <1> QED
    BY <1>5, <1>6

LEMMA ExitCounts ==
  ASSUME NEW p \in Pids, NEW d \in Durations, ProcessExit(p, d)
  PROVE  Dropped({}) \/ Dropped({p})
  BY DEF ProcessExit, handle_sched_process_exit, Delete, Dropped, mapVars

(* Every step is of one of the three kinds.  Only a task that was not      *)
(* queued is woken, unless wakeups can be spurious.                        *)
LEMMA StepCounts ==
  ASSUME TypeOK, Stamped, [Next]_vars
  PROVE  \/ \E p \in Pids : Woke(p) /\ (SpuriousWakeups \/ tstate[p] # "queued")
         \/ \E p \in Pids : Sampled(p)
         \/ \E p \in Pids : Dropped({p}) /\ tstate[p] = "running"
         \/ Dropped({})
  <1>1. ASSUME NEW p \in Pids, NEW d \in Durations, Fork(p, d) \/ Wake(p, d)
        PROVE  \/ Woke(p) /\ (SpuriousWakeups \/ tstate[p] # "queued")
               \/ Dropped({})
    <2>1. Woke(p) \/ Dropped({})
      BY <1>1, ForkCounts, WakeCounts
    <2>2. SpuriousWakeups \/ tstate[p] # "queued"
      BY <1>1 DEF Fork, Wake
    <2> QED
      BY <2>1, <2>2
  <1>2. ASSUME NEW c \in CPUs, NEW next \in Pids \cup {Idle},
               NEW d \in Durations, ContextSwitch(c, next, d)
        PROVE  (\E p \in Pids : Sampled(p)) \/ Dropped({})
    <2>1. Sampled(next) \/ Dropped({})
      BY <1>2, SwitchCounts
    <2>2. Sampled(next) => next \in Pids
      BY DEF Sampled, TypeOK
    <2> QED
      BY <2>1, <2>2
  <1>3. ASSUME NEW p \in Pids, NEW d \in Durations, ProcessExit(p, d)
        PROVE  (Dropped({p}) /\ tstate[p] = "running") \/ Dropped({})
    <2>1. tstate[p] = "running"
      BY <1>3 DEF ProcessExit
    <2> QED
      BY <1>3, <2>1, ExitCounts
  <1>4. Attach \/ Consume \/ (\E p \in Pids : PrepareToSleep(p)) \/ UNCHANGED vars
          => Dropped({})
    BY DEF Attach, Consume, PrepareToSleep, vars, mapVars, historyVars, Dropped
  <1> QED
    BY <1>1, <1>2, <1>3, <1>4 DEF Next

------------------------------------------------------------------------------
(* How many samples there are. *)

UnitsFinite == IsFiniteSet(Units(latency_hist)) /\ IsFiniteSet(Units(wakeups))

(* A task traced from its fork has a pending wakeup only while it waits. *)
TracedQueued ==
  ~SpuriousWakeups => \A p \in observed \cap DOMAIN wakeup_ts : tstate[p] = "queued"

LEMMA PendingFinite ==
  ASSUME TypeOK
  PROVE  /\ IsFiniteSet(DOMAIN wakeup_ts)
         /\ Cardinality(DOMAIN wakeup_ts) \in Nat
  <1>1. DOMAIN wakeup_ts \in SUBSET Pids
    BY DEF TypeOK
  <1> QED
    BY <1>1, PidsAssumption, FS_Subset, FS_CardinalityType

(* The three quantities of OneSamplePerWakeup after a step. *)
LEMMA CountsStep ==
  ASSUME TypeOK, TypeOK', UnitsFinite, NEW p \in Pids
  PROVE  /\ Samples \in Nat /\ Delivered \in Nat
         /\ Woke(p) =>
              /\ UnitsFinite'
              /\ Samples' = Samples /\ Delivered' = Delivered + 1
              /\ Cardinality(DOMAIN wakeup_ts')
                   <= Cardinality(DOMAIN wakeup_ts) + 1
              /\ p \notin DOMAIN wakeup_ts /\ p \in DOMAIN wakeup_ts' =>
                   Cardinality(DOMAIN wakeup_ts')
                     = Cardinality(DOMAIN wakeup_ts) + 1
         /\ Sampled(p) =>
              /\ UnitsFinite'
              /\ Samples' = Samples + 1 /\ Delivered' = Delivered
              /\ Cardinality(DOMAIN wakeup_ts')
                   = Cardinality(DOMAIN wakeup_ts) - 1
         /\ Dropped({p}) =>
              /\ UnitsFinite'
              /\ Samples' = Samples /\ Delivered' = Delivered
              /\ Cardinality(DOMAIN wakeup_ts') <= Cardinality(DOMAIN wakeup_ts)
              /\ p \notin DOMAIN wakeup_ts =>
                   Cardinality(DOMAIN wakeup_ts') = Cardinality(DOMAIN wakeup_ts)
  <1> DEFINE D == DOMAIN wakeup_ts
             E == DOMAIN wakeup_ts'
  <1>1. IsFiniteSet(D) /\ Cardinality(D) \in Nat
    BY PendingFinite
  <1>2. Samples \in Nat /\ Delivered \in Nat
    BY FS_CardinalityType DEF Samples, Delivered, UnitsFinite
  <1>3. /\ Cardinality(D \cup {p}) = IF p \in D THEN Cardinality(D)
                                     ELSE Cardinality(D) + 1
        /\ Cardinality(D \ {p}) = IF p \in D THEN Cardinality(D) - 1
                                  ELSE Cardinality(D)
    BY <1>1, FS_AddElement, FS_RemoveElement
  <1>4. ASSUME Woke(p)
        PROVE  UnitsFinite' /\ Samples' = Samples /\ Delivered' = Delivered + 1
    <2>1. wakeups \in [Pids -> Nat] /\ wakeups' = [wakeups EXCEPT ![p] = @ + 1]
      BY <1>4 DEF Woke, TypeOK
    <2>2. /\ IsFiniteSet(Units(wakeups'))
          /\ Cardinality(Units(wakeups')) = Cardinality(Units(wakeups)) + 1
      BY <2>1, UnitsAdd DEF UnitsFinite
    <2> QED
      BY <1>4, <2>2 DEF Woke, UnitsFinite, Samples, Delivered, Units
  <1>5. ASSUME Sampled(p)
        PROVE  UnitsFinite' /\ Samples' = Samples + 1 /\ Delivered' = Delivered
    <2>1. PICK b \in Slots : latency_hist' = [latency_hist EXCEPT ![b] = @ + 1]
      BY <1>5 DEF Sampled
    <2>2. latency_hist \in [Slots -> Nat]
      BY DEF TypeOK, Slots
    <2>3. /\ IsFiniteSet(Units(latency_hist'))
          /\ Cardinality(Units(latency_hist'))
               = Cardinality(Units(latency_hist)) + 1
      BY <2>1, <2>2, UnitsAdd DEF UnitsFinite
    <2> QED
      BY <1>5, <2>3 DEF Sampled, UnitsFinite, Samples, Delivered, Units
  <1>6. ASSUME Dropped({p})
        PROVE  UnitsFinite' /\ Samples' = Samples /\ Delivered' = Delivered
    BY <1>6 DEF Dropped, UnitsFinite, Samples, Delivered, Units
  <1>7. Woke(p) => E = D \/ E = D \cup {p}
    BY DEF Woke
  <1>8. /\ Sampled(p) => p \in D /\ E = D \ {p}
        /\ Dropped({p}) => E = D \ {p}
    BY DEF Sampled, Dropped
  <1> HIDE DEF D, E
  <1>9. /\ Woke(p) => /\ Cardinality(E) <= Cardinality(D) + 1
                      /\ p \notin D /\ p \in E =>
                           Cardinality(E) = Cardinality(D) + 1
        /\ Sampled(p) => Cardinality(E) = Cardinality(D) - 1
        /\ Dropped({p}) => /\ Cardinality(E) <= Cardinality(D)
                           /\ p \notin D => Cardinality(E) = Cardinality(D)
    <2>1. CASE p \in D
      <3>1. D \cup {p} = D /\ Cardinality(D \ {p}) = Cardinality(D) - 1
        BY <1>3, <2>1
      <3> QED
        BY <1>1, <1>7, <1>8, <2>1, <3>1
    <2>2. CASE p \notin D
      <3>1. D \ {p} = D
        BY <2>2
      <3>2. Cardinality(D \cup {p}) = Cardinality(D) + 1
        BY <1>3, <2>2
      <3>3. Dropped({p}) => E = D
        BY <1>8, <3>1
      <3>4. ~Sampled(p)
        BY <1>8, <2>2
      <3>5. ASSUME Woke(p)
            PROVE  /\ Cardinality(E) <= Cardinality(D) + 1
                   /\ p \in E => Cardinality(E) = Cardinality(D) + 1
        <4>1. CASE E = D
          BY <1>1, <2>2, <4>1
        <4>2. CASE E = D \cup {p}
          BY <1>1, <3>2, <4>2
        <4> QED
          BY <1>7, <3>5, <4>1, <4>2
      <3> QED
        BY <1>1, <3>3, <3>4, <3>5
    <2> QED
      BY <2>1, <2>2
  <1> QED
    BY <1>2, <1>4, <1>5, <1>6, <1>9 DEF D, E

LEMMA OneSampleStep ==
  ASSUME TypeOK, Stamped, TypeOK', UnitsFinite, OneSamplePerWakeup, [Next]_vars
  PROVE  UnitsFinite' /\ OneSamplePerWakeup'
  <1>1. Cardinality(DOMAIN wakeup_ts) \in Nat /\ Cardinality(DOMAIN wakeup_ts') \in Nat
    <2>1. Cardinality(DOMAIN wakeup_ts') \in Nat
      <3>1. DOMAIN wakeup_ts' \in SUBSET Pids
        BY DEF TypeOK
      <3> QED
        BY <3>1, PidsAssumption, FS_Subset, FS_CardinalityType
    <2> QED
      BY <2>1, PendingFinite
  <1>2. ASSUME NEW p \in Pids, Woke(p) \/ Sampled(p) \/ Dropped({p})
        PROVE  UnitsFinite' /\ OneSamplePerWakeup'
    BY <1>1, <1>2, CountsStep DEF OneSamplePerWakeup
  <1>3. CASE Dropped({})
    BY <1>3 DEF Dropped, UnitsFinite, OneSamplePerWakeup, Samples, Delivered, Units
  <1> QED
    BY <1>2, <1>3, StepCounts

(* A context switch of prev and next, as the pending wakeups see it. *)
LEMMA SwitchPending ==
  ASSUME IInv, NEW c \in CPUs, NEW next \in Pids \cup {Idle},
         NEW d \in Durations, ContextSwitch(c, next, d)
  PROVE  /\ \A p \in Pids : tstate[p] = "queued" /\ p # next =>
              tstate'[p] = "queued"
         /\ next \in Pids => tstate[next] = "queued"
         /\ \A p \in DOMAIN wakeup_ts' : /\ p \in DOMAIN wakeup_ts
                                         /\ wakeup_ts'[p] = wakeup_ts[p]
         /\ Attached(SWITCH) => SwitchStats(curr[c], next, now + d)
  <1> DEFINE prev == curr[c]
             ts == now + d
  <1>1. /\ next # prev
        /\ next # Idle => tstate[next] = "queued"
        /\ \E J : Elapse(d, J)
        /\ handle_sched_switch(prev, next, ts)
    BY DEF ContextSwitch
  <1>2. /\ prev \in Pids \cup {Idle}
        /\ prev # Idle => tstate[prev] = "running"
        /\ Idle \notin Pids
    BY PidsAssumption DEF IInv, TypeOK, CpuOK, Idle
  <1>3. \E left : tstate' = [p \in Pids |-> IF p = prev THEN left
                                            ELSE IF p = next THEN "running"
                                            ELSE tstate[p]]
    BY DEF ContextSwitch
  <1>4. ts \in Nat /\ StampsUpTo(ts)
    BY <1>1, ElapseFacts DEF IInv, Stamped
  <1> HIDE DEF ts
  <1>5. Attached(SWITCH) => SwitchStats(prev, next, ts)
    BY <1>1, <1>2, <1>4, MapsOfTypeOK, SwitchHandler DEF IInv
  <1>6. ASSUME NEW p \in Pids, tstate[p] = "queued", p # next
        PROVE  tstate'[p] = "queued"
    BY <1>2, <1>3, <1>6
  <1>7. next \in Pids => tstate[next] = "queued"
    BY <1>1, <1>2
  <1>8. \A p \in DOMAIN wakeup_ts' : /\ p \in DOMAIN wakeup_ts
                                     /\ wakeup_ts'[p] = wakeup_ts[p]
    <2>1. CASE Attached(SWITCH)
      <3> HIDE DEF prev
      <3> QED
        BY <1>5, <2>1 DEF SwitchStats
    <2>2. CASE ~Attached(SWITCH)
      BY <1>1, <2>2 DEF handle_sched_switch, mapVars
    <2> QED
      BY <2>1, <2>2
  <1> QED
    BY <1>5, <1>6, <1>7, <1>8 DEF ts

LEMMA ObservedAttached ==
  ASSUME IInv, NEW p \in observed
  PROVE  p \in Pids /\ \A prog \in {WAKEUP, WAKEUP_NEW, SWITCH, EXIT} : Attached(prog)
  BY DEF IInv, TypeOK, ObservedOK, Attached, WAKEUP, WAKEUP_NEW, SWITCH, EXIT

LEMMA TracedQueuedStep ==
  ASSUME IInv, TypeOK', TracedQueued, [Next]_vars
  PROVE  TracedQueued'
  <1> SUFFICES ASSUME ~SpuriousWakeups, NEW q \in observed', q \in DOMAIN wakeup_ts'
               PROVE  tstate'[q] = "queued"
    BY DEF TracedQueued
  <1>1. tstate \in [Pids -> TaskStates] /\ q \in Pids
    BY DEF IInv, TypeOK
  <1>2. q \in observed /\ q \in DOMAIN wakeup_ts => tstate[q] = "queued"
    BY DEF TracedQueued
  <1>3. CASE Attach
    <2>1. q \in DOMAIN wakeup_ts /\ tstate' = tstate
      BY <1>3 DEF Attach, mapVars, kernelVars
    <2>2. wakeups[q] # 0
      BY <2>1 DEF IInv, PendingCounted
    <2>3. q \in observed
      BY <1>3, <2>2 DEF Attach
    <2> QED
      BY <1>2, <2>1, <2>3
  <1>4. ASSUME NEW p \in Pids, NEW d \in Durations, Fork(p, d) \/ Wake(p, d)
        PROVE  tstate'[q] = "queued"
    <2>1. tstate' = [tstate EXCEPT ![p] = "queued"] /\ observed' = observed
      BY <1>4 DEF Fork, Wake
    <2>2. q = p \/ q \in DOMAIN wakeup_ts
      BY <1>4, ForkCounts, WakeCounts DEF Woke, Dropped, IInv
    <2> QED
      BY <1>1, <1>2, <2>1, <2>2
  <1>5. ASSUME NEW c \in CPUs, NEW next \in Pids \cup {Idle},
               NEW d \in Durations, ContextSwitch(c, next, d)
        PROVE  tstate'[q] = "queued"
    <2>1. q \in observed
      BY <1>5 DEF ContextSwitch
    <2>2. q \in DOMAIN wakeup_ts /\ tstate[q] = "queued"
      BY <1>2, <1>5, <2>1, SwitchPending
    <2>3. q # next
      BY <1>5, <2>1, SwitchPending, ObservedAttached DEF SwitchStats
    <2> QED
      BY <1>1, <1>5, <2>2, <2>3, SwitchPending
  <1>6. ASSUME NEW p \in Pids, NEW d \in Durations, ProcessExit(p, d)
        PROVE  tstate'[q] = "queued"
    <2>1. tstate' = tstate /\ observed' = observed
      BY <1>6 DEF ProcessExit
    <2>2. q \in DOMAIN wakeup_ts
      BY <1>6, ExitCounts DEF Dropped
    <2> QED
      BY <1>2, <2>1, <2>2
  <1>7. CASE Consume \/ (\E p \in Pids : PrepareToSleep(p)) \/ UNCHANGED vars
    <2>1. UNCHANGED <<tstate, observed, wakeup_ts>>
      BY <1>7 DEF Consume, PrepareToSleep, vars, kernelVars, mapVars, historyVars
    <2> QED
      BY <1>2, <2>1
  <1> QED
    BY <1>3, <1>4, <1>5, <1>6, <1>7 DEF Next

(* No wakeup of a traced task is lost: the map has room for it, and the    *)
(* task's last one was sampled before it could sleep again.                *)
LEMMA EverySampleStep ==
  ASSUME IInv, TypeOK', UnitsFinite, TracedQueued, OneSamplePerWakeup,
         EveryWakeupSampled, OneSamplePerWakeup', [Next]_vars
  PROVE  EveryWakeupSampled'
  <1> SUFFICES ASSUME Pids \subseteq observed', FilterPid = 0,
                      Cardinality(Pids) <= MAX_PIDS, ~SpuriousWakeups
               PROVE  Samples' + Cardinality(DOMAIN wakeup_ts') = Delivered'
    BY DEF EveryWakeupSampled
  <1>1. TypeOK /\ Stamped
    BY DEF IInv
  <1>2. Cardinality(DOMAIN wakeup_ts) \in Nat
    BY <1>1, PendingFinite
  <1>3. CASE Attach /\ ~(Pids \subseteq observed)
    <2>1. UNCHANGED <<wakeups, wakeup_ts, latency_hist>>
      BY <1>3 DEF Attach, mapVars
    <2>2. wakeups = [p \in Pids |-> 0]
      <3>1. \A p \in Pids : wakeups[p] = 0
        BY <1>3 DEF Attach
      <3> QED
        BY <1>1, <3>1 DEF TypeOK
    <2>3. Delivered = 0
      BY <2>2, UnitsZero, FS_EmptySet DEF Delivered
    <2>4. Samples \in Nat /\ Samples + Cardinality(DOMAIN wakeup_ts) <= 0
      BY <2>3, FS_CardinalityType DEF OneSamplePerWakeup, UnitsFinite, Samples
    <2> QED
      BY <1>2, <2>1, <2>3, <2>4 DEF Samples, Delivered, Units
  <1>4. ASSUME Pids \subseteq observed
        PROVE  Samples' + Cardinality(DOMAIN wakeup_ts') = Delivered'
    <2>1. Samples + Cardinality(DOMAIN wakeup_ts) = Delivered
      BY <1>4 DEF EveryWakeupSampled
    <2>2. \A p \in Pids : tstate[p] # "queued" => p \notin DOMAIN wakeup_ts
      BY <1>4 DEF TracedQueued
    <2>3. ASSUME NEW p \in Pids, Woke(p), p \notin DOMAIN wakeup_ts
          PROVE  p \in DOMAIN wakeup_ts'
      <3>1. should_trace(p)
        BY PidsAssumption DEF should_trace, Idle
      <3>2. ~Full(wakeup_ts)
        <4>1. DOMAIN wakeup_ts \in SUBSET Pids /\ DOMAIN wakeup_ts # Pids
          BY <1>1, <2>3 DEF TypeOK
        <4>2. Cardinality(DOMAIN wakeup_ts) < Cardinality(Pids)
          BY <1>2, <4>1, PidsAssumption, FS_Subset, FS_CardinalityType
        <4> QED
          BY <1>2, <4>2, PidsAssumption, MaxPidsAssumption, FS_CardinalityType
          DEF Full
      <3> QED
        BY <2>3, <3>1, <3>2 DEF Woke
    <2>4. ASSUME NEW p \in Pids, Woke(p), tstate[p] # "queued"
          PROVE  Samples' + Cardinality(DOMAIN wakeup_ts') = Delivered'
      <3>1. p \notin DOMAIN wakeup_ts /\ p \in DOMAIN wakeup_ts'
        BY <2>2, <2>3, <2>4
      <3>2. /\ Samples \in Nat /\ Delivered \in Nat
            /\ Samples' = Samples /\ Delivered' = Delivered + 1
            /\ Cardinality(DOMAIN wakeup_ts')
                 = Cardinality(DOMAIN wakeup_ts) + 1
        BY <1>1, <2>4, <3>1, CountsStep
      <3> QED
        BY <1>2, <2>1, <3>2
    <2>5. ASSUME NEW p \in Pids, Sampled(p)
          PROVE  Samples' + Cardinality(DOMAIN wakeup_ts') = Delivered'
      <3>1. /\ Samples \in Nat /\ Delivered \in Nat
            /\ Samples' = Samples + 1 /\ Delivered' = Delivered
            /\ Cardinality(DOMAIN wakeup_ts')
                 = Cardinality(DOMAIN wakeup_ts) - 1
        BY <1>1, <2>5, CountsStep
      <3> QED
        BY <1>2, <2>1, <3>1
    <2>6. ASSUME NEW p \in Pids, Dropped({p}), tstate[p] = "running"
          PROVE  Samples' + Cardinality(DOMAIN wakeup_ts') = Delivered'
      BY <1>1, <1>2, <2>1, <2>2, <2>6, CountsStep
    <2>7. CASE Dropped({})
      BY <2>1, <2>7 DEF Dropped, Samples, Delivered, Units
    <2> QED
      BY <1>1, <2>4, <2>5, <2>6, <2>7, StepCounts
  <1>5. ~Attach => Pids \subseteq observed
    BY DEF Next, Fork, Wake, ContextSwitch, ProcessExit, Consume,
           PrepareToSleep, vars, historyVars
  <1> QED
    BY <1>3, <1>4, <1>5

------------------------------------------------------------------------------
(* How long a task waited. *)

(* The part of a task's wait that wait_time_ns does not hold yet. *)
Pending(p) == IF p \in DOMAIN wakeup_ts THEN now - wakeup_ts[p] ELSE 0

(* A wakeup starts a wait of length 0 and changes no other. *)
LEMMA WakePending ==
  ASSUME IInv, NEW p \in Pids, NEW d \in Durations, Fork(p, d) \/ Wake(p, d)
  PROVE  /\ now' = now + d
         /\ WakeStats(p)
         /\ \A q \in DOMAIN wakeup_ts' : q # p =>
              q \in DOMAIN wakeup_ts /\ wakeup_ts'[q] = wakeup_ts[q]
         /\ p \in observed /\ p \in DOMAIN wakeup_ts' =>
              wakeup_ts'[p] = now + d
  <1>1. \E J : Elapse(d, J)
    BY DEF Fork, Wake
  <1>2. /\ now' = now + d /\ now + d \in Nat /\ StampsUpTo(now + d)
        /\ MapsTypeOK
    BY <1>1, ElapseFacts, MapsOfTypeOK DEF IInv, Stamped
  <1>3. p \in observed => Attached(WAKEUP) /\ Attached(WAKEUP_NEW)
    BY ObservedAttached
  <1>4. CASE Fork(p, d)
    <2>1. handle_sched_wakeup_new(p, now + d)
      BY <1>4 DEF Fork
    <2> QED
      BY <1>2, <1>3, <2>1, WakeupNewHandler
  <1>5. CASE Wake(p, d)
    <2>1. handle_sched_wakeup(p, now + d)
      BY <1>5 DEF Wake
    <2> QED
      BY <1>2, <1>3, <2>1, WakeupHandler
  <1> QED
    BY <1>4, <1>5

LEMMA WaitStep ==
  ASSUME IInv, TypeOK', ~SpuriousWakeups, TracedQueued, WaitTimeSound,
         [Next]_vars
  PROVE  WaitTimeSound'
  <1> SUFFICES ASSUME NEW q \in observed', q \in DOMAIN task_stats'
               PROVE  task_stats'[q].wait_time_ns + Pending(q)' <= queueTime'[q]
    BY DEF WaitTimeSound, Pending
  <1>1. /\ q \in Pids /\ now \in Nat /\ now' \in Nat
        /\ queueTime[q] \in Nat /\ queueTime'[q] \in Nat
        /\ \A p \in DOMAIN task_stats : task_stats[p].wait_time_ns \in Nat
        /\ \A p \in DOMAIN wakeup_ts : wakeup_ts[p] \in Nat /\ wakeup_ts[p] <= now
    BY DEF IInv, TypeOK, TaskStats, Stamped, StampsUpTo
  <1>2. q \in observed /\ q \in DOMAIN wakeup_ts => tstate[q] = "queued"
    BY DEF TracedQueued
  <1>3. q \in observed /\ q \in DOMAIN task_stats =>
          task_stats[q].wait_time_ns + Pending(q) <= queueTime[q]
    BY DEF WaitTimeSound, Pending
  <1>4. ASSUME NEW d \in Durations, NEW J, Elapse(d, J)
        PROVE  /\ d \in Nat
               /\ queueTime'[q] = IF tstate[q] = "queued" THEN queueTime[q] + d
                                  ELSE queueTime[q]
    BY <1>1, <1>4, TimeAssumption DEF Elapse
  <1>5. CASE Attach
    <2>1. q \in observed
      <3>1. task_stats' = task_stats
        BY <1>5 DEF Attach, mapVars
      <3>2. wakeups[q] # 0
        <4>1. task_stats[q].wakeups \in 1 .. wakeups[q]
          BY <3>1 DEF IInv, WakeupsSound
        <4>2. wakeups[q] \in Nat
          BY <1>1 DEF IInv, TypeOK
        <4> QED
          BY <4>1, <4>2
      <3> QED
        BY <1>5, <3>2 DEF Attach
    <2> QED
      BY <1>3, <1>5, <2>1 DEF Attach, kernelVars, mapVars, Pending
  <1>6. ASSUME NEW p \in Pids, NEW d \in Durations, Fork(p, d) \/ Wake(p, d)
        PROVE  task_stats'[q].wait_time_ns + Pending(q)' <= queueTime'[q]
    <2>1. /\ q \in observed
          /\ \E J : Elapse(d, J)
          /\ tstate[p] # "queued"
      BY <1>6 DEF Fork, Wake
    <2>2. /\ now' = now + d
          /\ WakeStats(p)
          /\ q \in DOMAIN wakeup_ts' /\ q # p =>
               q \in DOMAIN wakeup_ts /\ wakeup_ts'[q] = wakeup_ts[q]
          /\ q \in DOMAIN wakeup_ts' /\ q = p => wakeup_ts'[q] = now + d
      BY <1>6, <2>1, WakePending
    <2>3. /\ d \in Nat
          /\ queueTime'[q] = IF tstate[q] = "queued" THEN queueTime[q] + d
                             ELSE queueTime[q]
      BY <1>4, <2>1
    <2>4. CASE q = p
      <3>1. Pending(q)' = 0
        BY <1>1, <2>2, <2>4 DEF Pending
      <3>2. task_stats'[q].wait_time_ns = 0 \/
              /\ q \in DOMAIN task_stats
              /\ task_stats'[q].wait_time_ns = task_stats[q].wait_time_ns
        BY <2>2 DEF WakeStats
      <3>3. q \notin DOMAIN wakeup_ts
        BY <1>2, <2>1, <2>4
      <3>4. Pending(q) = 0
        BY <3>3 DEF Pending
      <3> QED
        BY <1>1, <1>3, <2>1, <2>3, <3>1, <3>2, <3>4
    <2>5. CASE q # p
      <3>1. /\ q \in DOMAIN task_stats
            /\ task_stats'[q].wait_time_ns = task_stats[q].wait_time_ns
        BY <2>2, <2>5 DEF WakeStats
      <3>2. \/ Pending(q)' = 0
            \/ tstate[q] = "queued" /\ Pending(q)' = Pending(q) + d
        BY <1>1, <1>2, <2>1, <2>2, <2>3, <2>5 DEF Pending
      <3>3. Pending(q) \in Nat
        BY <1>1 DEF Pending
      <3> QED
        BY <1>1, <1>3, <2>1, <2>3, <3>1, <3>2, <3>3
    <2> QED
      BY <2>4, <2>5
  <1>7. ASSUME NEW c \in CPUs, NEW next \in Pids \cup {Idle},
               NEW d \in Durations, ContextSwitch(c, next, d)
        PROVE  task_stats'[q].wait_time_ns + Pending(q)' <= queueTime'[q]
    <2> DEFINE ts == now + d
    <2>1. q \in observed /\ \E J : Elapse(d, J)
      BY <1>7 DEF ContextSwitch
    <2>2. /\ d \in Nat /\ ts \in Nat /\ now' = ts
          /\ queueTime'[q] = IF tstate[q] = "queued" THEN queueTime[q] + d
                             ELSE queueTime[q]
      BY <1>1, <1>4, <2>1 DEF Elapse
    <2>3. SwitchStats(curr[c], next, ts)
      BY <1>7, <2>1, SwitchPending, ObservedAttached
    <2> HIDE DEF ts
    <2>4. /\ q \in DOMAIN task_stats
          /\ task_stats'[q].wait_time_ns =
               IF q = next /\ q \in DOMAIN wakeup_ts
               THEN task_stats[q].wait_time_ns + (ts - wakeup_ts[q])
               ELSE task_stats[q].wait_time_ns
      BY <2>3 DEF SwitchStats
    <2>5. Pending(q)' = IF q \in DOMAIN wakeup_ts /\ q # next
                        THEN ts - wakeup_ts[q] ELSE 0
      BY <2>2, <2>3 DEF SwitchStats, Pending
    <2>6. CASE q \in DOMAIN wakeup_ts
      <3>1. /\ tstate[q] = "queued"
            /\ task_stats'[q].wait_time_ns + Pending(q)'
                 = task_stats[q].wait_time_ns + (ts - wakeup_ts[q])
        BY <1>1, <1>2, <2>1, <2>2, <2>4, <2>5, <2>6
      <3>2. Pending(q) = now - wakeup_ts[q]
        BY <2>6 DEF Pending
      <3> QED
        BY <1>1, <1>3, <2>1, <2>2, <2>4, <2>6, <3>1, <3>2 DEF ts
    <2>7. CASE q \notin DOMAIN wakeup_ts
      BY <1>1, <1>3, <2>1, <2>2, <2>4, <2>5, <2>7 DEF Pending
    <2> QED
      BY <2>6, <2>7
  <1>8. ASSUME NEW p \in Pids, NEW d \in Durations, ProcessExit(p, d)
        PROVE  task_stats'[q].wait_time_ns + Pending(q)' <= queueTime'[q]
    <2>1. /\ q \in observed /\ Elapse(d, {})
          /\ handle_sched_process_exit(p, now + d)
      BY <1>8 DEF ProcessExit
    <2>2. /\ now' = now + d /\ now + d \in Nat /\ StampsUpTo(now + d)
      BY <2>1, ElapseFacts DEF IInv, Stamped
    <2>3. /\ d \in Nat
          /\ queueTime'[q] = IF tstate[q] = "queued" THEN queueTime[q] + d
                             ELSE queueTime[q]
      BY <1>4, <2>1
    <2>4. /\ task_stats' = task_stats
          /\ q \in DOMAIN wakeup_ts' =>
               q \in DOMAIN wakeup_ts /\ wakeup_ts'[q] = wakeup_ts[q]
      BY <2>1, <2>2, MapsOfTypeOK, ExitHandler DEF IInv
    <2>5. \/ Pending(q)' = 0
          \/ tstate[q] = "queued" /\ Pending(q)' = Pending(q) + d
      BY <1>1, <1>2, <2>1, <2>2, <2>3, <2>4 DEF Pending
    <2>6. Pending(q) \in Nat
      BY <1>1 DEF Pending
    <2> QED
      BY <1>1, <1>3, <2>1, <2>3, <2>4, <2>5, <2>6
  <1>9. CASE Consume \/ (\E p \in Pids : PrepareToSleep(p)) \/ UNCHANGED vars
    <2>1. UNCHANGED <<now, observed, wakeup_ts, task_stats, queueTime>>
      BY <1>9 DEF Consume, PrepareToSleep, vars, kernelVars, mapVars, historyVars
    <2> QED
      BY <1>3, <2>1 DEF Pending
  <1> QED
    BY <1>5, <1>6, <1>7, <1>8, <1>9 DEF Next

------------------------------------------------------------------------------
(* The invariants of both specifications. *)

LatencyInv ==
  /\ IInv
  /\ UnitsFinite
  /\ TracedQueued
  /\ OneSamplePerWakeup
  /\ EveryWakeupSampled
  /\ ~SpuriousWakeups => WaitTimeSound

LEMMA LatencyInit == Init \/ InitTracing => LatencyInv
  <1> SUFFICES ASSUME NEW programs \in {0, EXIT}, NEW states \in SUBSET TaskStates,
                      NEW seen \in SUBSET Pids, Start(programs, states, seen),
                      seen # {} => programs = EXIT /\ states = {"none"}
               PROVE  LatencyInv
    BY DEF Init, InitTracing, TaskStates
  <1>1. TypeOK /\ Stamped
    BY TypeInit DEF EXIT
  <1>2. /\ wakeup_ts = EmptyMap /\ task_stats = EmptyMap
        /\ latency_hist = [b \in 0 .. MaxBuckets - 1 |-> 0]
        /\ wakeups = [p \in Pids |-> 0]
        /\ cpuTime = [p \in Pids |-> 0]
        /\ curr = [c \in CPUs |-> Idle]
        /\ preparing = {}
        /\ attached = programs /\ observed = seen
        /\ tstate \in [Pids -> states]
    BY DEF Start
  <1>3. DOMAIN wakeup_ts = {} /\ DOMAIN task_stats = {}
    BY <1>2 DEF EmptyMap
  <1>4. IInv
    <2>1. CpuOK /\ PreparingOK /\ NoSwitchYet /\ PendingCounted
            /\ WakeupsSound /\ RunTimeSound /\ RunTimeExact
      BY <1>2, <1>3 DEF CpuOK, PreparingOK, NoSwitchYet, PendingCounted,
                        WakeupsSound, RunTimeSound, RunTimeExact
    <2>2. ObservedOK
      BY <1>2, <1>3 DEF ObservedOK
    <2> QED
      BY <1>1, <2>1, <2>2 DEF IInv
  <1>5. Units(latency_hist) = {} /\ Units(wakeups) = {}
    BY <1>2, UnitsZero
  <1>6. /\ UnitsFinite
        /\ Samples = 0 /\ Delivered = 0 /\ Cardinality(DOMAIN wakeup_ts) = 0
    BY <1>3, <1>5, FS_EmptySet DEF UnitsFinite, Samples, Delivered
  <1>7. TracedQueued /\ WaitTimeSound
    BY <1>3 DEF TracedQueued, WaitTimeSound
  <1>8. OneSamplePerWakeup /\ EveryWakeupSampled
    BY <1>6 DEF OneSamplePerWakeup, EveryWakeupSampled
  <1> QED
    BY <1>4, <1>6, <1>7, <1>8 DEF LatencyInv

LEMMA LatencyStep == LatencyInv /\ [Next]_vars => LatencyInv'
  <1> SUFFICES ASSUME LatencyInv, [Next]_vars
               PROVE  LatencyInv'
    OBVIOUS
  <1>1. IInv'
    BY IInvStep DEF LatencyInv
  <1>2. TypeOK /\ Stamped /\ TypeOK'
    BY <1>1 DEF LatencyInv, IInv
  <1>3. UnitsFinite' /\ OneSamplePerWakeup'
    BY <1>2, OneSampleStep DEF LatencyInv
  <1>4. TracedQueued'
    BY <1>2, TracedQueuedStep DEF LatencyInv
  <1>5. EveryWakeupSampled'
    BY <1>2, <1>3, EverySampleStep DEF LatencyInv
  <1>6. ~SpuriousWakeups => WaitTimeSound'
    BY <1>2, WaitStep DEF LatencyInv
  <1> QED
    BY <1>1, <1>3, <1>4, <1>5, <1>6 DEF LatencyInv

LEMMA LatencyInductive == Spec \/ SpecTracing => []LatencyInv
  BY LatencyInit, LatencyStep, PTL DEF Spec, SpecTracing

(* handle_sched_switch takes a wakeup out of the map with its sample: in   *)
(* no interleaving of wakeups, switches and exits is one sampled twice.    *)
THEOREM NoWakeupSampledTwice == Spec \/ SpecTracing => []OneSamplePerWakeup
  <1>1. LatencyInv => OneSamplePerWakeup
    BY DEF LatencyInv
  <1> QED
    BY <1>1, LatencyInductive, PTL

(* With every task traced from its fork, and room in the map, the          *)
(* histogram misses no wakeup either, if none hits a task on its CPU.      *)
THEOREM NoWakeupLost == Spec \/ SpecTracing => []EveryWakeupSampled
  <1>1. LatencyInv => EveryWakeupSampled
    BY DEF LatencyInv
  <1> QED
    BY <1>1, LatencyInductive, PTL

(* What handle_sched_switch reports as the wait of a traced task is time   *)
(* it was runnable and not running, if no wakeup hits a task on its CPU.   *)
THEOREM WaitTimeIsSound ==
  ASSUME ~SpuriousWakeups
  PROVE  Spec \/ SpecTracing => []WaitTimeSound
  <1>1. LatencyInv => WaitTimeSound
    BY DEF LatencyInv
  <1> QED
    BY <1>1, LatencyInductive, PTL

------------------------------------------------------------------------------
(* The maps implement RunqueueLatency. *)

(* No latency the clock allows wraps the bucket number around. *)
NoWrap == MaxTime < U32 * BucketSize

LEMMA SlotIsBucket ==
  ASSUME NoWrap, NEW t \in Nat, t <= MaxTime
  PROVE  Promise!Slot(t) = Bucket(t)
  <1> DEFINE B == BucketSize
             M == MaxBuckets
             k == t \div B
  <1>1. /\ B \in Nat /\ B > 0 /\ M \in Nat /\ U32 \in Nat /\ U32 > M /\ U32 > 0
        /\ MaxTime \in Nat
    BY HistAssumption, TimeAssumption
  <1>2. k \in Nat /\ B * k <= t /\ t < B * (k + 1)
    BY <1>1
  <1> HIDE DEF k, B, M
  <1>3. ASSUME NEW n \in Nat
        PROVE  t < n * B <=> k < n
    <2>1. CASE k < n
      <3>1. B * (k + 1) <= n * B
        BY <1>1, <1>2, <2>1
      <3> QED
        BY <1>1, <1>2, <2>1, <3>1
    <2>2. CASE k >= n
      <3>1. n * B <= B * k
        BY <1>1, <1>2, <2>2
      <3> QED
        BY <1>1, <1>2, <2>2, <3>1
    <2> QED
      BY <1>2, <2>1, <2>2
  <1>4. k < U32
    BY <1>1, <1>3 DEF NoWrap, B
  <1>5. k % U32 = k
    BY <1>1, <1>2, <1>4
  <1>6. Bucket(t) = IF k >= M THEN M - 1 ELSE k
    BY <1>5 DEF Bucket, k, B, M
  <1>7. Promise!Slot(t) = IF t < M * B THEN k ELSE M - 1
    BY DEF Promise!Slot, k, B, M
  <1> QED
    BY <1>1, <1>2, <1>3, <1>6, <1>7

waiting == [p \in DOMAIN wakeup_ts |-> queuedFor[p]]

(* With the programs attached before the tasks are forked, a stamp tells   *)
(* how long its task has been on the runqueue.                             *)
TracingInv ==
  /\ attached = EXIT
  /\ observed = Pids
  /\ now <= MaxTime
  /\ \A p \in DOMAIN wakeup_ts : now - wakeup_ts[p] = queuedFor[p]

(* Time passes for the tasks that wait, whatever else happens. *)
LEMMA WaitsPass ==
  ASSUME IInv, TracedQueued, TracingInv, ~SpuriousWakeups,
         NEW d \in Durations, NEW J, J \cap DOMAIN wakeup_ts = {}, Elapse(d, J)
  PROVE  /\ d \in Nat /\ now' = now + d /\ now' <= MaxTime
         /\ \A q \in DOMAIN wakeup_ts :
              /\ queuedFor[q] \in Nat
              /\ queuedFor'[q] = queuedFor[q] + d
              /\ q \in DOMAIN wakeup_ts' /\ wakeup_ts'[q] = wakeup_ts[q] =>
                   now' - wakeup_ts'[q] = queuedFor'[q]
  <1>1. /\ d \in Nat /\ now \in Nat /\ MaxTime \in Nat
        /\ now' = now + d /\ now' <= MaxTime
    BY TimeAssumption DEF Elapse, IInv, TypeOK
  <1>2. ASSUME NEW q \in DOMAIN wakeup_ts
        PROVE  /\ queuedFor[q] \in Nat /\ wakeup_ts[q] \in Nat
               /\ now - wakeup_ts[q] = queuedFor[q]
               /\ queuedFor'[q] = queuedFor[q] + d
    <2>1. q \in Pids /\ queuedFor[q] \in Nat /\ wakeup_ts[q] \in Nat
      BY DEF IInv, TypeOK
    <2>2. tstate[q] = "queued"
      BY <2>1 DEF TracedQueued, TracingInv
    <2>3. q \notin J
      OBVIOUS
    <2>4. queuedFor'[q] = queuedFor[q] + d
      BY <2>1, <2>2, <2>3 DEF Elapse
    <2> QED
      BY <2>1, <2>4 DEF TracingInv
  <1> QED
    BY <1>1, <1>2

LEMMA PassStep ==
  ASSUME NEW d \in Durations, DOMAIN wakeup_ts' = DOMAIN wakeup_ts,
         latency_hist' = latency_hist,
         \A q \in DOMAIN wakeup_ts : queuedFor'[q] = queuedFor[q] + d
  PROVE  Promise!Next
  <1>1. Promise!Pass(d)
    BY DEF Promise!Pass, Promise!Later
  <1> QED
    BY <1>1 DEF Promise!Next

LEMMA WakeUpStep ==
  ASSUME NEW d \in Durations, NEW p \in Pids, p \notin DOMAIN wakeup_ts,
         DOMAIN wakeup_ts' = DOMAIN wakeup_ts \cup {p},
         latency_hist' = latency_hist, queuedFor'[p] = 0,
         \A q \in DOMAIN wakeup_ts : queuedFor'[q] = queuedFor[q] + d
  PROVE  Promise!Next
  <1>1. Promise!WakeUp(p, d)
    BY DEF Promise!WakeUp
  <1> QED
    BY <1>1 DEF Promise!Next

LEMMA DispatchStep ==
  ASSUME NEW d \in Durations, NEW p \in Pids, p \in DOMAIN wakeup_ts,
         DOMAIN wakeup_ts' = DOMAIN wakeup_ts \ {p},
         latency_hist' = [latency_hist EXCEPT
                            ![Promise!Slot(queuedFor[p] + d)] = @ + 1],
         \A q \in DOMAIN wakeup_ts : queuedFor'[q] = queuedFor[q] + d
  PROVE  Promise!Next
  <1>1. Promise!Dispatch(p, d)
    BY DEF Promise!Dispatch, Promise!Later
  <1> QED
    BY <1>1 DEF Promise!Next

(* Every step keeps TracingInv and is a step of the promise, or none. *)
LEMMA RefinementStep ==
  ASSUME IInv, TracedQueued, TracingInv, ~SpuriousWakeups, NoWrap,
         [Next]_vars
  PROVE  TracingInv' /\ [Promise!Next]_<<waiting, latency_hist>>
  <1>1. \A p \in Pids : p \in DOMAIN wakeup_ts => tstate[p] = "queued"
    BY DEF TracedQueued, TracingInv
  <1>2. DOMAIN wakeup_ts \subseteq Pids
    BY DEF IInv, TypeOK
  <1>3. Attached(WAKEUP) /\ Attached(WAKEUP_NEW) /\ Attached(SWITCH)
    BY DEF TracingInv, Attached, WAKEUP, WAKEUP_NEW, SWITCH, EXIT
  <1>4. ~Attach
    BY DEF TracingInv, Attach, EXIT
  <1>5. ASSUME NEW p \in Pids, NEW d \in Durations, Fork(p, d) \/ Wake(p, d)
        PROVE  TracingInv' /\ Promise!Next
    <2>1. /\ Elapse(d, {p}) /\ tstate[p] # "queued"
          /\ UNCHANGED <<attached, observed>>
      BY <1>5 DEF Fork, Wake
    <2>2. p \notin DOMAIN wakeup_ts
      BY <1>1, <2>1
    <2>3. /\ d \in Nat /\ now' = now + d /\ now' <= MaxTime
          /\ \A q \in DOMAIN wakeup_ts :
               /\ queuedFor'[q] = queuedFor[q] + d
               /\ q \in DOMAIN wakeup_ts' /\ wakeup_ts'[q] = wakeup_ts[q] =>
                    now' - wakeup_ts'[q] = queuedFor'[q]
      BY <2>1, <2>2, WaitsPass
    <2>4. queuedFor'[p] = 0
      BY <2>1 DEF Elapse
    <2>5. /\ DOMAIN wakeup_ts' \in {DOMAIN wakeup_ts, DOMAIN wakeup_ts \cup {p}}
          /\ latency_hist' = latency_hist
      BY <1>5, ForkCounts, WakeCounts DEF IInv, Woke, Dropped
    <2>6. \A q \in DOMAIN wakeup_ts' :
            IF q = p THEN wakeup_ts'[q] = now + d
            ELSE q \in DOMAIN wakeup_ts /\ wakeup_ts'[q] = wakeup_ts[q]
      <3>1. p \in observed
        BY DEF TracingInv
      <3> QED
        BY <1>5, <3>1, WakePending
    <2>7. TracingInv'
      <3>1. now + d \in Nat
        BY <2>3 DEF IInv, TypeOK
      <3>2. \A q \in DOMAIN wakeup_ts' : now' - wakeup_ts'[q] = queuedFor'[q]
        BY <2>3, <2>4, <2>6, <3>1
      <3> QED
        BY <2>1, <2>3, <3>2 DEF TracingInv
    <2>8. Promise!Next
      BY <2>2, <2>3, <2>4, <2>5, PassStep, WakeUpStep
    <2> QED
      BY <2>7, <2>8
  <1>6. ASSUME NEW c \in CPUs, NEW next \in Pids \cup {Idle},
               NEW d \in Durations, ContextSwitch(c, next, d)
        PROVE  TracingInv' /\ Promise!Next
    <2> DEFINE prev == curr[c]
    <2>1. /\ Elapse(d, {prev} \cap Pids)
          /\ UNCHANGED <<attached, observed>>
      BY <1>6 DEF ContextSwitch
    <2>2. prev \notin DOMAIN wakeup_ts
      BY <1>1, <1>2, PidsAssumption DEF IInv, CpuOK, Idle
    <2>3. /\ d \in Nat /\ now' = now + d /\ now' <= MaxTime
          /\ \A q \in DOMAIN wakeup_ts :
               /\ queuedFor[q] \in Nat
               /\ queuedFor'[q] = queuedFor[q] + d
               /\ q \in DOMAIN wakeup_ts' /\ wakeup_ts'[q] = wakeup_ts[q] =>
                    now' - wakeup_ts'[q] = queuedFor'[q]
      BY <2>1, <2>2, WaitsPass
    <2>4. /\ SwitchStats(prev, next, now + d)
          /\ \A q \in DOMAIN wakeup_ts' : /\ q \in DOMAIN wakeup_ts
                                          /\ wakeup_ts'[q] = wakeup_ts[q]
      BY <1>3, <1>6, SwitchPending
    <2>5. TracingInv'
      BY <2>1, <2>3, <2>4 DEF TracingInv
    <2>6. Promise!Next
      <3>1. CASE next \in DOMAIN wakeup_ts
        <4> DEFINE t == (now + d) - wakeup_ts[next]
        <4>1. /\ DOMAIN wakeup_ts' = DOMAIN wakeup_ts \ {next}
              /\ latency_hist' = [latency_hist EXCEPT ![Bucket(t)] = @ + 1]
          BY <2>4, <3>1 DEF SwitchStats
        <4>2. /\ t = queuedFor[next] + d
              /\ t \in Nat /\ t <= MaxTime
          <5>1. /\ now \in Nat /\ wakeup_ts[next] \in Nat
                /\ now - wakeup_ts[next] = queuedFor[next]
            BY <3>1 DEF IInv, TypeOK, TracingInv
          <5>2. MaxTime \in Nat /\ queuedFor[next] \in Nat
            BY <2>3, <3>1, TimeAssumption
          <5> QED
            BY <2>3, <5>1, <5>2
        <4> HIDE DEF t
        <4>3. Bucket(t) = Promise!Slot(queuedFor[next] + d)
          BY <4>2, SlotIsBucket
        <4> QED
          BY <1>2, <2>3, <3>1, <4>1, <4>3, DispatchStep
      <3>2. CASE next \notin DOMAIN wakeup_ts
        <4>1. /\ DOMAIN wakeup_ts' = DOMAIN wakeup_ts
              /\ latency_hist' = latency_hist
          BY <2>4, <3>2 DEF SwitchStats
        <4> QED
          BY <2>3, <4>1, PassStep
      <3> QED
        BY <3>1, <3>2
    <2> QED
      BY <2>5, <2>6
  <1>7. ASSUME NEW p \in Pids, NEW d \in Durations, ProcessExit(p, d)
        PROVE  TracingInv' /\ Promise!Next
    <2>1. /\ Elapse(d, {}) /\ tstate[p] = "running"
          /\ handle_sched_process_exit(p, now + d)
          /\ UNCHANGED <<attached, observed>>
      BY <1>7 DEF ProcessExit
    <2>2. now + d \in Nat /\ StampsUpTo(now + d)
      BY <2>1, ElapseFacts DEF IInv, Stamped
    <2>3. /\ DOMAIN wakeup_ts' = DOMAIN wakeup_ts
          /\ latency_hist' = latency_hist
          /\ \A q \in DOMAIN wakeup_ts' : wakeup_ts'[q] = wakeup_ts[q]
      BY <1>1, <2>1, <2>2, MapsOfTypeOK, ExitHandler DEF IInv
    <2>4. /\ now' = now + d /\ now' <= MaxTime
          /\ \A q \in DOMAIN wakeup_ts :
               /\ queuedFor'[q] = queuedFor[q] + d
               /\ q \in DOMAIN wakeup_ts' /\ wakeup_ts'[q] = wakeup_ts[q] =>
                    now' - wakeup_ts'[q] = queuedFor'[q]
      BY <2>1, WaitsPass
    <2> QED
      BY <2>1, <2>3, <2>4, PassStep DEF TracingInv
  <1>8. CASE Consume \/ (\E p \in Pids : PrepareToSleep(p)) \/ UNCHANGED vars
    <2>1. UNCHANGED <<now, attached, observed, wakeup_ts, queuedFor, latency_hist>>
      BY <1>8 DEF Consume, PrepareToSleep, vars, kernelVars, mapVars, historyVars
    <2> QED
      BY <2>1 DEF TracingInv, waiting
  <1> QED
    BY <1>4, <1>5, <1>6, <1>7, <1>8 DEF Next

(* With the programs attached before the workload starts and no wakeup of  *)
(* a task on its CPU, the latency mode keeps its promise: the histogram    *)
(* has one sample per dispatch of a task whose wakeup it caught, in the    *)
(* slot of the time that task had really spent on the runqueue.            *)
THEOREM PromiseKept ==
  ASSUME ~SpuriousWakeups, NoWrap
  PROVE  SpecTracing => ImplementsPromise
  <1>1. InitTracing => TracingInv /\ Promise!Init
    BY TimeAssumption
    DEF InitTracing, Start, TracingInv, EmptyMap, Promise!Init
  <1>2. LatencyInv /\ TracingInv /\ [Next]_vars
          => TracingInv' /\ [Promise!Next]_<<waiting, latency_hist>>
    BY RefinementStep DEF LatencyInv
  <1> QED
    BY <1>1, <1>2, LatencyInductive, PTL
    DEF SpecTracing, ImplementsPromise, Promise!Spec, waiting

==============================================================================
