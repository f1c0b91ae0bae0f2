-------------------------- MODULE SchedLabUserProofs --------------------------
(***************************************************************************)
(* Theorems about the modes of schedlab_user.c, for every number of CPUs,  *)
(* tasks, events, slots and buckets: what the stream prints, what the walk *)
(* over task_stats_map lists, how long a mode runs, and what the latency   *)
(* report and the scripts say of the histogram.                            *)
(***************************************************************************)
EXTENDS MCSchedLabUser, FiniteSetTheorems, TLAPS

------------------------------------------------------------------------------
(* The stream.  A handler in progress has a record of its own; reserved    *)
(* has the record as it was when it was reserved.                          *)

EventRec == [at : {"stamped", "reserved"}, type : {"WAKEUP", "SWITCH", "EXIT"},
             ts : Nat, cpu : CPUs, late : SUBSET Nat]

StreamTypes ==
  /\ handlers \in [CPUs -> Seq(EventRec)]
  /\ reserved \in Seq(EventRec)
  /\ printed \in Seq(EventRec)
  /\ now \in Nat /\ consumer \in Nat
  /\ streaming \in BOOLEAN
  /\ poll \in {"poll", "event", "done"}

(* Time stamps are handed out by now; only an exit is interrupted, and     *)
(* only by a wakeup.                                                       *)
Nested(hs, time) ==
  \A c \in CPUs : \A k \in DOMAIN hs[c] :
    /\ hs[c][k].ts < time
    /\ hs[c][k].cpu = c
    /\ \A j \in DOMAIN hs[c] :
         j < k => hs[c][j].type = "EXIT" /\ hs[c][k].type = "WAKEUP"

(* An event that is stamped but has no record is late to every younger     *)
(* one: to those whose handlers run ...                                    *)
LateToHandlers(hs) ==
  \A c, d \in CPUs : \A j \in DOMAIN hs[c], k \in DOMAIN hs[d] :
    hs[c][j].at = "stamped" /\ hs[c][j].ts < hs[d][k].ts =>
      hs[c][j].ts \in hs[d][k].late

(* ... and to those with a record. *)
LateToRecords(hs, rs) ==
  \A m \in DOMAIN rs : \A c \in CPUs : \A j \in DOMAIN hs[c] :
    hs[c][j].at = "stamped" /\ hs[c][j].ts < rs[m].ts =>
      /\ hs[c][j].ts \in rs[m].late
      /\ rs[m].cpu = c => rs[m].type = "WAKEUP" /\ hs[c][j].type = "EXIT"

RecordsStamped(rs, time) == \A m \in DOMAIN rs : rs[m].ts < time

RecordsInOrder(rs) ==
  \A m, n \in DOMAIN rs : m < n /\ rs[m].ts > rs[n].ts =>
    /\ rs[n].ts \in rs[m].late
    /\ rs[m].cpu = rs[n].cpu => rs[m].type = "WAKEUP" /\ rs[n].type = "EXIT"

(* The kernel's side, and the program's. *)
KernelInv(hs, rs, time) ==
  /\ Nested(hs, time)
  /\ LateToHandlers(hs)
  /\ LateToRecords(hs, rs)
  /\ RecordsStamped(rs, time)
  /\ RecordsInOrder(rs)

PollInv ==
  /\ consumer <= Len(reserved)
  /\ Len(printed) <= consumer
  /\ consumer <= Len(printed) + (IF streaming \/ poll # "done" THEN 0 ELSE 1)
  /\ \A m \in DOMAIN printed : printed[m] = reserved[m]
  /\ \A m \in 1 .. consumer : reserved[m].ts \in submitted
  /\ poll = "event" => /\ consumer < Len(reserved)
                       /\ reserved[consumer + 1].ts \in submitted
  /\ poll = "done" => ~streaming

StreamInv == StreamTypes /\ KernelInv(handlers, reserved, now) /\ PollInv

(* What a step of the handlers of c leaves of those in progress. *)
Shrinks(hs, hs2) ==
  \A d \in CPUs : \A k \in DOMAIN hs2[d] :
    /\ k \in DOMAIN hs[d]
    /\ hs2[d][k].ts = hs[d][k].ts
    /\ hs2[d][k].type = hs[d][k].type
    /\ hs2[d][k].cpu = hs[d][k].cpu
    /\ hs2[d][k].late = hs[d][k].late
    /\ hs2[d][k].at = "stamped" => hs[d][k].at = "stamped"

LEMMA ShrinksKeeps ==
  ASSUME NEW hs, NEW hs2, NEW rs, NEW time, KernelInv(hs, rs, time), Shrinks(hs, hs2)
  PROVE  KernelInv(hs2, rs, time)
  <1>1. Nested(hs2, time)
    BY DEF KernelInv, Nested, Shrinks
  <1>2. LateToHandlers(hs2)
    BY DEF KernelInv, LateToHandlers, Shrinks
  <1>3. LateToRecords(hs2, rs)
    BY DEF KernelInv, LateToRecords, Shrinks
  <1> QED
    BY <1>1, <1>2, <1>3 DEF KernelInv

(* The innermost handler of c, when it goes on. *)
LEMMA TopFacts ==
  ASSUME StreamTypes, NEW c \in CPUs, c \in Stream!InProgress
  PROVE  /\ handlers[c] \in Seq(EventRec)
         /\ Len(handlers[c]) \in DOMAIN handlers[c]
         /\ Len(handlers[c]) \in Nat
         /\ Stream!Top(c) = handlers[c][Len(handlers[c])]
         /\ Stream!Top(c) \in EventRec
  <1>1. handlers[c] \in Seq(EventRec) /\ handlers[c] # <<>>
    BY DEF StreamTypes, Stream!InProgress
  <1>2. /\ Len(handlers[c]) \in DOMAIN handlers[c] /\ Len(handlers[c]) \in Nat
        /\ handlers[c][Len(handlers[c])] \in EventRec
    BY <1>1
  <1> QED
    BY <1>1, <1>2 DEF Stream!Top, Stream!Last

(* The handler of c is over. *)
LEMMA FrontShrinks ==
  ASSUME StreamTypes, NEW c \in CPUs, c \in Stream!InProgress,
         handlers' = [handlers EXCEPT ![c] = Stream!Front(@)]
  PROVE  Shrinks(handlers, handlers') /\ handlers' \in [CPUs -> Seq(EventRec)]
  <1> DEFINE s == handlers[c]
             f == SubSeq(s, 1, Len(s) - 1)
  <1>1. s \in Seq(EventRec) /\ Len(s) \in DOMAIN s /\ Len(s) \in Nat
    BY TopFacts
  <1>2. handlers' = [handlers EXCEPT ![c] = f] /\ handlers \in [CPUs -> Seq(EventRec)]
    BY DEF Stream!Front, StreamTypes
  <1> HIDE DEF s
  <1>3. /\ f \in Seq(EventRec)
        /\ \A k \in DOMAIN f : k \in DOMAIN s /\ f[k] = s[k]
    BY <1>1
  <1> HIDE DEF f
  <1>4. /\ handlers' \in [CPUs -> Seq(EventRec)]
        /\ handlers'[c] = f
        /\ \A d \in CPUs : d # c => handlers'[d] = handlers[d]
    BY <1>2, <1>3
  <1> QED
    BY <1>3, <1>4 DEF Shrinks, s

LEMMA StampStep ==
  ASSUME StreamInv, NEW c \in CPUs, NEW type \in Stream!Types, Stream!Stamp(c, type)
  PROVE  StreamInv'
  <1> DEFINE s == handlers[c]
             e == [at |-> "stamped", type |-> type, ts |-> now, cpu |-> c,
                   late |-> Stream!pending]
             k == Len(s) + 1
             s2 == Append(s, e)
  <1>1. /\ handlers \in [CPUs -> Seq(EventRec)] /\ now \in Nat
        /\ s \in Seq(EventRec) /\ k \in Nat
    BY DEF StreamInv, StreamTypes
  <1>2. /\ handlers' = [handlers EXCEPT ![c] = s2] /\ now' = now + 1
        /\ UNCHANGED <<reserved, submitted, dropped, consumer, printed, poll, streaming>>
        /\ \/ s = <<>>
           \/ Len(s) = 1 /\ s[1].type = "EXIT" /\ type = "WAKEUP"
    BY <1>1 DEF Stream!Stamp, Stream!user, Stream!Top, Stream!Last
  <1>3. /\ Stream!pending \subseteq Nat
        /\ \A d \in CPUs : \A j \in DOMAIN handlers[d] :
             handlers[d][j].at = "stamped" => handlers[d][j].ts \in Stream!pending
    <2>1. \A d \in CPUs : \A j \in DOMAIN handlers[d] : handlers[d][j].ts \in Nat
      <3>1. \A d \in CPUs : \A j \in DOMAIN handlers[d] : handlers[d][j] \in EventRec
        BY <1>1
      <3> QED
        BY <3>1 DEF EventRec
    <2> QED
      BY <2>1 DEF Stream!pending
  <1>4. e \in EventRec
    BY <1>1, <1>3 DEF EventRec, Stream!Types
  <1>5. /\ e.at = "stamped" /\ e.type = type /\ e.ts = now /\ e.cpu = c
        /\ e.late = Stream!pending
    OBVIOUS
  <1> HIDE DEF s, e
  <1>6. /\ s2 \in Seq(EventRec)
        /\ DOMAIN s2 = DOMAIN s \cup {k}
        /\ s2[k] = e
        /\ \A j \in DOMAIN s : s2[j] = s[j] /\ j \in Nat /\ j < k
    BY <1>1, <1>4
  <1>7. DOMAIN s = {} \/ (DOMAIN s = {1} /\ s[1].type = "EXIT" /\ type = "WAKEUP")
    <2>1. DOMAIN s = 1 .. Len(s) /\ DOMAIN <<>> = {} /\ 1 .. 1 = {1}
      BY <1>1
    <2> QED
      BY <1>2, <2>1
  <1> HIDE DEF s2, k
  <1>8. /\ handlers' \in [CPUs -> Seq(EventRec)]
        /\ handlers'[c] = s2
        /\ \A d \in CPUs : d # c => handlers'[d] = handlers[d]
    BY <1>1, <1>2, <1>6
  <1>9. \A d \in CPUs : \A j \in DOMAIN handlers'[d] :
          \/ d = c /\ j = k /\ handlers'[d][j] = e
          \/ j \in DOMAIN handlers[d] /\ handlers'[d][j] = handlers[d][j]
    BY <1>6, <1>8 DEF s
  <1>10. Nested(handlers, now) /\ RecordsStamped(reserved, now)
    BY DEF StreamInv, KernelInv
  <1>11. \A d \in CPUs : \A j \in DOMAIN handlers[d] :
           handlers[d][j].ts \in Nat /\ handlers[d][j].ts < now
    <2>1. \A d \in CPUs : \A j \in DOMAIN handlers[d] : handlers[d][j] \in EventRec
      BY <1>1
    <2> QED
      BY <1>10, <2>1 DEF EventRec, Nested
  <1>12. Nested(handlers', now + 1)
    <2> SUFFICES ASSUME NEW d \in CPUs, NEW n \in DOMAIN handlers'[d]
                 PROVE  /\ handlers'[d][n].ts < now + 1
                        /\ handlers'[d][n].cpu = d
                        /\ \A j \in DOMAIN handlers'[d] :
                             j < n => /\ handlers'[d][j].type = "EXIT"
                                      /\ handlers'[d][n].type = "WAKEUP"
      BY DEF Nested
    <2>1. CASE d # c
      BY <1>1, <1>8, <1>10, <1>11, <2>1 DEF Nested
    <2>2. CASE d = c /\ n \in DOMAIN s
      <3>1. /\ s2[n] = s[n] /\ s[n].ts \in Nat /\ s[n].ts < now /\ s[n].cpu = c
            /\ \A j \in DOMAIN s : j < n => s[j].type = "EXIT" /\ s[n].type = "WAKEUP"
        BY <1>6, <1>10, <1>11, <2>2 DEF Nested, s
      <3>2. \A j \in DOMAIN s2 : j < n => j \in DOMAIN s /\ s2[j] = s[j]
        BY <1>1, <1>6, <2>2
      <3> QED
        BY <1>1, <1>8, <2>2, <3>1, <3>2
    <2>3. CASE d = c /\ n = k
      <3>1. \A j \in DOMAIN s2 : j < k => s2[j].type = "EXIT" /\ type = "WAKEUP"
        BY <1>1, <1>6, <1>7
      <3> QED
        BY <1>1, <1>5, <1>6, <1>8, <2>3, <3>1
    <2> QED
      BY <1>6, <1>8, <2>1, <2>2, <2>3
  <1>13. LateToHandlers(handlers')
    <2> SUFFICES ASSUME NEW a \in CPUs, NEW d \in CPUs,
                        NEW j \in DOMAIN handlers'[a], NEW n \in DOMAIN handlers'[d],
                        handlers'[a][j].at = "stamped",
                        handlers'[a][j].ts < handlers'[d][n].ts
                 PROVE  handlers'[a][j].ts \in handlers'[d][n].late
      BY DEF LateToHandlers
    <2>1. LateToHandlers(handlers)
      BY DEF StreamInv, KernelInv
    <2>2. CASE j \in DOMAIN handlers[a] /\ handlers'[a][j] = handlers[a][j]
      <3>1. CASE handlers'[d][n] = e
        BY <1>3, <1>5, <2>2, <3>1
      <3>2. CASE n \in DOMAIN handlers[d] /\ handlers'[d][n] = handlers[d][n]
        BY <2>1, <2>2, <3>2 DEF LateToHandlers
      <3> QED
        BY <1>9, <3>1, <3>2
    <2>3. CASE handlers'[a][j] = e
      <3>1. CASE handlers'[d][n] = e
        BY <1>1, <1>5, <2>3, <3>1
      <3>2. CASE n \in DOMAIN handlers[d] /\ handlers'[d][n] = handlers[d][n]
        BY <1>1, <1>5, <1>11, <2>3, <3>2
      <3> QED
        BY <1>9, <3>1, <3>2
    <2> QED
      BY <1>9, <2>2, <2>3
  <1>14. \A m \in DOMAIN reserved : reserved[m].ts \in Nat /\ reserved[m].ts < now
    <2>1. \A m \in DOMAIN reserved : reserved[m] \in EventRec
      BY DEF StreamInv, StreamTypes
    <2> QED
      BY <1>10, <2>1 DEF RecordsStamped, EventRec
  <1>15. LateToRecords(handlers', reserved)
    <2> SUFFICES ASSUME NEW m \in DOMAIN reserved, NEW a \in CPUs,
                        NEW j \in DOMAIN handlers'[a],
                        handlers'[a][j].at = "stamped",
                        handlers'[a][j].ts < reserved[m].ts
                 PROVE  /\ handlers'[a][j].ts \in reserved[m].late
                        /\ reserved[m].cpu = a =>
                             reserved[m].type = "WAKEUP" /\ handlers'[a][j].type = "EXIT"
      BY DEF LateToRecords
    <2>1. handlers'[a][j] # e
      BY <1>1, <1>5, <1>14
    <2> QED
      BY <1>9, <2>1 DEF StreamInv, KernelInv, LateToRecords
  <1>16. RecordsStamped(reserved, now + 1)
    BY <1>1, <1>14 DEF RecordsStamped
  <1>17. KernelInv(handlers', reserved', now')
    BY <1>2, <1>12, <1>13, <1>15, <1>16 DEF StreamInv, KernelInv
  <1> QED
    BY <1>1, <1>2, <1>8, <1>17 DEF StreamInv, StreamTypes, PollInv


LEMMA ReserveStep ==
  ASSUME StreamInv, NEW c \in CPUs, Stream!Reserve(c)
  PROVE  StreamInv'
  <1> DEFINE s == handlers[c]
             k == Len(s)
             top == s[k]
             r2 == Append(reserved, top)
  <1>1. /\ c \in Stream!InProgress /\ Stream!Top(c).at = "stamped"
        /\ UNCHANGED <<now, submitted, consumer, printed, poll, streaming>>
    BY DEF Stream!Reserve, Stream!user
  <1>2. StreamTypes /\ handlers \in [CPUs -> Seq(EventRec)] /\ reserved \in Seq(EventRec)
    BY DEF StreamInv, StreamTypes
  <1>3. /\ s \in Seq(EventRec) /\ k \in DOMAIN s /\ k \in Nat
        /\ Stream!Top(c) = top /\ top \in EventRec
    BY <1>1, <1>2, TopFacts
  <1>4. CASE Len(reserved) - consumer < RingSlots
    <2>1. /\ reserved' = r2
          /\ handlers' = [handlers EXCEPT ![c][k].at = "reserved"]
      BY <1>3, <1>4 DEF Stream!Reserve
    <2> DEFINE t2 == [top EXCEPT !.at = "reserved"]
               s2 == [s EXCEPT ![k] = t2]
    <2>2. /\ t2 \in EventRec /\ t2.at = "reserved" /\ t2.ts = top.ts
          /\ t2.type = top.type /\ t2.cpu = top.cpu /\ t2.late = top.late
      BY <1>3 DEF EventRec
    <2>3. handlers' = [handlers EXCEPT ![c] = s2]
      BY <2>1
    <2> HIDE DEF t2, s
    <2>4. /\ s2 \in Seq(EventRec)
          /\ DOMAIN s2 = DOMAIN s
          /\ s2[k] = t2
          /\ \A j \in DOMAIN s : j # k => s2[j] = s[j]
      BY <1>3, <2>2
    <2> HIDE DEF s2
    <2>5. /\ handlers' \in [CPUs -> Seq(EventRec)]
          /\ handlers'[c] = s2
          /\ \A d \in CPUs : d # c => handlers'[d] = handlers[d]
      BY <1>2, <2>3, <2>4
    <2>6. Shrinks(handlers, handlers')
      <3> SUFFICES ASSUME NEW d \in CPUs, NEW j \in DOMAIN handlers'[d]
                   PROVE  /\ j \in DOMAIN handlers[d]
                          /\ handlers'[d][j].ts = handlers[d][j].ts
                          /\ handlers'[d][j].type = handlers[d][j].type
                          /\ handlers'[d][j].cpu = handlers[d][j].cpu
                          /\ handlers'[d][j].late = handlers[d][j].late
                          /\ handlers'[d][j].at = "stamped" => handlers[d][j].at = "stamped"
        BY DEF Shrinks
      <3>1. CASE d = c /\ j = k
        BY <1>3, <2>2, <2>4, <2>5, <3>1 DEF s
      <3>2. CASE ~(d = c /\ j = k)
        BY <2>4, <2>5, <3>2 DEF s
      <3> QED
        BY <3>1, <3>2
    <2>7. KernelInv(handlers, reserved, now) /\ KernelInv(handlers', reserved, now)
      BY <2>6, ShrinksKeeps DEF StreamInv
    <2> DEFINE l == Len(reserved) + 1
    <2> HIDE DEF top
    <2>8. /\ r2 \in Seq(EventRec)
          /\ Len(r2) = Len(reserved) + 1
          /\ DOMAIN r2 = DOMAIN reserved \cup {l}
          /\ r2[l] = top /\ l \in Nat
          /\ \A m \in DOMAIN reserved : r2[m] = reserved[m] /\ m \in Nat /\ m < l
      BY <1>2, <1>3
    <2> HIDE DEF r2, l
    <2>9. /\ top.at = "stamped" /\ top.ts < now /\ top.cpu = c
          /\ top = handlers[c][k] /\ k \in DOMAIN handlers[c]
      BY <1>1, <1>3, <2>7 DEF KernelInv, Nested, s, top
    <2>10. RecordsStamped(r2, now)
      BY <2>7, <2>8, <2>9 DEF KernelInv, RecordsStamped
    <2>11. RecordsInOrder(r2)
      <3> SUFFICES ASSUME NEW m \in DOMAIN r2, NEW n \in DOMAIN r2,
                          m < n, r2[m].ts > r2[n].ts
                   PROVE  /\ r2[n].ts \in r2[m].late
                          /\ r2[m].cpu = r2[n].cpu =>
                               r2[m].type = "WAKEUP" /\ r2[n].type = "EXIT"
        BY DEF RecordsInOrder
      <3>1. m \in DOMAIN reserved /\ r2[m] = reserved[m]
        BY <2>8
      <3>2. CASE n \in DOMAIN reserved
        BY <2>7, <2>8, <3>1, <3>2 DEF KernelInv, RecordsInOrder
      <3>3. CASE n = l
        <4>1. top.ts < reserved[m].ts
          <5>1. reserved[m] \in EventRec
            BY <1>2, <3>1
          <5>2. reserved[m].ts \in Nat /\ top.ts \in Nat
            BY <1>3, <5>1 DEF EventRec
          <5> QED
            BY <2>8, <3>1, <3>3, <5>2
        <4> QED
          BY <2>7, <2>8, <2>9, <3>1, <3>3, <4>1 DEF KernelInv, LateToRecords
      <3> QED
        BY <2>8, <3>2, <3>3
    <2>12. LateToRecords(handlers', r2)
      <3> SUFFICES ASSUME NEW m \in DOMAIN r2, NEW d \in CPUs,
                          NEW j \in DOMAIN handlers'[d],
                          handlers'[d][j].at = "stamped",
                          handlers'[d][j].ts < r2[m].ts
                   PROVE  /\ handlers'[d][j].ts \in r2[m].late
                          /\ r2[m].cpu = d =>
                               r2[m].type = "WAKEUP" /\ handlers'[d][j].type = "EXIT"
        BY DEF LateToRecords
      <3>1. CASE m \in DOMAIN reserved
        BY <2>7, <2>8, <3>1 DEF KernelInv, LateToRecords
      <3>2. CASE m = l
        <4>1. /\ j \in DOMAIN handlers[d] /\ handlers[d][j].at = "stamped"
              /\ handlers'[d][j].ts = handlers[d][j].ts
              /\ handlers'[d][j].type = handlers[d][j].type
          BY <2>6 DEF Shrinks
        <4>2. handlers[d][j].ts \in top.late
          BY <2>7, <2>8, <2>9, <3>2, <4>1 DEF KernelInv, LateToHandlers
        <4>3. d = c => j < k
          <5>1. d = c => j # k
            BY <2>2, <2>4, <2>5
          <5>2. d = c => j \in 1 .. k
            BY <1>3, <4>1 DEF s, k
          <5> QED
            BY <1>3, <5>1, <5>2
        <4>4. d = c => top.type = "WAKEUP" /\ handlers[d][j].type = "EXIT"
          BY <2>7, <2>9, <4>1, <4>3 DEF KernelInv, Nested
        <4> QED
          BY <2>8, <2>9, <3>2, <4>1, <4>2, <4>4
      <3> QED
        BY <2>8, <3>1, <3>2
    <2>13. KernelInv(handlers', r2, now)
      BY <2>7, <2>10, <2>11, <2>12 DEF KernelInv
    <2>14. PollInv'
      <3>1. /\ consumer \in Nat /\ Len(reserved) \in Nat
            /\ \A m \in 1 .. consumer : m \in DOMAIN reserved
            /\ DOMAIN printed \subseteq DOMAIN reserved
            /\ poll = "event" => consumer + 1 \in DOMAIN reserved
        BY <1>2 DEF StreamInv, StreamTypes, PollInv
      <3> QED
        BY <1>1, <2>1, <2>8, <3>1 DEF StreamInv, PollInv, r2
    <2> QED
      BY <1>1, <2>1, <2>5, <2>8, <2>13, <2>14 DEF StreamInv, StreamTypes, r2
  <1>5. CASE ~(Len(reserved) - consumer < RingSlots)
    <2>1. /\ handlers' = [handlers EXCEPT ![c] = Stream!Front(@)]
          /\ UNCHANGED reserved
      BY <1>5 DEF Stream!Reserve
    <2>2. Shrinks(handlers, handlers') /\ handlers' \in [CPUs -> Seq(EventRec)]
      BY <1>1, <1>2, <2>1, FrontShrinks
    <2>3. KernelInv(handlers', reserved', now')
      BY <1>1, <2>1, <2>2, ShrinksKeeps DEF StreamInv
    <2> QED
      BY <1>1, <1>2, <2>1, <2>2, <2>3 DEF StreamInv, StreamTypes, PollInv
  <1> QED
    BY <1>4, <1>5


LEMMA SubmitStep ==
  ASSUME StreamInv, NEW c \in CPUs, Stream!Submit(c)
  PROVE  StreamInv'
  <1>1. /\ c \in Stream!InProgress
        /\ submitted' = submitted \cup {Stream!Top(c).ts}
        /\ handlers' = [handlers EXCEPT ![c] = Stream!Front(@)]
        /\ UNCHANGED <<now, reserved, consumer, printed, poll, streaming>>
    BY DEF Stream!Submit, Stream!user
  <1>2. Shrinks(handlers, handlers') /\ handlers' \in [CPUs -> Seq(EventRec)]
    BY <1>1, FrontShrinks DEF StreamInv
  <1>3. KernelInv(handlers', reserved', now')
    BY <1>1, <1>2, ShrinksKeeps DEF StreamInv
  <1> QED
    BY <1>1, <1>2, <1>3 DEF StreamInv, StreamTypes, PollInv

LEMMA ConsumerStep ==
  ASSUME StreamInv, Stream!Consumer \/ Stream!sig_handler
  PROVE  StreamInv'
  <1>1. UNCHANGED <<handlers, now, reserved, submitted>>
    BY DEF Stream!Consumer, Stream!Poll, Stream!event_handler, Stream!EndLoop,
           Stream!sig_handler, Stream!kernel
  <1>2. KernelInv(handlers', reserved', now')
    BY <1>1 DEF StreamInv
  <1>3. /\ consumer \in Nat /\ Len(reserved) \in Nat /\ Len(printed) \in Nat
        /\ reserved \in Seq(EventRec) /\ printed \in Seq(EventRec)
        /\ PollInv
    BY DEF StreamInv, StreamTypes
  <1>4. CASE Stream!Poll
    BY <1>1, <1>2, <1>4
    DEF Stream!Poll, Stream!ready, Stream!next_record, StreamInv, StreamTypes, PollInv
  <1>5. CASE Stream!EndLoop
    BY <1>1, <1>2, <1>3, <1>5 DEF Stream!EndLoop, StreamInv, StreamTypes, PollInv
  <1>6. CASE Stream!sig_handler
    BY <1>1, <1>2, <1>3, <1>6 DEF Stream!sig_handler, StreamInv, StreamTypes, PollInv
  <1>7. CASE Stream!event_handler
    <2>1. /\ poll = "event" /\ consumer' = consumer + 1 /\ UNCHANGED streaming
          /\ consumer < Len(reserved) /\ reserved[consumer + 1].ts \in submitted
          /\ consumer = Len(printed)
      BY <1>3, <1>7 DEF Stream!event_handler, PollInv
    <2>2. \A m \in 1 .. consumer + 1 : reserved[m].ts \in submitted
      <3>1. \A m \in 1 .. consumer + 1 : m = consumer + 1 \/ m \in 1 .. consumer
        BY <1>3
      <3> QED
        BY <1>3, <2>1, <3>1 DEF PollInv
    <2>3. CASE streaming
      <3> DEFINE e == reserved[consumer + 1]
                 q == Append(printed, e)
      <3>1. /\ printed' = q
            /\ \/ poll' = "event" /\ consumer' < Len(reserved)
                  /\ reserved[consumer' + 1].ts \in submitted
               \/ poll' = "poll"
        BY <1>7, <2>3 DEF Stream!event_handler, Stream!next_record
      <3>2. consumer + 1 \in DOMAIN reserved /\ e \in EventRec
        BY <1>3, <2>1
      <3> HIDE DEF e
      <3>3. /\ q \in Seq(EventRec) /\ Len(q) = Len(printed) + 1
            /\ DOMAIN q = DOMAIN printed \cup {Len(printed) + 1}
            /\ q[Len(printed) + 1] = e
            /\ \A m \in DOMAIN printed : q[m] = printed[m]
        BY <1>3, <3>2
      <3> HIDE DEF q
      <3>4. \A m \in DOMAIN q : q[m] = reserved[m]
        BY <1>3, <2>1, <3>3 DEF e, PollInv
      <3>5. PollInv'
        BY <1>1, <1>3, <2>1, <2>2, <3>1, <3>3, <3>4 DEF PollInv
      <3> QED
        BY <1>1, <1>2, <1>3, <2>1, <3>1, <3>3, <3>5 DEF StreamInv, StreamTypes
    <2>4. CASE ~streaming
      <3>1. poll' = "done" /\ UNCHANGED printed
        BY <1>7, <2>4 DEF Stream!event_handler
      <3>2. PollInv'
        BY <1>1, <1>3, <2>1, <2>2, <2>4, <3>1 DEF PollInv
      <3> QED
        BY <1>1, <1>2, <1>3, <2>1, <3>1, <3>2 DEF StreamInv, StreamTypes
    <2> QED
      BY <1>3, <2>3, <2>4
  <1> QED
    BY <1>4, <1>5, <1>6, <1>7 DEF Stream!Consumer

LEMMA StreamInit == Stream!Init => StreamInv
  <1> SUFFICES ASSUME Stream!Init PROVE StreamInv
    OBVIOUS
  <1> USE DEF Stream!Init
  <1>1. StreamTypes
    BY DEF StreamTypes
  <1>2. KernelInv(handlers, reserved, now)
    BY DEF KernelInv, Nested, LateToHandlers, LateToRecords, RecordsStamped,
           RecordsInOrder
  <1>3. PollInv
    BY DEF PollInv
  <1> QED
    BY <1>1, <1>2, <1>3 DEF StreamInv

LEMMA StreamNext == StreamInv /\ Stream!Next => StreamInv'
  BY StampStep, ReserveStep, SubmitStep, ConsumerStep DEF Stream!Next, Stream!Handler

LEMMA StreamSame == StreamInv /\ UNCHANGED stream => StreamInv'
  BY DEF stream, StreamInv, StreamTypes, PollInv

LEMMA StreamHolds == Spec => []StreamInv
  <1>1. Init => StreamInv
    BY StreamInit DEF Init
  <1>2. StreamInv /\ [Next]_vars => StreamInv'
    BY StreamNext, StreamSame
    DEF Next, MainDoes, LatencyDoes, FairnessDoes, StreamDoes, vars
  <1> QED
    BY <1>1, <1>2, PTL DEF Spec

(* Stream mode prints what was submitted, each record once and in the      *)
(* order of reservation, and two events stand in another order than that   *)
(* of their stamps only when the younger one's handler ran, on another CPU *)
(* or on top of an exit's, between the other's stamp and its reservation.  *)
THEOREM StreamIsInOrder == Spec => []StreamInOrder
  <1>1. StreamInv => StreamInOrder
    <2> SUFFICES ASSUME StreamInv PROVE Stream!StreamInOrder
      BY DEF StreamInOrder
    <2>1. /\ consumer \in Nat /\ Len(reserved) \in Nat /\ Len(printed) \in Nat
          /\ reserved \in Seq(EventRec) /\ printed \in Seq(EventRec)
          /\ PollInv /\ RecordsInOrder(reserved)
      BY DEF StreamInv, StreamTypes, KernelInv
    <2>2. printed = SubSeq(reserved, 1, Len(printed))
      BY <2>1 DEF PollInv
    <2>3. consumer - Len(printed) \in (IF streaming \/ poll # "done" THEN {0} ELSE {0, 1})
      BY <2>1 DEF PollInv
    <2>4. \A m \in 1 .. consumer : reserved[m].ts \in submitted
      BY <2>1 DEF PollInv
    <2>5. \A m \in DOMAIN printed : m \in DOMAIN reserved /\ printed[m] = reserved[m]
      BY <2>1 DEF PollInv
    <2>6. \A m, n \in DOMAIN printed : m < n /\ printed[m].ts > printed[n].ts =>
            /\ printed[n].ts \in printed[m].late
            /\ printed[m].cpu = printed[n].cpu =>
                 printed[m].type = "WAKEUP" /\ printed[n].type = "EXIT"
      BY <2>1, <2>5 DEF RecordsInOrder
    <2> QED
      BY <2>2, <2>3, <2>4, <2>6 DEF Stream!StreamInOrder
  <1> QED
    BY <1>1, StreamHolds, PTL


------------------------------------------------------------------------------
(* The walk over task_stats_map.                                           *)

Fields == Fairness!Fields

(* Key p comes before key q in the map's order. *)
Prec(o, p, q) == \E m, n \in DOMAIN o : m < n /\ o[m] = p /\ o[n] = q

(* The walk that stands at key k has passed p; at key 0 it has passed none. *)
Passed(o, k, p) == k # 0 /\ (p = k \/ Prec(o, p, k))

InMap(o) == {o[n] : n \in DOMAIN o}

Distinct(o) == \A m, n \in DOMAIN o : o[m] = o[n] => m = n

(* The record of p when the walk began. *)
Old(p) == IF p \in DOMAIN atStart THEN atStart[p] ELSE Fairness!NoRecord

WalkTypes ==
  /\ order \in Seq(Pids) /\ Distinct(order) /\ InMap(order) = DOMAIN task_stats
  /\ task_stats \in [DOMAIN task_stats -> [Fields -> Nat]]
  /\ atStart \in [DOMAIN atStart -> [Fields -> Nat]]
  /\ DOMAIN atStart \subseteq DOMAIN task_stats
  /\ 0 \notin DOMAIN task_stats
  /\ writing \subseteq DOMAIN task_stats
  /\ walk \in {"next", "copy", "done"}
  /\ key \in DOMAIN task_stats \cup {0}
  /\ stats \in [Fields -> Nat]
  /\ copied \subseteq Fields
  /\ rows \in Seq([pid : Pids, stats : [Fields -> Nat]])

(* Records only grow, and who has one was woken. *)
Grown ==
  /\ \A p \in DOMAIN task_stats : \A f \in Fields : Old(p)[f] <= task_stats[p][f]
  /\ \A p \in DOMAIN atStart : atStart[p]["wakeups"] > 0

RowsInv ==
  /\ \A n \in DOMAIN rows :
       /\ rows[n].pid \in DOMAIN task_stats
       /\ Passed(order, key, rows[n].pid)
       /\ \A f \in Fields :
            rows[n].stats[f] \in Old(rows[n].pid)[f] .. task_stats[rows[n].pid][f]
  /\ \A m, n \in DOMAIN rows : rows[m].pid = rows[n].pid => m = n
  /\ \A p \in DOMAIN atStart :
       Passed(order, key, p) => \E n \in DOMAIN rows : rows[n].pid = p

(* The key whose record is copied is the next of those that were there     *)
(* when the walk began; new keys may stand before it.                      *)
CopyInv ==
  /\ walk = "next" => copied = {}
  /\ walk = "copy" =>
       /\ next_key \in DOMAIN task_stats
       /\ ~Passed(order, key, next_key)
       /\ \A p \in DOMAIN atStart :
            Passed(order, key, p) \/ p = next_key \/ Prec(order, next_key, p)
       /\ \A f \in copied :
            stats[f] \in Old(next_key)[f] .. task_stats[next_key][f]
  /\ walk = "done" => \A p \in DOMAIN atStart : Passed(order, key, p)

WalkInv == WalkTypes /\ Grown /\ RowsInv /\ CopyInv


LEMMA UserConstants ==
  /\ Pids \subseteq Nat /\ IsFiniteSet(Pids) /\ MAX_PIDS \in Nat
  <1>1. \A S : Fairness!IsFiniteSet(S) = IsFiniteSet(S)
    BY DEF Fairness!IsFiniteSet, IsFiniteSet
  <1> QED
    BY <1>1, UserAssumption DEF Fairness!WalkAssumption

LEMMA RecordFields ==
  /\ Fields = {"run_time_ns", "switches", "wakeups"}
  /\ Fairness!NoRecord \in [Fields -> Nat]
  /\ [Fairness!NoRecord EXCEPT !.wakeups = 1] \in [Fields -> Nat]
  /\ [Fairness!NoRecord EXCEPT !.wakeups = 1]["wakeups"] = 1
  /\ \A f \in Fields : Fairness!NoRecord[f] = 0
  BY DEF Fields, Fairness!Fields, Fairness!NoRecord

(* Distinct keys are linearly ordered. *)
LEMMA PrecOrder ==
  ASSUME NEW S, NEW o \in Seq(S), Distinct(o)
  PROVE  /\ \A p : ~Prec(o, p, p)
         /\ \A p, q : Prec(o, p, q) => ~Prec(o, q, p)
         /\ \A p, q, r : Prec(o, p, q) /\ Prec(o, q, r) => Prec(o, p, r)
         /\ \A p, q \in InMap(o) : p = q \/ Prec(o, p, q) \/ Prec(o, q, p)
         /\ \A p, q : Prec(o, p, q) => p \in InMap(o) /\ q \in InMap(o)
  <1>1. DOMAIN o \subseteq Nat
    OBVIOUS
  <1> QED
    BY <1>1 DEF Prec, Distinct, InMap

(* A key that is inserted leaves the order of the others as it is. *)
LEMMA InsertOrder ==
  ASSUME NEW S, NEW o \in Seq(S), Distinct(o), NEW e \in S, e \notin InMap(o),
         NEW n \in 1 .. Len(o) + 1
  PROVE  /\ Fairness!InsertAt(o, n, e) \in Seq(S)
         /\ Distinct(Fairness!InsertAt(o, n, e))
         /\ InMap(Fairness!InsertAt(o, n, e)) = InMap(o) \cup {e}
         /\ \A p, q \in InMap(o) : Prec(Fairness!InsertAt(o, n, e), p, q) <=> Prec(o, p, q)
  <1> DEFINE o2 == Fairness!InsertAt(o, n, e)
             up(m) == IF m < n THEN m ELSE m + 1
  <1>1. Len(o) \in Nat /\ n \in Nat /\ DOMAIN o = 1 .. Len(o)
    OBVIOUS
  <1>2. /\ o2 \in Seq(S)
        /\ DOMAIN o2 = 1 .. Len(o) + 1
        /\ o2[n] = e
        /\ \A m \in 1 .. Len(o) + 1 : m < n => o2[m] = o[m]
        /\ \A m \in 1 .. Len(o) + 1 : m > n => o2[m] = o[m - 1]
    <2> DEFINE a == SubSeq(o, 1, n - 1)
               b == SubSeq(o, n, Len(o))
               c == a \o <<e>>
    <2>1. /\ a \in Seq(S) /\ Len(a) = n - 1
          /\ \A m \in 1 .. n - 1 : a[m] = o[m]
      BY <1>1
    <2>2. /\ b \in Seq(S) /\ Len(b) = Len(o) - n + 1
          /\ \A m \in 1 .. Len(o) - n + 1 : b[m] = o[m + n - 1]
      BY <1>1
    <2> HIDE DEF a, b
    <2>3. /\ c \in Seq(S) /\ Len(c) = n
          /\ \A m \in 1 .. n - 1 : c[m] = o[m]
          /\ c[n] = e
      BY <1>1, <2>1
    <2>4. o2 = c \o b
      BY DEF Fairness!InsertAt, a, b
    <2> HIDE DEF c, o2
    <2>5. /\ o2 \in Seq(S) /\ Len(o2) = Len(o) + 1
          /\ \A m \in 1 .. n : o2[m] = c[m]
          /\ \A m \in n + 1 .. Len(o) + 1 : o2[m] = b[m - n]
      BY <1>1, <2>2, <2>3, <2>4
    <2>6. ASSUME NEW m \in 1 .. Len(o) + 1, m > n PROVE o2[m] = o[m - 1]
      <3>1. m - n \in 1 .. Len(o) - n + 1 /\ (m - n) + n - 1 = m - 1
        BY <1>1, <2>6
      <3> QED
        BY <1>1, <2>2, <2>5, <2>6, <3>1
    <2>7. DOMAIN o2 = 1 .. Len(o) + 1
      BY <1>1, <2>5
    <2>8. o2[n] = e /\ \A m \in 1 .. n - 1 : o2[m] = o[m]
      BY <1>1, <2>3, <2>5
    <2> QED
      BY <1>1, <2>5, <2>6, <2>7, <2>8
  <1> HIDE DEF o2
  <1>3. /\ \A m \in DOMAIN o : up(m) \in DOMAIN o2 /\ o2[up(m)] = o[m] /\ up(m) # n
        /\ \A m \in DOMAIN o2 : m = n \/ (\E k \in DOMAIN o : m = up(k))
        /\ \A k, m \in DOMAIN o : k < m <=> up(k) < up(m)
        /\ \A k, m \in DOMAIN o : up(k) = up(m) => k = m
        /\ n \in DOMAIN o2
    <2>1. \A m \in DOMAIN o : up(m) \in DOMAIN o2 /\ o2[up(m)] = o[m] /\ up(m) # n
      BY <1>1, <1>2
    <2>2. ASSUME NEW m \in DOMAIN o2 PROVE m = n \/ (\E k \in DOMAIN o : m = up(k))
      <3>1. CASE m < n
        BY <1>1, <1>2, <3>1
      <3>2. CASE m > n
        <4>1. m - 1 \in DOMAIN o /\ up(m - 1) = m
          BY <1>1, <1>2, <3>2
        <4> QED
          BY <4>1
      <3> QED
        BY <1>1, <1>2, <3>1, <3>2
    <2> QED
      BY <1>1, <1>2, <2>1, <2>2
  <1> HIDE DEF up
  <1>4. Distinct(o2)
    BY <1>2, <1>3 DEF Distinct, InMap
  <1>5. InMap(o2) = InMap(o) \cup {e}
    BY <1>2, <1>3 DEF InMap
  <1>6. \A p, q \in InMap(o) : Prec(o2, p, q) <=> Prec(o, p, q)
    <2> SUFFICES ASSUME NEW p \in InMap(o), NEW q \in InMap(o)
                 PROVE  Prec(o2, p, q) <=> Prec(o, p, q)
      OBVIOUS
    <2>1. Prec(o, p, q) => Prec(o2, p, q)
      BY <1>3 DEF Prec
    <2>2. ASSUME Prec(o2, p, q) PROVE Prec(o, p, q)
      <3> PICK k \in DOMAIN o2, m \in DOMAIN o2 : k < m /\ o2[k] = p /\ o2[m] = q
        BY <2>2 DEF Prec
      <3>1. k # n /\ m # n
        BY <1>2
      <3> PICK k0 \in DOMAIN o, m0 \in DOMAIN o : k = up(k0) /\ m = up(m0)
        BY <1>3, <3>1
      <3> QED
        BY <1>3 DEF Prec
    <2> QED
      BY <2>1, <2>2
  <1> QED
    BY <1>2, <1>4, <1>5, <1>6 DEF o2

LEMMA RestOfSeq ==
  ASSUME NEW S, NEW o \in Seq(S), NEW n \in Nat, n <= Len(o),
         SubSeq(o, n + 1, Len(o)) = << >>
  PROVE  n = Len(o)
  <1> SUFFICES ASSUME n < Len(o) PROVE FALSE
    OBVIOUS
  <1> DEFINE r == SubSeq(o, n + 1, Len(o))
  <1>1. r = << >> /\ Len(r) = Len(o) - n
    OBVIOUS
  <1> HIDE DEF r
  <1>2. Len(r) = 0
    BY <1>1
  <1> QED
    BY <1>1, <1>2

(* What bpf_map_get_next_key finds. *)
LEMMA FollowingKey ==
  ASSUME WalkTypes
  PROVE  /\ Fairness!Following(key) = <<>> =>
              \A p \in DOMAIN task_stats : Passed(order, key, p)
         /\ Fairness!Following(key) # <<>> =>
              LET h == Head(Fairness!Following(key))
              IN  /\ h \in DOMAIN task_stats
                  /\ ~Passed(order, key, h)
                  /\ \A p \in DOMAIN task_stats :
                       Passed(order, key, p) \/ p = h \/ Prec(order, h, p)
  <1> DEFINE I == {n \in 1 .. Len(order) : order[n] = key}
             at == IF I # {} THEN Fairness!Min(I) ELSE 0
  <1>1. /\ order \in Seq(Pids) /\ Distinct(order) /\ InMap(order) = DOMAIN task_stats
        /\ key \in DOMAIN task_stats \cup {0} /\ 0 \notin DOMAIN task_stats
        /\ Len(order) \in Nat /\ DOMAIN order = 1 .. Len(order)
    BY DEF WalkTypes
  <1>2. Fairness!Following(key) = SubSeq(order, at + 1, Len(order))
    BY DEF Fairness!Following, Fairness!SelectInSeq
  <1>3. \/ key = 0 /\ at = 0
        \/ key # 0 /\ at \in DOMAIN order /\ order[at] = key
    <2>1. CASE key = 0
      <3>1. I = {}
        BY <1>1, <2>1 DEF InMap
      <3> QED
        BY <2>1, <3>1
    <2>2. CASE key # 0
      <3> PICK n \in DOMAIN order : order[n] = key
        BY <1>1, <2>2 DEF InMap
      <3>1. I = {n}
        BY <1>1 DEF Distinct
      <3>2. at = n
        BY <1>1, <3>1 DEF Fairness!Min
      <3> QED
        BY <2>2, <3>2
    <2> QED
      BY <2>1, <2>2
  <1> HIDE DEF at
  <1>4. at \in Nat
    BY <1>1, <1>3
  <1>5. \A n \in DOMAIN order : Passed(order, key, order[n]) <=> n <= at
    <2> SUFFICES ASSUME NEW n \in DOMAIN order
                 PROVE  Passed(order, key, order[n]) <=> n <= at
      OBVIOUS
    <2>1. CASE key = 0
      BY <1>1, <1>3, <2>1 DEF Passed
    <2>2. CASE key # 0
      BY <1>1, <1>3, <2>2 DEF Passed, Prec, Distinct
    <2> QED
      BY <2>1, <2>2
  <1>6. ASSUME Fairness!Following(key) = <<>>
        PROVE  \A p \in DOMAIN task_stats : Passed(order, key, p)
    <2> DEFINE o == order
    <2>1. at <= Len(o) /\ o \in Seq(Pids) /\ SubSeq(o, at + 1, Len(o)) = << >>
      BY <1>1, <1>2, <1>3, <1>6
    <2> HIDE DEF o
    <2>2. at = Len(o)
      BY <1>4, <2>1, RestOfSeq
    <2> QED
      BY <1>1, <1>5, <2>2 DEF InMap, o
  <1>7. ASSUME Fairness!Following(key) # <<>>
        PROVE  LET h == Head(Fairness!Following(key))
               IN  /\ h \in DOMAIN task_stats
                   /\ ~Passed(order, key, h)
                   /\ \A p \in DOMAIN task_stats :
                        Passed(order, key, p) \/ p = h \/ Prec(order, h, p)
    <2> DEFINE h == Head(Fairness!Following(key))
    <2>1. at + 1 \in DOMAIN order /\ h = order[at + 1]
      BY <1>1, <1>2, <1>4, <1>7
    <2> HIDE DEF h
    <2>2. h \in DOMAIN task_stats /\ ~Passed(order, key, h)
      BY <1>1, <1>4, <1>5, <2>1 DEF InMap
    <2>3. ASSUME NEW p \in DOMAIN task_stats
          PROVE  Passed(order, key, p) \/ p = h \/ Prec(order, h, p)
      <3> PICK n \in DOMAIN order : order[n] = p
        BY <1>1 DEF InMap
      <3> QED
        BY <1>1, <1>4, <1>5, <2>1 DEF Prec
    <2> QED
      BY <2>2, <2>3 DEF h
  <1> QED
    BY <1>6, <1>7


(* Whatever a handler does to the map, its records stay, keep their order  *)
(* and grow, and the walk is where it was.                                 *)
LEMMA KernelStep ==
  ASSUME WalkInv,
         order' \in Seq(Pids), Distinct(order'), InMap(order') = DOMAIN task_stats',
         task_stats' \in [DOMAIN task_stats' -> [Fields -> Nat]],
         DOMAIN task_stats \subseteq DOMAIN task_stats', 0 \notin DOMAIN task_stats',
         writing' \subseteq DOMAIN task_stats',
         \A p, q \in InMap(order) : Prec(order', p, q) <=> Prec(order, p, q),
         \A p \in DOMAIN task_stats : \A f \in Fields : task_stats[p][f] <= task_stats'[p][f],
         UNCHANGED <<walk, key, next_key, stats, copied, rows, atStart>>
  PROVE  WalkInv'
  <1>1. /\ InMap(order) = DOMAIN task_stats
        /\ task_stats \in [DOMAIN task_stats -> [Fields -> Nat]]
        /\ atStart \in [DOMAIN atStart -> [Fields -> Nat]]
        /\ DOMAIN atStart \subseteq DOMAIN task_stats
        /\ key \in DOMAIN task_stats \cup {0}
        /\ rows \in Seq([pid : Pids, stats : [Fields -> Nat]])
        /\ stats \in [Fields -> Nat] /\ copied \subseteq Fields
    BY DEF WalkInv, WalkTypes
  <1>2. WalkTypes'
    BY DEF WalkInv, WalkTypes
  <1>3. \A p \in DOMAIN task_stats : Passed(order', key, p) <=> Passed(order, key, p)
    BY <1>1 DEF Passed
  <1>4. /\ \A p : Old(p)' = Old(p)
        /\ \A p : Old(p) \in [Fields -> Nat]
        /\ \A p : p \notin DOMAIN task_stats => \A f \in Fields : Old(p)[f] = 0
    BY <1>1, RecordFields DEF Old
  <1>5. Grown'
    <2>1. ASSUME NEW p \in DOMAIN task_stats', NEW f \in Fields
          PROVE  Old(p)[f] <= task_stats'[p][f]
      <3>1. task_stats'[p][f] \in Nat /\ Old(p)[f] \in Nat
        BY <1>4
      <3>2. CASE p \in DOMAIN task_stats
        <4>1. Old(p)[f] <= task_stats[p][f] /\ task_stats[p][f] <= task_stats'[p][f]
          BY <3>2 DEF WalkInv, Grown
        <4>2. task_stats[p][f] \in Nat
          BY <1>1, <3>2
        <4> QED
          BY <3>1, <4>1, <4>2
      <3>3. CASE p \notin DOMAIN task_stats
        BY <1>4, <3>1, <3>3
      <3> QED
        BY <3>2, <3>3
    <2> QED
      BY <1>4, <2>1 DEF WalkInv, Grown
  <1>6. ASSUME NEW p \in DOMAIN task_stats, NEW f \in Fields, NEW v \in Nat,
               v \in Old(p)[f] .. task_stats[p][f]
        PROVE  v \in Old(p)[f] .. task_stats'[p][f]
    <2>1. /\ task_stats[p][f] \in Nat /\ task_stats'[p][f] \in Nat /\ Old(p)[f] \in Nat
          /\ task_stats[p][f] <= task_stats'[p][f]
      BY <1>1, <1>4
    <2> QED
      BY <1>6, <2>1
  <1>7. RowsInv'
    <2>1. ASSUME NEW n \in DOMAIN rows
          PROVE  /\ rows[n].pid \in DOMAIN task_stats'
                 /\ Passed(order', key, rows[n].pid)
                 /\ \A f \in Fields :
                      rows[n].stats[f] \in Old(rows[n].pid)[f] .. task_stats'[rows[n].pid][f]
      <3>1. rows[n].stats \in [Fields -> Nat]
        <4> DEFINE Rows == [pid : Pids, stats : [Fields -> Nat]]
        <4>1. rows \in Seq(Rows)
          BY <1>1
        <4> HIDE DEF Rows
        <4>2. rows[n] \in Rows
          BY <4>1
        <4> QED
          BY <4>2 DEF Rows
      <3>2. /\ rows[n].pid \in DOMAIN task_stats
            /\ Passed(order, key, rows[n].pid)
            /\ \A f \in Fields :
                 rows[n].stats[f] \in Old(rows[n].pid)[f] .. task_stats[rows[n].pid][f]
        BY DEF WalkInv, RowsInv
      <3> QED
        BY <1>3, <1>6, <3>1, <3>2
    <2> QED
      BY <1>1, <1>3, <1>4, <2>1 DEF WalkInv, RowsInv
  <1>8. CopyInv'
    <2>1. ASSUME walk = "copy"
          PROVE  /\ next_key \in DOMAIN task_stats'
                 /\ ~Passed(order', key, next_key)
                 /\ \A p \in DOMAIN atStart :
                      Passed(order', key, p) \/ p = next_key \/ Prec(order', next_key, p)
                 /\ \A f \in copied :
                      stats[f] \in Old(next_key)[f] .. task_stats'[next_key][f]
      <3>1. /\ next_key \in DOMAIN task_stats
            /\ ~Passed(order, key, next_key)
            /\ \A p \in DOMAIN atStart :
                 Passed(order, key, p) \/ p = next_key \/ Prec(order, next_key, p)
            /\ \A f \in copied :
                 stats[f] \in Old(next_key)[f] .. task_stats[next_key][f]
        BY <2>1 DEF WalkInv, CopyInv
      <3>2. \A f \in copied : f \in Fields /\ stats[f] \in Nat
        BY <1>1
      <3> QED
        BY <1>1, <1>3, <1>6, <3>1, <3>2
    <2> QED
      BY <1>1, <1>3, <1>4, <2>1 DEF WalkInv, CopyInv
  <1> QED
    BY <1>2, <1>5, <1>7, <1>8 DEF WalkInv


LEMMA InsertStep ==
  ASSUME WalkInv, NEW p \in Pids, Fairness!Insert(p)
  PROVE  WalkInv'
  <1>1. /\ order \in Seq(Pids) /\ Distinct(order) /\ InMap(order) = DOMAIN task_stats
        /\ task_stats \in [DOMAIN task_stats -> [Fields -> Nat]]
        /\ 0 \notin DOMAIN task_stats /\ writing \subseteq DOMAIN task_stats
    BY DEF WalkInv, WalkTypes
  <1>2. /\ p \notin DOMAIN task_stats /\ p # 0
        /\ UNCHANGED <<writing, walk, key, next_key, stats, copied, rows, atStart>>
    BY DEF Fairness!Insert, Fairness!should_trace, Fairness!walk
  <1> PICK n \in 1 .. Len(order) + 1 : order' = Fairness!InsertAt(order, n, p)
    BY DEF Fairness!Insert
  <1>3. /\ order' \in Seq(Pids) /\ Distinct(order')
        /\ InMap(order') = InMap(order) \cup {p}
        /\ \A q, r \in InMap(order) : Prec(order', q, r) <=> Prec(order, q, r)
    BY <1>1, <1>2, InsertOrder
  <1>4. /\ DOMAIN task_stats' = DOMAIN task_stats \cup {p}
        /\ \A q \in DOMAIN task_stats : task_stats'[q] = task_stats[q]
        /\ task_stats'[p] \in [Fields -> Nat]
        /\ task_stats' \in [DOMAIN task_stats' -> [Fields -> Nat]]
    <2>1. task_stats' = [q \in DOMAIN task_stats \cup {p} |->
                           IF q = p THEN [Fairness!NoRecord EXCEPT !.wakeups = 1]
                           ELSE task_stats[q]]
      BY DEF Fairness!Insert
    <2> QED
      BY <1>1, <1>2, <2>1, RecordFields
  <1>5. \A q \in DOMAIN task_stats : \A f \in Fields : task_stats[q][f] <= task_stats'[q][f]
    BY <1>1, <1>4
  <1>6. /\ InMap(order') = DOMAIN task_stats' /\ DOMAIN task_stats \subseteq DOMAIN task_stats'
        /\ 0 \notin DOMAIN task_stats' /\ writing' \subseteq DOMAIN task_stats'
    BY <1>1, <1>2, <1>3, <1>4
  <1> QED
    BY <1>2, <1>3, <1>4, <1>5, <1>6, KernelStep

(* A handler that adds to a record of the map. *)
LEMMA UpdateStep ==
  ASSUME WalkInv, NEW p \in DOMAIN task_stats, NEW f \in Fields,
         task_stats' = [task_stats EXCEPT ![p][f] = @ + 1],
         writing' \subseteq writing \cup {p},
         UNCHANGED <<order, walk, key, next_key, stats, copied, rows, atStart>>
  PROVE  WalkInv'
  <1>1. /\ order \in Seq(Pids) /\ Distinct(order) /\ InMap(order) = DOMAIN task_stats
        /\ task_stats \in [DOMAIN task_stats -> [Fields -> Nat]]
        /\ 0 \notin DOMAIN task_stats /\ writing \subseteq DOMAIN task_stats
    BY DEF WalkInv, WalkTypes
  <1>2. /\ DOMAIN task_stats' = DOMAIN task_stats
        /\ \A q \in DOMAIN task_stats : q # p => task_stats'[q] = task_stats[q]
        /\ task_stats'[p] = [task_stats[p] EXCEPT ![f] = @ + 1]
        /\ task_stats' = [q \in DOMAIN task_stats' |-> task_stats'[q]]
    BY <1>1
  <1>3. task_stats[p] \in [Fields -> Nat]
    BY <1>1
  <1>4. /\ task_stats'[p] \in [Fields -> Nat]
        /\ \A g \in Fields : task_stats[p][g] <= task_stats'[p][g]
    BY <1>2, <1>3
  <1>5. \A q \in DOMAIN task_stats : \A g \in Fields : task_stats[q][g] <= task_stats'[q][g]
    BY <1>1, <1>2, <1>4
  <1>6. task_stats' \in [DOMAIN task_stats' -> [Fields -> Nat]]
    BY <1>1, <1>2, <1>4
  <1>7. /\ order' \in Seq(Pids) /\ Distinct(order') /\ InMap(order') = DOMAIN task_stats'
        /\ DOMAIN task_stats \subseteq DOMAIN task_stats' /\ 0 \notin DOMAIN task_stats'
        /\ writing' \subseteq DOMAIN task_stats'
        /\ \A q, r \in InMap(order) : Prec(order', q, r) <=> Prec(order, q, r)
    BY <1>1, <1>2
  <1> QED
    BY <1>5, <1>6, <1>7, KernelStep

LEMMA HandlerStep ==
  ASSUME WalkInv, NEW p \in Pids, Fairness!AddRunTime(p) \/ Fairness!AddSwitch(p)
  PROVE  WalkInv'
  <1>1. "run_time_ns" \in Fields /\ "switches" \in Fields
    BY RecordFields
  <1>2. writing \subseteq DOMAIN task_stats
    BY DEF WalkInv, WalkTypes
  <1>3. CASE Fairness!AddRunTime(p)
    <2>1. /\ p \in DOMAIN task_stats
          /\ task_stats' = [task_stats EXCEPT ![p]["run_time_ns"] = @ + 1]
          /\ writing' \subseteq writing \cup {p}
          /\ UNCHANGED <<order, walk, key, next_key, stats, copied, rows, atStart>>
      BY <1>3 DEF Fairness!AddRunTime, Fairness!walk
    <2> QED
      BY <1>1, <2>1, UpdateStep
  <1>4. CASE Fairness!AddSwitch(p)
    <2>1. /\ p \in DOMAIN task_stats
          /\ task_stats' = [task_stats EXCEPT ![p]["switches"] = @ + 1]
          /\ writing' \subseteq writing \cup {p}
          /\ UNCHANGED <<order, walk, key, next_key, stats, copied, rows, atStart>>
      BY <1>2, <1>4 DEF Fairness!AddSwitch, Fairness!walk
    <2> QED
      BY <1>1, <2>1, UpdateStep
  <1> QED
    BY <1>3, <1>4

LEMMA GetNextKeyStep ==
  ASSUME WalkInv, Fairness!GetNextKey
  PROVE  WalkInv'
  <1>1. /\ walk = "next" /\ Fairness!Following(key) # <<>>
        /\ next_key' = Head(Fairness!Following(key)) /\ walk' = "copy"
        /\ UNCHANGED <<order, task_stats, writing, key, stats, copied, rows, atStart>>
    BY DEF Fairness!GetNextKey, Fairness!kernel
  <1>2. /\ next_key' \in DOMAIN task_stats
        /\ ~Passed(order, key, next_key')
        /\ \A p \in DOMAIN task_stats :
             Passed(order, key, p) \/ p = next_key' \/ Prec(order, next_key', p)
    BY <1>1, FollowingKey DEF WalkInv
  <1>3. \A p : Old(p)' = Old(p)
    BY <1>1 DEF Old
  <1>4. WalkTypes' /\ Grown' /\ RowsInv'
    BY <1>1, <1>3 DEF WalkInv, WalkTypes, Grown, RowsInv
  <1>5. copied = {} /\ DOMAIN atStart \subseteq DOMAIN task_stats
    BY <1>1 DEF WalkInv, CopyInv, WalkTypes
  <1>6. CopyInv'
    BY <1>1, <1>2, <1>5 DEF CopyInv
  <1> QED
    BY <1>4, <1>6 DEF WalkInv

LEMMA EndOfMapStep ==
  ASSUME WalkInv, Fairness!EndOfMap
  PROVE  WalkInv'
  <1>1. /\ walk = "next" /\ Fairness!Following(key) = <<>> /\ walk' = "done"
        /\ UNCHANGED <<order, task_stats, writing, key, next_key, stats, copied, rows, atStart>>
    BY DEF Fairness!EndOfMap, Fairness!kernel
  <1>2. \A p \in DOMAIN task_stats : Passed(order, key, p)
    BY <1>1, FollowingKey DEF WalkInv
  <1>3. \A p : Old(p)' = Old(p)
    BY <1>1 DEF Old
  <1>4. WalkTypes' /\ Grown' /\ RowsInv'
    BY <1>1, <1>3 DEF WalkInv, WalkTypes, Grown, RowsInv
  <1>5. DOMAIN atStart \subseteq DOMAIN task_stats
    BY DEF WalkInv, WalkTypes
  <1>6. CopyInv'
    BY <1>1, <1>2, <1>5 DEF CopyInv
  <1> QED
    BY <1>4, <1>6 DEF WalkInv


LEMMA CopyFieldStep ==
  ASSUME WalkInv, NEW f \in Fields, Fairness!CopyField(f)
  PROVE  WalkInv'
  <1>1. /\ walk = "copy" /\ copied' = copied \cup {f}
        /\ stats' = [stats EXCEPT ![f] = task_stats[next_key][f]]
        /\ UNCHANGED <<order, task_stats, writing, walk, key, next_key, rows, atStart>>
    BY DEF Fairness!CopyField, Fairness!kernel
  <1>2. /\ task_stats \in [DOMAIN task_stats -> [Fields -> Nat]]
        /\ atStart \in [DOMAIN atStart -> [Fields -> Nat]]
        /\ stats \in [Fields -> Nat] /\ copied \subseteq Fields
        /\ next_key \in DOMAIN task_stats
        /\ DOMAIN atStart \subseteq DOMAIN task_stats
    BY <1>1 DEF WalkInv, WalkTypes, CopyInv
  <1>3. \A p : Old(p)' = Old(p) /\ Old(p) \in [Fields -> Nat]
    BY <1>1, <1>2, RecordFields DEF Old
  <1>4. task_stats[next_key][f] \in Nat /\ task_stats[next_key] \in [Fields -> Nat]
    BY <1>2
  <1>5. /\ stats' \in [Fields -> Nat] /\ copied' \subseteq Fields
        /\ stats'[f] = task_stats[next_key][f]
        /\ \A g \in Fields : g # f => stats'[g] = stats[g]
    BY <1>1, <1>2, <1>4
  <1>6. WalkTypes' /\ Grown' /\ RowsInv'
    BY <1>1, <1>3, <1>5 DEF WalkInv, WalkTypes, Grown, RowsInv
  <1>7. stats'[f] \in Old(next_key)[f] .. task_stats[next_key][f]
    <2>1. Old(next_key)[f] <= task_stats[next_key][f]
      BY <1>2 DEF WalkInv, Grown
    <2>2. Old(next_key)[f] \in Nat
      BY <1>3
    <2> QED
      BY <1>4, <1>5, <2>1, <2>2
  <1>8. ASSUME NEW g \in copied'
        PROVE  stats'[g] \in Old(next_key)[g] .. task_stats[next_key][g]
    <2>1. CASE g = f
      BY <1>7, <2>1
    <2>2. CASE g # f
      BY <1>1, <1>2, <1>5, <2>2 DEF WalkInv, CopyInv
    <2> QED
      BY <2>1, <2>2
  <1>9. CopyInv'
    BY <1>1, <1>3, <1>8 DEF WalkInv, CopyInv
  <1> QED
    BY <1>6, <1>9 DEF WalkInv

(* What is passed after the key h that came next: h, and what was before.   *)
LEMMA PassedNext ==
  ASSUME WalkInv, walk = "copy"
  PROVE  /\ Passed(order, next_key, next_key)
         /\ \A p : Passed(order, key, p) => Passed(order, next_key, p)
         /\ \A p \in DOMAIN atStart :
              Passed(order, next_key, p) => p = next_key \/ Passed(order, key, p)
  <1>1. /\ order \in Seq(Pids) /\ Distinct(order) /\ InMap(order) = DOMAIN task_stats
        /\ 0 \notin DOMAIN task_stats
        /\ key \in DOMAIN task_stats \cup {0}
        /\ next_key \in DOMAIN task_stats
        /\ ~Passed(order, key, next_key)
        /\ \A p \in DOMAIN atStart :
             Passed(order, key, p) \/ p = next_key \/ Prec(order, next_key, p)
    BY DEF WalkInv, WalkTypes, CopyInv
  <1> DEFINE P(p, q) == Prec(order, p, q)
  <1>2. /\ \A p : ~P(p, p)
        /\ \A p, q : P(p, q) => ~P(q, p)
        /\ \A p, q, r : P(p, q) /\ P(q, r) => P(p, r)
        /\ \A p, q \in DOMAIN task_stats : p = q \/ P(p, q) \/ P(q, p)
    BY <1>1, PrecOrder
  <1>3. next_key # 0
    BY <1>1
  <1>4. key # 0 => P(key, next_key)
    BY <1>1, <1>2 DEF Passed
  <1> QED
    BY <1>1, <1>2, <1>3, <1>4 DEF Passed

LEMMA PrintRowStep ==
  ASSUME WalkInv, Fairness!PrintRow
  PROVE  WalkInv'
  <1> DEFINE row == [pid |-> next_key, stats |-> stats]
             Rows == [pid : Pids, stats : [Fields -> Nat]]
             full == stats.switches > 0 \/ stats.wakeups > 0
  <1>1. /\ walk = "copy" /\ copied = Fields /\ copied' = {}
        /\ key' = next_key /\ walk' = "next"
        /\ rows' = IF full THEN Append(rows, row) ELSE rows
        /\ UNCHANGED <<order, task_stats, writing, next_key, stats, atStart>>
    BY DEF Fairness!PrintRow, Fairness!kernel, Fields
  <1>2. /\ order \in Seq(Pids) /\ InMap(order) = DOMAIN task_stats
        /\ stats \in [Fields -> Nat]
        /\ rows \in Seq(Rows)
        /\ next_key \in DOMAIN task_stats
        /\ ~Passed(order, key, next_key)
        /\ \A f \in Fields : stats[f] \in Old(next_key)[f] .. task_stats[next_key][f]
    BY <1>1 DEF WalkInv, WalkTypes, CopyInv
  <1>3. next_key \in Pids
    BY <1>2 DEF InMap
  <1>4. \A p : Old(p)' = Old(p)
    BY <1>1 DEF Old
  <1>5. row \in Rows /\ row.pid = next_key /\ row.stats = stats
    BY <1>2, <1>3
  <1> HIDE DEF row, Rows
  <1>6. \/ full /\ DOMAIN rows' = DOMAIN rows \cup {Len(rows) + 1}
             /\ rows'[Len(rows) + 1] = row /\ Len(rows) + 1 \notin DOMAIN rows
        \/ ~full /\ DOMAIN rows' = DOMAIN rows
    BY <1>1, <1>2, <1>5
  <1>7. \A n \in DOMAIN rows : rows'[n] = rows[n]
    BY <1>1, <1>2, <1>5
  <1>8. rows' \in Seq(Rows)
    BY <1>1, <1>2, <1>5
  <1>9. WalkTypes'
    BY <1>1, <1>2, <1>8, RecordFields DEF WalkInv, WalkTypes, Rows
  <1>10. Grown'
    BY <1>1, <1>4 DEF WalkInv, Grown
  <1>11. CopyInv'
    BY <1>1 DEF CopyInv
  <1>12. ASSUME next_key \in DOMAIN atStart PROVE full
    <2>1. Old(next_key)["wakeups"] > 0 /\ "wakeups" \in Fields
      BY <1>12, RecordFields DEF Old, WalkInv, Grown
    <2>2. stats["wakeups"] \in Old(next_key)["wakeups"] .. task_stats[next_key]["wakeups"]
      BY <1>2, <2>1
    <2>3. Old(next_key)["wakeups"] \in Nat /\ stats["wakeups"] \in Nat
      BY <1>2, <1>12, <2>1 DEF Old, WalkInv, WalkTypes
    <2> QED
      BY <2>1, <2>2, <2>3
  <1>13. RowsInv'
    <2>1. ASSUME NEW n \in DOMAIN rows'
          PROVE  /\ rows'[n].pid \in DOMAIN task_stats
                 /\ Passed(order, next_key, rows'[n].pid)
                 /\ \A f \in Fields :
                      rows'[n].stats[f] \in Old(rows'[n].pid)[f] .. task_stats[rows'[n].pid][f]
      <3>1. CASE n \in DOMAIN rows
        BY <1>1, <1>7, <3>1, PassedNext DEF WalkInv, RowsInv
      <3>2. CASE n \notin DOMAIN rows
        BY <1>1, <1>2, <1>5, <1>6, <3>2, PassedNext
      <3> QED
        BY <3>1, <3>2
    <2>2. ASSUME NEW m \in DOMAIN rows', NEW n \in DOMAIN rows', rows'[m].pid = rows'[n].pid
          PROVE  m = n
      <3>1. \A k \in DOMAIN rows : rows[k].pid # next_key
        BY <1>2 DEF WalkInv, RowsInv
      <3> QED
        BY <1>5, <1>6, <1>7, <2>2, <3>1 DEF WalkInv, RowsInv
    <2>3. ASSUME NEW p \in DOMAIN atStart, Passed(order, next_key, p)
          PROVE  \E n \in DOMAIN rows' : rows'[n].pid = p
      <3>1. CASE p = next_key
        BY <1>5, <1>6, <1>12, <3>1
      <3>2. CASE p # next_key
        <4>1. Passed(order, key, p)
          BY <1>1, <2>3, <3>2, PassedNext
        <4> PICK n \in DOMAIN rows : rows[n].pid = p
          BY <4>1 DEF WalkInv, RowsInv
        <4> QED
          BY <1>6, <1>7
      <3> QED
        BY <3>1, <3>2
    <2> QED
      BY <1>1, <1>4, <2>1, <2>2, <2>3 DEF RowsInv
  <1> QED
    BY <1>9, <1>10, <1>11, <1>13 DEF WalkInv


(* A sequence of all keys, each once: as many places as keys, so none is   *)
(* left out.                                                               *)
LEMMA InitialOrder ==
  ASSUME NEW S, IsFiniteSet(S), NEW o \in Fairness!SetToSeqs(S)
  PROVE  o \in Seq(S) /\ Distinct(o) /\ InMap(o) = S
  <1> DEFINE n == Cardinality(S)
  <1>1. n \in Nat
    BY FS_CardinalityType
  <1>2. Fairness!Cardinality(S) = n
    BY DEF Fairness!Cardinality, Cardinality
  <1>3. o \in [1 .. n -> S] /\ \A k, m \in 1 .. n : k # m => o[k] # o[m]
    BY <1>2 DEF Fairness!SetToSeqs
  <1> HIDE DEF n
  <1>4. o \in Seq(S) /\ Distinct(o) /\ DOMAIN o = 1 .. n
    BY <1>1, <1>3 DEF Distinct
  <1>5. Cardinality(1 .. n) = n
    BY <1>1, FS_Interval
  <1>6. o \in Injection(1 .. n, S)
    BY <1>3 DEF Injection, IsInjective
  <1>7. o \in Surjection(1 .. n, S)
    BY <1>5, <1>6, FS_Injection DEF n
  <1> QED
    BY <1>3, <1>4, <1>7 DEF Surjection, InMap

LEMMA WalkInit ==
  ASSUME Fairness!Init
  PROVE  WalkInv
  <1> PICK S \in SUBSET {p \in Pids : p # 0} :
             /\ order \in Fairness!SetToSeqs(S)
             /\ task_stats = [p \in S |-> [Fairness!NoRecord EXCEPT !.wakeups = 1]]
    BY DEF Fairness!Init, Fairness!should_trace
  <1>1. /\ writing = {} /\ walk = "next" /\ key = 0 /\ stats = Fairness!NoRecord
        /\ copied = {} /\ rows = << >> /\ atStart = task_stats
    BY DEF Fairness!Init
  <1>2. S \subseteq Pids /\ 0 \notin S
    OBVIOUS
  <1>3. IsFiniteSet(S)
    BY <1>2, UserConstants, FS_Subset
  <1>4. order \in Seq(S) /\ Distinct(order) /\ InMap(order) = S
    BY <1>3, InitialOrder
  <1>5. order \in Seq(Pids)
    BY <1>2, <1>4
  <1>6. /\ DOMAIN task_stats = S
        /\ task_stats \in [S -> [Fields -> Nat]]
        /\ \A p \in S : task_stats[p] \in [Fields -> Nat] /\ task_stats[p]["wakeups"] = 1
    BY RecordFields
  <1>7. WalkTypes
    BY <1>1, <1>2, <1>4, <1>5, <1>6, RecordFields DEF WalkTypes
  <1>8. Grown
    <2>1. \A p \in S : Old(p) = task_stats[p]
      BY <1>1, <1>6 DEF Old
    <2>2. \A p \in S : \A f \in Fields : task_stats[p][f] \in Nat
      BY <1>6
    <2>3. \A p \in DOMAIN task_stats : \A f \in Fields : Old(p)[f] <= task_stats[p][f]
      BY <1>6, <2>1, <2>2
    <2>4. \A p \in DOMAIN atStart : atStart[p]["wakeups"] > 0
      <3> SUFFICES ASSUME NEW p \in DOMAIN atStart PROVE atStart[p]["wakeups"] > 0
        OBVIOUS
      <3>1. atStart[p]["wakeups"] = 1
        BY <1>1, <1>6
      <3> QED
        BY <3>1
    <2> QED
      BY <2>3, <2>4 DEF Grown
  <1>9. RowsInv /\ CopyInv
    BY <1>1 DEF RowsInv, CopyInv, Passed
  <1> QED
    BY <1>7, <1>8, <1>9 DEF WalkInv

LEMMA WalkNext ==
  ASSUME WalkInv, Fairness!Next
  PROVE  WalkInv'
  <1>1. CASE \E p \in Pids : Fairness!Insert(p)
    BY <1>1, InsertStep
  <1>2. CASE \E p \in Pids : Fairness!AddRunTime(p) \/ Fairness!AddSwitch(p)
    BY <1>2, HandlerStep
  <1>3. CASE Fairness!GetNextKey
    BY <1>3, GetNextKeyStep
  <1>4. CASE Fairness!EndOfMap
    BY <1>4, EndOfMapStep
  <1>5. CASE \E f \in Fields : Fairness!CopyField(f)
    BY <1>5, CopyFieldStep
  <1>6. CASE Fairness!PrintRow
    BY <1>6, PrintRowStep
  <1> QED
    BY <1>1, <1>2, <1>3, <1>4, <1>5, <1>6 DEF Fairness!Next, Fairness!Walk, Fields

LEMMA WalkSame ==
  ASSUME WalkInv, UNCHANGED fairness
  PROVE  WalkInv'
  <1>1. UNCHANGED <<order, task_stats, writing, walk, key, next_key, stats, copied, rows, atStart>>
    BY DEF fairness
  <1>2. \A p : Old(p)' = Old(p)
    BY <1>1 DEF Old
  <1> QED
    BY <1>1, <1>2 DEF WalkInv, WalkTypes, Grown, RowsInv, CopyInv

LEMMA WalkHolds == Spec => []WalkInv
  <1>1. Init => WalkInv
    BY WalkInit DEF Init
  <1>2. WalkInv /\ [Next]_vars => WalkInv'
    BY WalkNext, WalkSame
    DEF Next, MainDoes, LatencyDoes, FairnessDoes, StreamDoes, vars
  <1> QED
    BY <1>1, <1>2, PTL DEF Spec

(* The fairness report lists no task twice and every task that had a record *)
(* when it began, and each figure it prints is one the task had meanwhile,  *)
(* wherever handlers insert records and whatever they add to them during    *)
(* the walk.                                                                *)
THEOREM ListedOnce == Spec => []ListedExactlyOnce
  <1>1. WalkInv => ListedExactlyOnce
    <2> SUFFICES ASSUME WalkInv PROVE Fairness!ListedExactlyOnce
      BY DEF ListedExactlyOnce
    <2>1. /\ \A m, n \in DOMAIN rows : rows[m].pid = rows[n].pid => m = n
          /\ walk = "done" => \A p \in DOMAIN atStart : \E n \in DOMAIN rows : rows[n].pid = p
      BY DEF WalkInv, RowsInv, CopyInv
    <2>2. \A n \in DOMAIN rows : \A f \in Fields :
            rows[n].stats[f] \in Old(rows[n].pid)[f] .. task_stats[rows[n].pid][f]
      BY DEF WalkInv, RowsInv
    <2> QED
      BY <2>1, <2>2 DEF Fairness!ListedExactlyOnce, Fairness!Listed, Fields, Old
  <1> QED
    BY <1>1, WalkHolds, PTL


------------------------------------------------------------------------------
(* main and the timed part of the modes.                                   *)

(* Where no alarm is armed yet, and where each kind of mode may be. *)
Unarmed == {"parse_args", "open", "load", "attach", "signals", "alarm"}
Streams == {"alarm", "loop", "poll", "event", "printf", "free"}
Timed   == {"timed", "sleep", "report"}

(* An armed alarm comes after the duration; without SIGINT or SIGTERM      *)
(* nothing but that alarm clears running; and the loops are left only when *)
(* running is cleared, or the timed one when its time is over.             *)
MainInv ==
  /\ duration \in Durations /\ phase \in {0, 1} /\ start = 0
  /\ clock \in 0 .. MaxClock
  /\ alarm # Main!NoAlarm =>
       /\ alarm \in Nat /\ mode = "stream" /\ pc \notin Unarmed
       /\ clock + alarm >= duration * Main!Second
  /\ pc \in Streams => mode = "stream"
  /\ pc \in Timed => mode # "stream"
  /\ ~running /\ ~stopped =>
       mode = "stream" /\ pc \notin Unarmed /\ clock >= duration * Main!Second
  /\ pc = "free" => ~running
  /\ pc = "report" /\ running => clock + phase >= duration * Main!Second

LEMMA MainConstants ==
  /\ Durations \subseteq Nat /\ MaxClock \in Nat
  /\ \A d \in Durations : d * Main!Second <= MaxClock
  BY UserAssumption DEF Main!MainAssumption

LEMMA MainInit == Main!Init => MainInv
  BY MainConstants
  DEF Main!Init, MainInv, Streams, Timed, Main!NoAlarm

LEMMA ProgramStep ==
  ASSUME MainInv, Main!Program
  PROVE  MainInv'
  <1> USE DEF Unarmed, Streams, Timed, Main!Second, Main!NoAlarm
  <1>1. /\ duration \in Nat /\ clock \in Nat /\ phase \in {0, 1} /\ start = 0
        /\ duration \in Durations /\ clock \in 0 .. MaxClock
    BY MainConstants DEF MainInv
  <1>2. CASE Main!ParseArgs \/ Main!Open \/ Main!Load \/ Main!Cleanup
    BY <1>2 DEF MainInv, Main!ParseArgs, Main!Open, Main!Load, Main!Cleanup, Main!Exit,
                Main!opts, Main!surroundings
  <1>3. CASE Main!Signals
    BY <1>1, <1>3, MainConstants DEF MainInv, Main!Signals, Main!opts
  <1>4. CASE Main!Alarm
    BY <1>1, <1>4 DEF MainInv, Main!Alarm, Main!Arm, Main!opts
  <1>5. CASE Main!StreamLoop \/ Main!PollWait \/ Main!event_handler \/ Main!Printf \/ Main!Free
    BY <1>5 DEF MainInv, Main!StreamLoop, Main!PollWait, Main!event_handler, Main!Printf,
                Main!Free, Main!opts, Main!prog, Main!surroundings
  <1>6. CASE Main!TimedLoop
    <2>1. ~(Main!time - start < duration) => clock + phase >= duration * 2
      BY <1>1 DEF Main!time
    <2> QED
      BY <1>1, <1>6, <2>1 DEF MainInv, Main!TimedLoop, Main!opts, Main!prog
  <1>7. CASE Main!Wakeup \/ Main!Report
    BY <1>7 DEF MainInv, Main!Wakeup, Main!Report, Main!opts, Main!prog, Main!surroundings
  <1> QED
    BY <1>2, <1>3, <1>4, <1>5, <1>6, <1>7 DEF Main!Program

LEMMA TickStep ==
  ASSUME MainInv, Main!Tick
  PROVE  MainInv'
  <1>1. /\ duration \in Nat /\ clock \in Nat /\ phase \in {0, 1} /\ MaxClock \in Nat
        /\ duration * 2 <= MaxClock /\ clock <= MaxClock
    BY MainConstants DEF MainInv, Main!Second
  <1>2. clock' = IF clock = MaxClock THEN clock ELSE clock + 1
    <2>1. clock' = Main!Min({clock + 1, MaxClock})
      BY DEF Main!Tick
    <2> QED
      BY <1>1, <2>1 DEF Main!Min
  <1>3. /\ UNCHANGED <<pc, mode, duration, running, start, phase, stopped>>
        /\ alarm # 0 /\ alarm' = IF alarm = Main!NoAlarm THEN Main!NoAlarm ELSE alarm - 1
    BY DEF Main!Tick, Main!opts, Main!prog
  <1> QED
    BY <1>1, <1>2, <1>3 DEF MainInv, Main!Second, Main!NoAlarm

LEMMA SignalStep ==
  ASSUME MainInv, Main!SigAlarm \/ Main!Interrupt \/ Main!Produce
  PROVE  MainInv'
  <1> USE DEF MainInv, Unarmed, Streams, Timed, Main!Second, Main!NoAlarm
  <1>1. duration \in Nat /\ clock \in Nat
    BY MainConstants
  <1>2. CASE Main!SigAlarm
    BY <1>1, <1>2 DEF Main!SigAlarm, Main!sig_handler, Main!opts
  <1>3. CASE Main!Interrupt
    BY <1>1, <1>3 DEF Main!Interrupt, Main!sig_handler, Main!opts, Main!prog
  <1>4. CASE Main!Produce
    BY <1>1, <1>4 DEF Main!Produce, Main!opts, Main!prog
  <1> QED
    BY <1>2, <1>3, <1>4

LEMMA MainHolds == Spec => []MainInv
  <1>1. Init => MainInv
    BY MainInit DEF Init
  <1>2. MainInv /\ [Next]_vars => MainInv'
    <2>1. MainInv /\ UNCHANGED main => MainInv'
      BY DEF main, MainInv
    <2> QED
      BY <2>1, ProgramStep, TickStep, SignalStep
      DEF Next, MainDoes, LatencyDoes, FairnessDoes, StreamDoes, vars, Main!Next
  <1> QED
    BY <1>1, <1>2, PTL DEF Spec

(* A mode that nobody stops runs for its duration, less than a second less *)
(* where it reads the clock in whole seconds, wherever in the second it    *)
(* starts and however its signals, sleeps and polls interleave.            *)
THEOREM ModeRunsItsTime == Spec => []RunsForDuration
  <1>1. MainInv => RunsForDuration
    BY MainConstants
    DEF RunsForDuration, Main!RunsForDuration, MainInv, Streams, Timed, Unarmed, Main!Second
  <1> QED
    BY <1>1, MainHolds, PTL

------------------------------------------------------------------------------
(* The latency report.  Sums over the buckets are running sums, and what   *)
(* is true of them is proved by looking at the first bucket at which it    *)
(* would fail.                                                             *)

(* A set of natural numbers has a least element.                           *)
LEMMA LeastOf ==
  ASSUME NEW S, S = Nat, NEW R, IsWellFoundedOn(R, S),
         \A x, y \in S : x < y => <<x, y>> \in R,
         NEW T, T \subseteq S, T # {}
  PROVE  \E n \in T : \A m \in T : n <= m
  <1>1. \E n \in T : \A m \in T : ~(<<m, n>> \in R)
    BY ONLY IsWellFoundedOn(R, S), T \subseteq S, T # {}, WFMin
  <1>2. PICK n \in T : \A m \in T : ~(<<m, n>> \in R)
    BY <1>1
  <1>3. \A m \in T : ~(m < n)
    BY <1>2
  <1> QED
    BY <1>3

LEMMA LeastNatural ==
  ASSUME NEW T \in SUBSET Nat, T # {}
  PROVE  \E n \in T : \A m \in T : n <= m
  <1>1. \A x, y \in Nat : x < y => <<x, y>> \in OpToRel(<, Nat)
    BY DEF OpToRel
  <1> QED
    BY <1>1, NatLessThanWellFounded, LeastOf, Zenon

(* The samples below a bucket, and what the samples of each bucket add up  *)
(* to.                                                                     *)
Below(f, b) == IF b = 0 THEN 0 ELSE Latency!cumsum(f)[b - 1]

Worth(h) == [b \in Latency!Buckets |-> b * BucketSize * h[b]]

(* What has been read of a bucket is a count the bucket had meanwhile. *)
Copied(old, h, new, n) == \A b \in 0 .. n - 1 : old[b] <= h[b] /\ h[b] <= new[b]

(* Of the n buckets scanned, the first at which target is reached, ...     *)
Reached(h, n, target, result) ==
  \/ result = 0 /\ \A b \in 0 .. n - 1 : Below(h, b + 1) < target
  \/ \E p \in 0 .. n - 1 :
       /\ result = (p + 1) * BucketSize
       /\ Below(h, p + 1) >= target
       /\ \A b \in 0 .. p - 1 : Below(h, b + 1) < target

(* ... and the last with samples. *)
Highest(h, n, result) ==
  \/ result = 0 /\ \A b \in 0 .. n - 1 : h[b] = 0
  \/ \E m \in 0 .. n - 1 :
       /\ h[m] > 0
       /\ result = (m + 1) * BucketSize
       /\ \A b \in m + 1 .. n - 1 : h[b] = 0

ReportType ==
  /\ latency_hist \in [Latency!Buckets -> Nat]
  /\ atRead \in [Latency!Buckets -> Nat]
  /\ histogram \in [Latency!Buckets -> Nat]
  /\ scan \in {"read", "scan", "empty", "printed"}
  /\ i \in 0 .. MaxBuckets
  /\ total \in Nat /\ sum \in Nat /\ cumulative \in Nat /\ max_latency \in Nat
  /\ percentile \in [Latency!Percents -> Nat]

HasRead == IF scan = "read" THEN i ELSE MaxBuckets

ReadInv ==
  /\ \A b \in Latency!Buckets : atRead[b] <= latency_hist[b]
  /\ Copied(atRead, histogram, latency_hist, HasRead)
  /\ total = Below(histogram, HasRead)
  /\ sum = Below(Worth(histogram), HasRead)

ScanInv ==
  /\ scan = "read" =>
       /\ cumulative = 0 /\ max_latency = 0
       /\ percentile = [q \in Latency!Percents |-> 0]
  /\ scan \in {"scan", "printed"} =>
       /\ total > 0
       /\ cumulative = Below(histogram, i)
       /\ \A q \in Latency!Percents :
            Reached(histogram, i, (total * q) \div 100, percentile[q])
       /\ Highest(histogram, i, max_latency)
  /\ scan = "printed" => i = MaxBuckets

ReportInv == ReportType /\ ReadInv /\ ScanInv

LEMMA ReportConstants ==
  /\ BucketSize \in Nat \ {0} /\ MaxBuckets \in Nat \ {0}
  /\ Measured \subseteq Nat
  /\ Latency!Buckets = 0 .. MaxBuckets - 1
  BY UserAssumption DEF Latency!ReportAssumption, Latency!Buckets

LEMMA RunningSums ==
  ASSUME NEW f \in [Latency!Buckets -> Nat]
  PROVE  /\ Latency!cumsum(f) \in [Latency!Buckets -> Nat]
         /\ \A b \in Latency!Buckets :
              Latency!cumsum(f)[b] =
                IF b = 0 THEN f[b] ELSE Latency!cumsum(f)[b - 1] + f[b]
  <1> DEFINE Sums(g, n) == \A b \in 0 .. n : g[b] = IF b = 0 THEN f[b] ELSE g[b - 1] + f[b]
  <1>1. \E g \in [Latency!Buckets -> Nat] : Sums(g, MaxBuckets - 1)
    <2> DEFINE T == {n \in Latency!Buckets : \A g \in [0 .. n -> Nat] : ~Sums(g, n)}
    <2>1. SUFFICES ASSUME T # {} PROVE FALSE
      <3>1. MaxBuckets - 1 \in Latency!Buckets
        BY ReportConstants
      <3> QED
        BY <2>1, <3>1, ReportConstants
    <2>2. PICK n \in T : \A m \in T : n <= m
      <3>1. T \in SUBSET Nat
        BY ReportConstants
      <3> QED
        BY <2>1, <3>1, LeastNatural
    <2>3. n \in Nat /\ n < MaxBuckets /\ n \in Latency!Buckets
      BY ReportConstants
    <2>4. CASE n = 0
      <3> DEFINE g == [b \in 0 .. 0 |-> f[0]]
      <3>1. g \in [0 .. 0 -> Nat] /\ Sums(g, 0)
        BY <2>3, <2>4
      <3> QED
        BY <2>2, <2>4, <3>1
    <2>5. CASE n # 0
      <3>1. n - 1 \in Latency!Buckets /\ n - 1 \notin T
        <4> HIDE DEF T
        <4> QED
          BY <2>2, <2>3, <2>5, ReportConstants
      <3>2. PICK g \in [0 .. n - 1 -> Nat] : Sums(g, n - 1)
        BY <3>1
      <3> DEFINE h == [b \in 0 .. n |-> IF b = n THEN g[n - 1] + f[n] ELSE g[b]]
      <3>3. g[n - 1] \in Nat /\ f[n] \in Nat
        BY <2>3, <2>5, <3>2
      <3>4. h \in [0 .. n -> Nat]
        BY <2>3, <3>2, <3>3
      <3>5. ASSUME NEW b \in 0 .. n
            PROVE  h[b] = IF b = 0 THEN f[b] ELSE h[b - 1] + f[b]
        BY <2>3, <2>5, <3>2
      <3>6. Sums(h, n)
        BY <3>5
      <3> QED
        BY <2>2, <3>4, <3>6
    <2> QED
      BY <2>4, <2>5
  <1>2. PICK g \in [Latency!Buckets -> Nat] : Sums(g, MaxBuckets - 1)
    BY <1>1
  <1>3. g = [b \in Latency!Buckets |-> IF b = 0 THEN f[b] ELSE g[b - 1] + f[b]]
    BY <1>2, ReportConstants
  <1> DEFINE s == Latency!cumsum(f)
  <1>4. s = [b \in Latency!Buckets |-> IF b = 0 THEN f[b] ELSE s[b - 1] + f[b]]
    BY <1>3 DEF Latency!cumsum
  <1> HIDE DEF s
  <1>5. \A b \in Latency!Buckets : s[b] = IF b = 0 THEN f[b] ELSE s[b - 1] + f[b]
    BY <1>4
  <1>6. \A b \in Latency!Buckets : s[b] \in Nat
    <2> DEFINE T == {n \in Latency!Buckets : s[n] \notin Nat}
    <2>1. SUFFICES ASSUME T # {} PROVE FALSE
      BY <2>1
    <2>2. PICK n \in T : \A m \in T : n <= m
      <3>1. T \in SUBSET Nat
        BY ReportConstants
      <3> QED
        BY <2>1, <3>1, LeastNatural
    <2>3. n # 0 => n - 1 \in Latency!Buckets /\ n - 1 < n
      BY ReportConstants
    <2>4. n # 0 => s[n - 1] \in Nat
      BY <2>2, <2>3, ReportConstants
    <2>5. f[n] \in Nat /\ s[n] = IF n = 0 THEN f[n] ELSE s[n - 1] + f[n]
      BY <1>5
    <2>6. s[n] \in Nat
      BY <2>4, <2>5
    <2> QED
      BY <2>6
  <1>7. s \in [Latency!Buckets -> Nat]
    BY <1>4, <1>6
  <1> QED
    BY <1>5, <1>7 DEF s

LEMMA BelowSteps ==
  ASSUME NEW f \in [Latency!Buckets -> Nat]
  PROVE  /\ Below(f, 0) = 0
         /\ \A n \in 0 .. MaxBuckets : Below(f, n) \in Nat
         /\ \A b \in Latency!Buckets : Below(f, b + 1) = Below(f, b) + f[b]
  <1>1. \A n \in 0 .. MaxBuckets : n # 0 => n - 1 \in Latency!Buckets
    BY ReportConstants
  <1>2. \A n \in 0 .. MaxBuckets : Below(f, n) \in Nat
    BY <1>1, RunningSums DEF Below
  <1>3. ASSUME NEW b \in Latency!Buckets
        PROVE  Below(f, b + 1) = Below(f, b) + f[b]
    <2>1. b + 1 # 0 /\ (b + 1) - 1 = b /\ b \in 0 .. MaxBuckets
      BY ReportConstants
    <2> QED
      BY <2>1, RunningSums DEF Below
  <1> QED
    BY <1>2, <1>3 DEF Below

LEMMA BelowAgrees ==
  ASSUME NEW f \in [Latency!Buckets -> Nat], NEW g \in [Latency!Buckets -> Nat],
         NEW top \in 0 .. MaxBuckets, \A b \in 0 .. top - 1 : f[b] = g[b]
  PROVE  Below(f, top) = Below(g, top)
  <1> DEFINE T == {n \in 0 .. top : Below(f, n) # Below(g, n)}
  <1>1. SUFFICES ASSUME T # {} PROVE FALSE
    BY <1>1, ReportConstants
  <1>2. PICK n \in T : \A m \in T : n <= m
    <2>1. T \in SUBSET Nat
      OBVIOUS
    <2> QED
      BY <1>1, <2>1, LeastNatural
  <1>3. n # 0
    BY BelowSteps
  <1>4. n - 1 \in 0 .. top - 1 /\ n - 1 \in 0 .. top /\ n - 1 \in Latency!Buckets /\ n = (n - 1) + 1
    BY <1>3, ReportConstants
  <1>5. Below(f, n - 1) = Below(g, n - 1)
    BY <1>2, <1>4
  <1> QED
    BY <1>4, <1>5, BelowSteps

LEMMA BelowGrows ==
  ASSUME NEW f \in [Latency!Buckets -> Nat],
         NEW top \in 0 .. MaxBuckets, NEW low \in 0 .. top
  PROVE  /\ Below(f, low) <= Below(f, top)
         /\ (\A b \in low .. top - 1 : f[b] = 0) => Below(f, low) = Below(f, top)
  <1> DEFINE Fine(n) == /\ Below(f, low) <= Below(f, n)
                        /\ (\A b \in low .. n - 1 : f[b] = 0) => Below(f, low) = Below(f, n)
             T == {n \in low .. top : ~Fine(n)}
  <1>1. SUFFICES ASSUME T # {} PROVE FALSE
    BY <1>1, ReportConstants
  <1>2. PICK n \in T : \A m \in T : n <= m
    <2>1. T \in SUBSET Nat
      OBVIOUS
    <2> QED
      BY <1>1, <2>1, LeastNatural
  <1>3. n # low
    BY BelowSteps, ReportConstants
  <1>4. n - 1 \in low .. top /\ n - 1 \in Latency!Buckets /\ n = (n - 1) + 1 /\ n \in Nat
    BY <1>3, ReportConstants
  <1>5. Fine(n - 1)
    BY <1>2, <1>4
  <1>6. /\ Below(f, n) = Below(f, n - 1) + f[n - 1] /\ f[n - 1] \in Nat
        /\ Below(f, n - 1) \in Nat /\ Below(f, low) \in Nat
    <2>1. n - 1 \in 0 .. MaxBuckets /\ low \in 0 .. MaxBuckets
      BY <1>4, ReportConstants
    <2>2. Below(f, n - 1) \in Nat /\ Below(f, low) \in Nat
      BY <2>1, BelowSteps
    <2>3. Below(f, (n - 1) + 1) = Below(f, n - 1) + f[n - 1] /\ f[n - 1] \in Nat
      BY <1>4, BelowSteps
    <2> QED
      BY <1>4, <2>2, <2>3
  <1>7. Fine(n)
    BY <1>4, <1>5, <1>6
  <1> QED
    BY <1>7

LEMMA WorthType ==
  ASSUME NEW f \in [Latency!Buckets -> Nat]
  PROVE  Worth(f) \in [Latency!Buckets -> Nat]
  BY ReportConstants DEF Worth

LEMMA WorthBounded ==
  ASSUME NEW f \in [Latency!Buckets -> Nat], NEW most \in Nat,
         NEW top \in 0 .. MaxBuckets,
         \A b \in 0 .. top - 1 : f[b] = 0 \/ b * BucketSize <= most
  PROVE  Below(Worth(f), top) <= Below(f, top) * most
  <1> DEFINE T == {n \in 0 .. top : ~(Below(Worth(f), n) <= Below(f, n) * most)}
  <1>1. SUFFICES ASSUME T # {} PROVE FALSE
    BY <1>1, ReportConstants
  <1>2. PICK n \in T : \A m \in T : n <= m
    <2>1. T \in SUBSET Nat
      OBVIOUS
    <2> QED
      BY <1>1, <2>1, LeastNatural
  <1>3. n # 0
    BY BelowSteps, WorthType
  <1> DEFINE b == n - 1
  <1>4. b \in 0 .. top - 1 /\ b \in 0 .. top /\ b \in Latency!Buckets /\ n = b + 1
    BY <1>3, ReportConstants
  <1>5. Below(Worth(f), b) <= Below(f, b) * most
    BY <1>2, <1>4
  <1> HIDE DEF b
  <1>6. b * BucketSize * f[b] <= f[b] * most
    <2>1. b * BucketSize \in Nat /\ f[b] \in Nat
      BY <1>4, ReportConstants
    <2>2. CASE f[b] = 0
      BY <2>1, <2>2
    <2>3. CASE b * BucketSize <= most
      <3>1. \A x, y, z \in Nat : x <= y => x * z <= z * y
        OBVIOUS
      <3> QED
        BY <2>1, <2>3, <3>1
    <2> QED
      BY <1>4, <2>2, <2>3
  <1>7. /\ Below(f, n) = Below(f, b) + f[b] /\ f[b] \in Nat
        /\ Below(Worth(f), n) = Below(Worth(f), b) + b * BucketSize * f[b]
        /\ Below(f, b) \in Nat /\ Below(Worth(f), b) \in Nat
        /\ b * BucketSize * f[b] \in Nat
    <2>1. b \in 0 .. MaxBuckets /\ b \in Nat /\ f[b] \in Nat
      BY <1>4, ReportConstants
    <2>2. Below(f, b) \in Nat /\ Below(Worth(f), b) \in Nat
      BY <2>1, BelowSteps, WorthType
    <2>3. /\ Below(f, b + 1) = Below(f, b) + f[b]
          /\ Below(Worth(f), b + 1) = Below(Worth(f), b) + Worth(f)[b]
      BY <1>4, BelowSteps, WorthType
    <2>4. Worth(f)[b] = b * BucketSize * f[b]
      BY <1>4 DEF Worth
    <2>5. b * BucketSize * f[b] \in Nat
      BY <2>1, ReportConstants
    <2> QED
      BY <1>4, <2>1, <2>2, <2>3, <2>4, <2>5
  <1>8. Below(Worth(f), n) <= Below(f, n) * most
    <2>1. \A u, v, w, x, m \in Nat : u <= v * m /\ w <= x * m => u + w <= (v + x) * m
      OBVIOUS
    <2> QED
      BY <1>5, <1>6, <1>7, <2>1
  <1> QED
    BY <1>8

LEMMA ReachedNext ==
  ASSUME NEW h \in [Latency!Buckets -> Nat], NEW n \in Latency!Buckets,
         NEW target \in Nat, NEW result \in Nat, Reached(h, n, target, result)
  PROVE  Reached(h, n + 1, target,
                 IF result = 0 /\ Below(h, n) + h[n] >= target
                 THEN (n + 1) * BucketSize ELSE result)
  <1>1. n \in Nat /\ Below(h, n + 1) = Below(h, n) + h[n] /\ Below(h, n) + h[n] \in Nat
    <2>1. n \in 0 .. MaxBuckets /\ n \in Nat /\ h[n] \in Nat
      BY ReportConstants
    <2> QED
      BY <2>1, BelowSteps
  <1>2. \A p \in Nat : (p + 1) * BucketSize # 0
    BY ReportConstants
  <1> DEFINE count == Below(h, n) + h[n]
  <1> HIDE DEF count
  <1>3. CASE result = 0 /\ count >= target
    <2>1. \A b \in 0 .. n - 1 : Below(h, b + 1) < target
      BY <1>1, <1>2, <1>3 DEF Reached
    <2>2. n \in 0 .. (n + 1) - 1
      BY <1>1
    <2> QED
      BY <1>1, <1>3, <2>1, <2>2 DEF Reached, count
  <1>4. CASE result = 0 /\ ~(count >= target)
    <2>1. \A b \in 0 .. n - 1 : Below(h, b + 1) < target
      BY <1>1, <1>2, <1>4 DEF Reached
    <2>2. Below(h, n + 1) < target
      BY <1>1, <1>4 DEF count
    <2>3. \A b \in 0 .. (n + 1) - 1 : Below(h, b + 1) < target
      BY <1>1, <2>1, <2>2
    <2> QED
      BY <1>4, <2>3 DEF Reached, count
  <1>5. CASE result # 0
    <2>1. PICK p \in 0 .. n - 1 :
            /\ result = (p + 1) * BucketSize
            /\ Below(h, p + 1) >= target
            /\ \A b \in 0 .. p - 1 : Below(h, b + 1) < target
      BY <1>5 DEF Reached
    <2>2. p \in 0 .. (n + 1) - 1
      BY <1>1
    <2> QED
      BY <1>5, <2>1, <2>2 DEF Reached
  <1> QED
    BY <1>3, <1>4, <1>5

LEMMA HighestNext ==
  ASSUME NEW h \in [Latency!Buckets -> Nat], NEW n \in Latency!Buckets,
         NEW result \in Nat, Highest(h, n, result)
  PROVE  Highest(h, n + 1, IF h[n] > 0 THEN (n + 1) * BucketSize ELSE result)
  <1>1. n \in Nat /\ h[n] \in Nat
    BY ReportConstants
  <1>2. CASE h[n] > 0
    <2>1. n \in 0 .. (n + 1) - 1 /\ \A b \in n + 1 .. (n + 1) - 1 : h[b] = 0
      BY <1>1
    <2> QED
      BY <1>2, <2>1 DEF Highest
  <1>3. CASE h[n] = 0
    <2>1. CASE result = 0 /\ \A b \in 0 .. n - 1 : h[b] = 0
      <3>1. \A b \in 0 .. (n + 1) - 1 : h[b] = 0
        BY <1>1, <1>3, <2>1
      <3> QED
        BY <1>3, <2>1, <3>1 DEF Highest
    <2>2. ASSUME NEW m \in 0 .. n - 1, h[m] > 0, result = (m + 1) * BucketSize,
                 \A b \in m + 1 .. n - 1 : h[b] = 0
          PROVE  Highest(h, n + 1, result)
      <3>1. m \in 0 .. (n + 1) - 1 /\ \A b \in m + 1 .. (n + 1) - 1 : h[b] = 0
        BY <1>1, <1>3, <2>2
      <3> QED
        BY <2>2, <3>1 DEF Highest
    <2> QED
      BY <1>3, <2>1, <2>2 DEF Highest
  <1> QED
    BY <1>1, <1>2, <1>3

LEMMA RecordStep ==
  ASSUME ReportInv, NEW b \in Latency!Buckets, Latency!Record(b)
  PROVE  ReportInv'
  <1>1. /\ latency_hist' = [latency_hist EXCEPT ![b] = @ + 1]
        /\ scan' = scan /\ i' = i /\ histogram' = histogram /\ total' = total /\ sum' = sum
        /\ cumulative' = cumulative /\ percentile' = percentile
        /\ max_latency' = max_latency /\ atRead' = atRead
    BY DEF Latency!Record, Latency!copy, Latency!result
  <1>2. latency_hist' \in [Latency!Buckets -> Nat]
    BY <1>1 DEF ReportInv, ReportType
  <1>3. \A c \in Latency!Buckets : latency_hist[c] <= latency_hist'[c]
    BY <1>1 DEF ReportInv, ReportType
  <1>4. \A c \in Latency!Buckets : atRead[c] <= latency_hist'[c]
    BY <1>2, <1>3 DEF ReportInv, ReportType, ReadInv
  <1>5. Copied(atRead, histogram, latency_hist', HasRead)
    <2>1. 0 .. HasRead - 1 \subseteq Latency!Buckets
      BY ReportConstants DEF ReportInv, ReportType, HasRead
    <2> QED
      BY <1>2, <1>3, <2>1 DEF ReportInv, ReportType, ReadInv, Copied
  <1>6. HasRead' = HasRead
    BY <1>1 DEF HasRead
  <1>7. ReportType'
    BY <1>1, <1>2 DEF ReportInv, ReportType
  <1>8. ReadInv'
    BY <1>1, <1>4, <1>5, <1>6 DEF ReportInv, ReadInv
  <1>9. ScanInv'
    BY <1>1 DEF ReportInv, ScanInv
  <1> QED
    BY <1>7, <1>8, <1>9 DEF ReportInv

LEMMA ReadStep ==
  ASSUME ReportInv, Latency!ReadBucket
  PROVE  ReportInv'
  <1>1. /\ scan = "read" /\ i < MaxBuckets
        /\ histogram' = [histogram EXCEPT ![i] = latency_hist[i]]
        /\ total' = total + latency_hist[i]
        /\ sum' = sum + latency_hist[i] * i * BucketSize
        /\ i' = i + 1
        /\ scan' = scan /\ latency_hist' = latency_hist /\ atRead' = atRead
        /\ cumulative' = cumulative /\ percentile' = percentile /\ max_latency' = max_latency
    BY DEF Latency!ReadBucket, Latency!kernel, Latency!result
  <1>2. i \in Latency!Buckets /\ i \in Nat /\ i + 1 \in 0 .. MaxBuckets /\ latency_hist[i] \in Nat
    BY <1>1, ReportConstants DEF ReportInv, ReportType
  <1> DEFINE h == histogram'
  <1>3. /\ histogram \in [Latency!Buckets -> Nat] /\ h \in [Latency!Buckets -> Nat]
        /\ h[i] = latency_hist[i] /\ \A b \in 0 .. i - 1 : h[b] = histogram[b]
    <2>1. histogram \in [Latency!Buckets -> Nat]
      BY DEF ReportInv, ReportType
    <2>2. \A b \in 0 .. i - 1 : b \in Latency!Buckets /\ b # i
      BY <1>1, <1>2, ReportConstants
    <2> QED
      BY <1>1, <1>2, <2>1, <2>2
  <1> HIDE DEF h
  <1>4. HasRead = i /\ HasRead' = i + 1
    BY <1>1 DEF HasRead
  <1>5. Copied(atRead, h, latency_hist, i + 1)
    <2>1. \A b \in 0 .. (i + 1) - 1 : b = i \/ b \in 0 .. i - 1
      BY <1>2
    <2>2. atRead[i] <= latency_hist[i] /\ latency_hist[i] <= latency_hist[i]
      BY <1>2 DEF ReportInv, ReadInv
    <2>3. Copied(atRead, histogram, latency_hist, i)
      BY <1>4 DEF ReportInv, ReadInv
    <2> QED
      BY <1>3, <2>1, <2>2, <2>3 DEF Copied
  <1>6. total' = Below(h, i + 1)
    <2>1. Below(h, i) = Below(histogram, i)
      <3>1. i \in 0 .. MaxBuckets
        BY <1>2, ReportConstants
      <3> QED
        BY <1>3, <3>1, BelowAgrees
    <2> QED
      BY <1>1, <1>2, <1>3, <1>4, <2>1, BelowSteps DEF ReportInv, ReadInv
  <1>7. sum' = Below(Worth(h), i + 1)
    <2>1. Worth(histogram) \in [Latency!Buckets -> Nat] /\ Worth(h) \in [Latency!Buckets -> Nat]
      BY <1>3, WorthType
    <2>2. \A b \in 0 .. i - 1 : Worth(h)[b] = Worth(histogram)[b]
      <3>1. \A b \in 0 .. i - 1 : b \in Latency!Buckets
        BY <1>1, <1>2, ReportConstants
      <3> QED
        BY <1>3, <3>1 DEF Worth
    <2>3. Below(Worth(h), i) = Below(Worth(histogram), i)
      <3>1. i \in 0 .. MaxBuckets
        BY <1>2, ReportConstants
      <3> QED
        BY <2>1, <2>2, <3>1, BelowAgrees
    <2>4. Below(Worth(h), i + 1) = Below(Worth(h), i) + Worth(h)[i]
      BY <1>2, <2>1, BelowSteps
    <2>5. Worth(h)[i] = latency_hist[i] * i * BucketSize
      <3>1. Worth(h)[i] = i * BucketSize * latency_hist[i]
        BY <1>2, <1>3 DEF Worth
      <3>2. \A x, y, z \in Nat : x * y * z = z * x * y
        OBVIOUS
      <3> QED
        BY <1>2, <3>1, <3>2, ReportConstants
    <2>6. sum = Below(Worth(histogram), i)
      BY <1>4 DEF ReportInv, ReadInv
    <2> QED
      BY <1>1, <2>3, <2>4, <2>5, <2>6
  <1>8. sum' \in Nat /\ total' \in Nat
    <2>1. latency_hist[i] * i * BucketSize \in Nat
      BY <1>2, ReportConstants
    <2> QED
      BY <1>1, <1>2, <2>1 DEF ReportInv, ReportType
  <1>9. ReportType'
    BY <1>1, <1>2, <1>3, <1>8 DEF ReportInv, ReportType, h
  <1>10. ReadInv'
    BY <1>1, <1>4, <1>5, <1>6, <1>7 DEF ReportInv, ReadInv, h
  <1>11. ScanInv'
    BY <1>1 DEF ReportInv, ScanInv
  <1> QED
    BY <1>9, <1>10, <1>11 DEF ReportInv

LEMMA EndReadStep ==
  ASSUME ReportInv, Latency!EndRead
  PROVE  ReportInv'
  <1>1. /\ scan = "read" /\ i = MaxBuckets /\ i' = 0
        /\ scan' = IF total = 0 THEN "empty" ELSE "scan"
        /\ latency_hist' = latency_hist /\ atRead' = atRead
        /\ histogram' = histogram /\ total' = total /\ sum' = sum
        /\ cumulative' = cumulative /\ percentile' = percentile /\ max_latency' = max_latency
    BY DEF Latency!EndRead, Latency!kernel, Latency!copy, Latency!result
  <1>2. HasRead = MaxBuckets /\ HasRead' = MaxBuckets
    BY <1>1 DEF HasRead
  <1>3. ReportType'
    BY <1>1, ReportConstants DEF ReportInv, ReportType
  <1>4. ReadInv'
    BY <1>1, <1>2 DEF ReportInv, ReadInv
  <1>5. ScanInv'
    <2>1. /\ cumulative' = Below(histogram, 0)
          /\ Highest(histogram, 0, 0)
          /\ \A t \in Nat : Reached(histogram, 0, t, 0)
      BY <1>1, BelowSteps DEF ReportInv, ReportType, ScanInv, Highest, Reached
    <2>2. \A q \in Latency!Percents : (total * q) \div 100 \in Nat
      BY DEF ReportInv, ReportType, Latency!Percents
    <2>3. percentile = [q \in Latency!Percents |-> 0] /\ max_latency = 0 /\ total \in Nat
      BY <1>1 DEF ReportInv, ReportType, ScanInv
    <2> QED
      BY <1>1, <2>1, <2>2, <2>3, ReportConstants DEF ScanInv
  <1> QED
    BY <1>3, <1>4, <1>5 DEF ReportInv

LEMMA ScanStep ==
  ASSUME ReportInv, Latency!ScanBucket
  PROVE  ReportInv'
  <1>1. /\ scan = "scan" /\ i < MaxBuckets /\ i' = i + 1
        /\ cumulative' = cumulative + histogram[i]
        /\ max_latency' = IF histogram[i] > 0 THEN (i + 1) * BucketSize ELSE max_latency
        /\ percentile' = [q \in Latency!Percents |->
                            IF percentile[q] = 0 /\ cumulative' >= Latency!Target(q)
                            THEN (i + 1) * BucketSize ELSE percentile[q]]
        /\ scan' = scan /\ latency_hist' = latency_hist /\ atRead' = atRead
        /\ histogram' = histogram /\ total' = total /\ sum' = sum
    BY DEF Latency!ScanBucket, Latency!Scan, Latency!kernel, Latency!copy
  <1>2. i \in Latency!Buckets /\ i \in Nat /\ i + 1 \in 0 .. MaxBuckets /\ histogram[i] \in Nat
    BY <1>1, ReportConstants DEF ReportInv, ReportType
  <1>3. (i + 1) * BucketSize \in Nat
    BY <1>2, ReportConstants
  <1>4. ReportType'
    BY <1>1, <1>2, <1>3 DEF ReportInv, ReportType
  <1>5. ReadInv'
    BY <1>1 DEF ReportInv, ReadInv, HasRead
  <1>6. /\ histogram \in [Latency!Buckets -> Nat]
        /\ cumulative = Below(histogram, i) /\ total > 0
        /\ Highest(histogram, i, max_latency)
        /\ \A q \in Latency!Percents :
             Reached(histogram, i, (total * q) \div 100, percentile[q])
    BY <1>1 DEF ReportInv, ReportType, ScanInv
  <1>7. cumulative' = Below(histogram, i) + histogram[i] /\ cumulative' = Below(histogram, i + 1)
    BY <1>1, <1>2, <1>6, BelowSteps
  <1>8. ASSUME NEW q \in Latency!Percents
        PROVE  Reached(histogram, i + 1, (total * q) \div 100, percentile'[q])
    <2>1. (total * q) \div 100 \in Nat /\ percentile[q] \in Nat
      BY DEF ReportInv, ReportType, Latency!Percents
    <2>2. percentile'[q] = IF percentile[q] = 0 /\ Below(histogram, i) + histogram[i] >= (total * q) \div 100
                           THEN (i + 1) * BucketSize ELSE percentile[q]
      BY <1>1, <1>7 DEF Latency!Target
    <2> QED
      BY <1>2, <1>6, <2>1, <2>2, ReachedNext
  <1>9. Highest(histogram, i + 1, max_latency')
    <2>1. max_latency \in Nat
      BY DEF ReportInv, ReportType
    <2> QED
      BY <1>1, <1>2, <1>6, <2>1, HighestNext
  <1>10. ScanInv'
    BY <1>1, <1>6, <1>7, <1>8, <1>9 DEF ScanInv
  <1> QED
    BY <1>4, <1>5, <1>10 DEF ReportInv

LEMMA PrintStep ==
  ASSUME ReportInv, Latency!PrintReport
  PROVE  ReportInv'
  <1>1. /\ scan = "scan" /\ i = MaxBuckets /\ scan' = "printed" /\ i' = i
        /\ latency_hist' = latency_hist /\ atRead' = atRead
        /\ histogram' = histogram /\ total' = total /\ sum' = sum
        /\ cumulative' = cumulative /\ percentile' = percentile /\ max_latency' = max_latency
    BY DEF Latency!PrintReport, Latency!kernel, Latency!copy, Latency!result
  <1> QED
    BY <1>1 DEF ReportInv, ReportType, ReadInv, ScanInv, HasRead

LEMMA ReportInit == Latency!Init => ReportInv
  <1> SUFFICES ASSUME Latency!Init PROVE ReportInv
    OBVIOUS
  <1>1. /\ latency_hist \in [Latency!Buckets -> Nat] /\ atRead = latency_hist
        /\ scan = "read" /\ i = 0
        /\ histogram = [b \in Latency!Buckets |-> 0] /\ total = 0 /\ sum = 0
        /\ cumulative = 0 /\ percentile = [q \in Latency!Percents |-> 0] /\ max_latency = 0
    BY ReportConstants DEF Latency!Init
  <1>2. ReportType
    BY <1>1, ReportConstants DEF ReportType
  <1>3. ReadInv
    BY <1>1 DEF ReadInv, HasRead, Copied, Below
  <1>4. ScanInv
    BY <1>1 DEF ScanInv
  <1> QED
    BY <1>2, <1>3, <1>4 DEF ReportInv

LEMMA ReportHolds == Spec => []ReportInv
  <1>1. Init => ReportInv
    BY ReportInit DEF Init
  <1>2. ReportInv /\ [Next]_vars => ReportInv'
    <2>1. ReportInv /\ UNCHANGED latency => ReportInv'
      BY DEF latency, ReportInv, ReportType, ReadInv, ScanInv, HasRead
    <2>2. ReportInv /\ Latency!Next => ReportInv'
      BY RecordStep, ReadStep, EndReadStep, ScanStep, PrintStep DEF Latency!Next
    <2> QED
      BY <2>1, <2>2
      DEF Next, MainDoes, LatencyDoes, FairnessDoes, StreamDoes, vars
  <1> QED
    BY <1>1, <1>2, PTL DEF Spec

------------------------------------------------------------------------------
(* The targets, and what the report and the scripts find in the buckets.   *)

LEMMA Targets ==
  ASSUME NEW t \in Nat, NEW q \in {50, 90, 99}
  PROVE  /\ (t * q) \div 100 \in Nat
         /\ 100 * ((t * q) \div 100) <= t * q
         /\ t * q < 100 * ((t * q) \div 100) + 100
         /\ (t * q) % 100 = 0 => 100 * ((t * q) \div 100) = t * q
         /\ (t * q) \div 100 <= t
         /\ t * q <= 100 * t /\ t * q = q * t
  <1>1. CASE q = 50
    BY <1>1
  <1>2. CASE q = 90
    BY <1>2
  <1>3. CASE q = 99
    BY <1>3
  <1> QED
    BY <1>1, <1>2, <1>3

LEMMA Multiples ==
  ASSUME NEW m \in Nat, NEW n \in Nat
  PROVE  /\ m <= n => m * BucketSize <= n * BucketSize
         /\ m * BucketSize \in Nat
         /\ (m + 1) * BucketSize = m * BucketSize + BucketSize
         /\ (m + 1) * BucketSize > 0
         /\ ((m + 1) * BucketSize) \div BucketSize - 1 = m
  <1>1. \A b \in Nat \ {0} :
           /\ m <= n => m * b <= n * b
           /\ m * b \in Nat
           /\ (m + 1) * b = m * b + b
           /\ (m + 1) * b > 0
    OBVIOUS
  <1>2. \A b \in Nat \ {0} : ((m + 1) * b) \div b = m + 1
    OBVIOUS
  <1> QED
    BY <1>1, <1>2, ReportConstants

(* The bucket of a percentile, and the last bucket with samples. *)
Bucket(q, p) ==
  /\ percentile[q] = (p + 1) * BucketSize
  /\ Below(histogram, p + 1) >= (total * q) \div 100
  /\ \A b \in 0 .. p - 1 : Below(histogram, b + 1) < (total * q) \div 100

LastBucket(m) ==
  /\ histogram[m] > 0
  /\ max_latency = (m + 1) * BucketSize
  /\ \A b \in Latency!Buckets : b > m => histogram[b] = 0

LEMMA Printed ==
  ASSUME ReportInv, scan = "printed"
  PROVE  /\ histogram \in [Latency!Buckets -> Nat]
         /\ total \in Nat /\ total > 0
         /\ total = Below(histogram, MaxBuckets)
         /\ sum = Below(Worth(histogram), MaxBuckets)
         /\ \A b \in Latency!Buckets : Latency!UpTo(b) = Below(histogram, b + 1)
                                       /\ Below(histogram, b + 1) \in Nat
         /\ \A q \in {50, 90, 99} : \E p \in Latency!Buckets : Bucket(q, p)
         /\ \E m \in Latency!Buckets :
              LastBucket(m) /\ Below(histogram, m + 1) = total
  <1>1. /\ histogram \in [Latency!Buckets -> Nat]
        /\ total \in Nat /\ total > 0
        /\ total = Below(histogram, MaxBuckets)
        /\ sum = Below(Worth(histogram), MaxBuckets)
        /\ \A q \in Latency!Percents :
             Reached(histogram, MaxBuckets, (total * q) \div 100, percentile[q])
        /\ Highest(histogram, MaxBuckets, max_latency)
    BY DEF ReportInv, ReportType, ReadInv, ScanInv, HasRead
  <1>2. MaxBuckets - 1 \in Latency!Buckets /\ (MaxBuckets - 1) + 1 = MaxBuckets
        /\ Latency!Buckets = 0 .. MaxBuckets - 1
    BY ReportConstants
  <1>3. \A b \in Latency!Buckets : Latency!UpTo(b) = Below(histogram, b + 1)
                                   /\ Below(histogram, b + 1) \in Nat
    <2> SUFFICES ASSUME NEW b \in Latency!Buckets
                 PROVE  Latency!UpTo(b) = Below(histogram, b + 1)
                        /\ Below(histogram, b + 1) \in Nat
      OBVIOUS
    <2>1. b + 1 \in 0 .. MaxBuckets /\ b + 1 # 0 /\ (b + 1) - 1 = b
      BY ReportConstants
    <2>2. Below(histogram, b + 1) \in Nat
      BY <1>1, <2>1, BelowSteps
    <2> QED
      BY <2>1, <2>2 DEF Latency!UpTo, Below
  <1>4. ASSUME NEW q \in {50, 90, 99}
        PROVE  \E p \in Latency!Buckets : Bucket(q, p)
    <2>1. Reached(histogram, MaxBuckets, (total * q) \div 100, percentile[q])
      BY <1>1 DEF Latency!Percents
    <2>2. ~(Below(histogram, (MaxBuckets - 1) + 1) < (total * q) \div 100)
      BY <1>1, <1>2, Targets
    <2>3. \E p \in 0 .. MaxBuckets - 1 : Bucket(q, p)
      BY <1>2, <2>1, <2>2 DEF Reached, Bucket
    <2> QED
      BY <1>2, <2>3
  <1>5. \E m \in Latency!Buckets : LastBucket(m)
    <2>1. CASE \A b \in 0 .. MaxBuckets - 1 : histogram[b] = 0
      <3>1. Below(histogram, 0) = Below(histogram, MaxBuckets)
        BY <1>1, <2>1, BelowGrows, ReportConstants
      <3> QED
        BY <1>1, <3>1, BelowSteps
    <2>2. ASSUME NEW m \in 0 .. MaxBuckets - 1, histogram[m] > 0,
                 max_latency = (m + 1) * BucketSize,
                 \A b \in m + 1 .. MaxBuckets - 1 : histogram[b] = 0
          PROVE  LastBucket(m) /\ m \in Latency!Buckets
      BY <1>2, <2>2 DEF LastBucket
    <2> QED
      BY <1>1, <2>1, <2>2 DEF Highest
  <1>6. ASSUME NEW m \in Latency!Buckets, LastBucket(m)
        PROVE  Below(histogram, m + 1) = total
    <2>1. m + 1 \in 0 .. MaxBuckets /\ MaxBuckets \in 0 .. MaxBuckets
      BY ReportConstants
    <2>2. \A b \in m + 1 .. MaxBuckets - 1 : histogram[b] = 0
      BY <1>2, <1>6 DEF LastBucket
    <2> QED
      BY <1>1, <2>1, <2>2, BelowGrows
  <1> QED
    BY <1>1, <1>3, <1>4, <1>5, <1>6

(* Whatever the handlers add to the histogram while it is read, the        *)
(* percentiles come in order and between nothing and the maximum, and the  *)
(* average is not above it; the copy lies between the histogram as the     *)
(* read began and as it is, and total is the copy's.                       *)
THEOREM PercentilesInOrder == Spec => []Ordered
  <1>1. ASSUME ReportInv, scan \in {"scan", "printed"}
        PROVE  /\ \A b \in Latency!Buckets : atRead[b] <= histogram[b]
                                             /\ histogram[b] <= latency_hist[b]
               /\ total = Latency!UpTo(MaxBuckets - 1)
    <2>1. /\ Copied(atRead, histogram, latency_hist, MaxBuckets)
          /\ total = Below(histogram, MaxBuckets)
      BY <1>1 DEF ReportInv, ReadInv, HasRead
    <2> QED
      BY <2>1, ReportConstants DEF Copied, Below, Latency!UpTo
  <1>2. ASSUME ReportInv, scan = "printed"
        PROVE  /\ 0 < percentile[50]
               /\ percentile[50] <= percentile[90]
               /\ percentile[90] <= percentile[99]
               /\ percentile[99] <= max_latency
               /\ sum <= total * max_latency
    <2>1. PICK m \in Latency!Buckets : LastBucket(m) /\ Below(histogram, m + 1) = total
      BY <1>2, Printed
    <2>2. PICK p50 \in Latency!Buckets : Bucket(50, p50)
      BY <1>2, Printed
    <2>3. PICK p90 \in Latency!Buckets : Bucket(90, p90)
      BY <1>2, Printed
    <2>4. PICK p99 \in Latency!Buckets : Bucket(99, p99)
      BY <1>2, Printed
    <2>5. /\ m \in Nat /\ p50 \in Nat /\ p90 \in Nat /\ p99 \in Nat /\ total \in Nat
          /\ histogram \in [Latency!Buckets -> Nat]
          /\ \A b \in Latency!Buckets : Below(histogram, b + 1) \in Nat
      <3>1. m \in Nat /\ p50 \in Nat /\ p90 \in Nat /\ p99 \in Nat
        BY ReportConstants
      <3> QED
        BY <1>2, <3>1, Printed
    <2>6. /\ (total * 50) \div 100 <= (total * 90) \div 100
          /\ (total * 90) \div 100 <= (total * 99) \div 100
          /\ (total * 99) \div 100 <= total
      BY <2>5
    <2>7. p50 <= p90
      <3>1. Below(histogram, p90 + 1) >= (total * 50) \div 100
        BY <2>3, <2>5, <2>6 DEF Bucket
      <3>2. ~(p90 \in 0 .. p50 - 1)
        BY <2>2, <2>5, <3>1 DEF Bucket
      <3> QED
        BY <2>5, <3>2
    <2>8. p90 <= p99
      <3>1. Below(histogram, p99 + 1) >= (total * 90) \div 100
        BY <2>4, <2>5, <2>6 DEF Bucket
      <3>2. ~(p99 \in 0 .. p90 - 1)
        BY <2>3, <2>5, <3>1 DEF Bucket
      <3> QED
        BY <2>5, <3>2
    <2>9. p99 <= m
      <3>1. Below(histogram, m + 1) >= (total * 99) \div 100
        BY <2>1, <2>5, <2>6
      <3>2. ~(m \in 0 .. p99 - 1)
        BY <2>4, <2>5, <3>1 DEF Bucket
      <3> QED
        BY <2>5, <3>2
    <2>10. /\ (p50 + 1) * BucketSize > 0
           /\ (p50 + 1) * BucketSize <= (p90 + 1) * BucketSize
           /\ (p90 + 1) * BucketSize <= (p99 + 1) * BucketSize
           /\ (p99 + 1) * BucketSize <= (m + 1) * BucketSize
      <3>1. p50 + 1 \in Nat /\ p90 + 1 \in Nat /\ p99 + 1 \in Nat /\ m + 1 \in Nat
        BY <2>5
      <3>2. p50 + 1 <= p90 + 1 /\ p90 + 1 <= p99 + 1 /\ p99 + 1 <= m + 1
        BY <2>5, <2>7, <2>8, <2>9
      <3> QED
        BY <2>5, <3>1, <3>2, Multiples
    <2>11. sum <= total * max_latency
      <3>1. \A b \in 0 .. MaxBuckets - 1 :
              histogram[b] = 0 \/ b * BucketSize <= max_latency
        <4> SUFFICES ASSUME NEW b \in Latency!Buckets, histogram[b] # 0
                     PROVE  b * BucketSize <= max_latency
          BY ReportConstants
        <4>1. b \in Nat /\ b <= m + 1
          BY <2>1, <2>5, ReportConstants DEF LastBucket
        <4>2. m + 1 \in Nat
          BY <2>5
        <4> QED
          BY <2>1, <4>1, <4>2, Multiples DEF LastBucket
      <3>2. max_latency \in Nat /\ MaxBuckets \in 0 .. MaxBuckets
        BY <1>2, ReportConstants DEF ReportInv, ReportType
      <3>3. Below(Worth(histogram), MaxBuckets) <= Below(histogram, MaxBuckets) * max_latency
        BY <2>5, <3>1, <3>2, WorthBounded
      <3> QED
        BY <1>2, <3>3, Printed
    <2> QED
      BY <2>1, <2>2, <2>3, <2>4, <2>10, <2>11 DEF Bucket, LastBucket
  <1>3. ReportInv => Ordered
    BY <1>1, <1>2 DEF Ordered, Latency!Ordered, Latency!Printed
  <1> QED
    BY <1>3, ReportHolds, PTL

LEMMA LeastRow ==
  ASSUME NEW S \in SUBSET Nat, S # {}
  PROVE  Latency!Min(S) \in S /\ \A y \in S : Latency!Min(S) <= y
  BY LeastNatural DEF Latency!Min

LEMMA LastRow ==
  ASSUME NEW S \in SUBSET Nat, NEW m \in S, \A y \in S : y <= m
  PROVE  Latency!Max(S) = m
  <1>1. m \in Nat /\ \E z \in S : \A y \in S : z >= y
    OBVIOUS
  <1>2. Latency!Max(S) \in S /\ \A y \in S : Latency!Max(S) >= y
    BY <1>1 DEF Latency!Max
  <1>3. Latency!Max(S) \in Nat /\ Latency!Max(S) <= m /\ Latency!Max(S) >= m
    BY <1>2
  <1> QED
    BY <1>1, <1>3

LEMMA SameRow ==
  ASSUME ReportInv, scan = "printed", NEW q \in {50, 90, 99},
         NEW m \in Latency!Buckets, LastBucket(m), Below(histogram, m + 1) = total
  PROVE  LET here   == percentile[q] - BucketSize
             script == Latency!percentile_from_histogram(q)
         IN  /\ Latency!compute_percentiles(q) = script
             /\ Latency!Fastest <= script /\ script <= m * BucketSize
             /\ here <= script
             /\ (total * q) % 100 = 0 /\ Latency!Target(q) > 0 => here = script
             /\ 100 * (Latency!UpTo(percentile[q] \div BucketSize - 1) + 1) > q * total
  <1> DEFINE all == Latency!Rows
             reached == {b \in all : 100 * Latency!UpTo(b) >= total * q}
             target == (total * q) \div 100
             row == Latency!Min(reached)
  <1>1. PICK p \in Latency!Buckets : Bucket(q, p)
    BY Printed
  <1>2. /\ total \in Nat /\ histogram \in [Latency!Buckets -> Nat]
        /\ \A b \in Latency!Buckets : Latency!UpTo(b) = Below(histogram, b + 1)
                                      /\ Below(histogram, b + 1) \in Nat
        /\ Latency!Buckets \in SUBSET Nat
        /\ m \in Nat /\ p \in Nat /\ total * q \in Nat
    <2>1. Latency!Buckets \in SUBSET Nat /\ m \in Nat /\ p \in Nat
      BY ReportConstants
    <2>2. total \in Nat
      BY Printed
    <2> QED
      BY <2>1, <2>2, Printed
  <1>3. /\ target \in Nat
        /\ 100 * target <= total * q
        /\ total * q < 100 * target + 100
        /\ (total * q) % 100 = 0 => 100 * target = total * q
        /\ total * q <= 100 * total /\ total * q = q * total
    BY <1>2, Targets
  <1> HIDE DEF target
  <1>4. m \in reached
    BY <1>2, <1>3 DEF LastBucket, Latency!Rows
  <1>5. all \in SUBSET Nat /\ reached \in SUBSET Nat
    <2>1. all \subseteq Latency!Buckets
      BY DEF Latency!Rows
    <2> QED
      BY <1>2, <2>1
  <1>6. row \in reached /\ \A y \in reached : row <= y
    BY <1>4, <1>5, LeastRow
  <1>7. Latency!Rows \ {b \in Latency!Rows : 100 * Latency!UpTo(b) < total * q} = reached
    <2>1. all \subseteq Latency!Buckets
      BY DEF Latency!Rows
    <2>2. \A b \in all : Latency!UpTo(b) \in Nat
      BY <1>2, <2>1
    <2> QED
      BY <1>2, <2>2
  <1>8. /\ Latency!percentile_from_histogram(q) = row * BucketSize
        /\ Latency!compute_percentiles(q) = row * BucketSize
    BY <1>4, <1>7 DEF Latency!percentile_from_histogram, Latency!compute_percentiles
  <1>9. row \in Latency!Buckets /\ row \in Nat /\ row \in all
        /\ 100 * Below(histogram, row + 1) >= total * q
    <2>1. row \in all /\ 100 * Latency!UpTo(row) >= total * q
      BY <1>6
    <2> HIDE DEF row, reached
    <2>2. row \in Latency!Buckets
      BY <2>1 DEF Latency!Rows
    <2> QED
      BY <1>2, <2>1, <2>2
  <1> HIDE DEF row, reached
  <1>10. p <= row
    <2>1. Below(histogram, row + 1) >= target
      BY <1>2, <1>3, <1>9
    <2>2. ~(row \in 0 .. p - 1)
      BY <1>1, <1>2, <1>9, <2>1 DEF Bucket, target
    <2> QED
      BY <1>2, <1>9, <2>2
  <1>11. row <= m
    BY <1>4, <1>6
  <1>12. Latency!Min(all) \in Nat /\ Latency!Min(all) <= row
    BY <1>5, <1>9, LeastRow
  <1>13. (total * q) % 100 = 0 /\ target > 0 => p = row
    <2> SUFFICES ASSUME (total * q) % 100 = 0, target > 0 PROVE p = row
      OBVIOUS
    <2>1. Below(histogram, p) < target
      <3>1. CASE p = 0
        BY <1>2, <3>1, BelowSteps
      <3>2. CASE p # 0
        <4>1. p - 1 \in 0 .. p - 1 /\ (p - 1) + 1 = p
          BY <1>2, <3>2
        <4>2. Below(histogram, (p - 1) + 1) < target
          BY <1>1, <4>1 DEF Bucket, target
        <4> QED
          BY <4>1, <4>2
      <3> QED
        BY <3>1, <3>2
    <2>2. Below(histogram, p + 1) = Below(histogram, p) + histogram[p]
          /\ Below(histogram, p) \in Nat /\ histogram[p] \in Nat
      <3>1. p \in 0 .. MaxBuckets
        BY ReportConstants
      <3> QED
        BY <1>2, <3>1, BelowSteps
    <2>3. Below(histogram, p + 1) >= target
      BY <1>1 DEF Bucket, target
    <2>4. p \in reached
      <3>1. histogram[p] > 0
        BY <1>3, <2>1, <2>2, <2>3
      <3>2. 100 * Below(histogram, p + 1) >= total * q
        BY <1>2, <1>3, <2>3
      <3> QED
        BY <1>2, <3>1, <3>2 DEF reached, Latency!Rows
    <2>5. row <= p
      BY <1>6, <2>4
    <2> QED
      BY <1>2, <1>9, <1>10, <2>5
  <1>14. /\ percentile[q] = p * BucketSize + BucketSize
         /\ percentile[q] \div BucketSize - 1 = p
         /\ p * BucketSize \in Nat
         /\ p * BucketSize <= row * BucketSize
         /\ row * BucketSize <= m * BucketSize
         /\ Latency!Fastest <= row * BucketSize
    BY <1>1, <1>2, <1>9, <1>10, <1>11, <1>12, Multiples DEF Bucket, Latency!Fastest
  <1>15. 100 * (Latency!UpTo(p) + 1) > q * total
    <2>1. Below(histogram, p + 1) >= target
      BY <1>1 DEF Bucket, target
    <2> QED
      BY <1>2, <1>3, <2>1
  <1>16. percentile[q] - BucketSize = p * BucketSize
    BY <1>14, ReportConstants
  <1>17. Latency!Target(q) = target
    BY DEF Latency!Target, target
  <1> QED
    BY <1>8, <1>13, <1>14, <1>15, <1>16, <1>17

(* percentiles.py and analyze.py name the same row of the CSV; schedlab    *)
(* names its bucket too whenever the target is a whole number, and         *)
(* otherwise an earlier one by less than a sample; the three agree on the  *)
(* mean and on the extremes.                                               *)
THEOREM ScriptsNameTheBucket == Spec => []ToolsAgree
  <1>1. ASSUME ReportInv, scan = "printed"
        PROVE  Latency!ToolsAgree
    <2>1. PICK m \in Latency!Buckets : LastBucket(m) /\ Below(histogram, m + 1) = total
      BY <1>1, Printed
    <2>2. /\ histogram \in [Latency!Buckets -> Nat] /\ m \in Nat
          /\ Latency!Buckets \in SUBSET Nat /\ MaxBuckets \in 0 .. MaxBuckets
          /\ MaxBuckets # 0
      <3>1. /\ Latency!Buckets \in SUBSET Nat /\ MaxBuckets \in 0 .. MaxBuckets
            /\ MaxBuckets # 0 /\ m \in Nat
        BY ReportConstants
      <3> QED
        BY <1>1, <3>1, Printed
    <2>3. Latency!weighted_sum = sum
      BY <1>1, <2>2, Printed DEF Latency!weighted_sum, Below, Worth
    <2>4. Latency!Max(Latency!Rows) = m
      <3>1. m \in Latency!Rows /\ Latency!Rows \in SUBSET Nat
        BY <2>1, <2>2 DEF LastBucket, Latency!Rows
      <3>2. \A b \in Latency!Rows : b <= m
        BY <2>1, <2>2 DEF LastBucket, Latency!Rows
      <3> QED
        BY <3>1, <3>2, LastRow
    <2>5. Latency!Slowest = m * BucketSize /\ Latency!Slowest + BucketSize = max_latency
      BY <2>1, <2>2, <2>4, Multiples DEF LastBucket, Latency!Slowest
    <2>6. Latency!Percents = {50, 90, 99}
      BY DEF Latency!Percents
    <2>7. \A q \in {50, 90, 99} :
            LET here   == percentile[q] - BucketSize
                script == Latency!percentile_from_histogram(q)
            IN  /\ Latency!compute_percentiles(q) = script
                /\ Latency!Fastest <= script /\ script <= m * BucketSize
                /\ here <= script
                /\ (total * q) % 100 = 0 /\ Latency!Target(q) > 0 => here = script
                /\ 100 * (Latency!UpTo(percentile[q] \div BucketSize - 1) + 1) > q * total
      BY <1>1, <2>1, SameRow
    <2> QED
      BY <2>3, <2>5, <2>6, <2>7 DEF Latency!ToolsAgree
  <1>2. ReportInv => ToolsAgree
    BY <1>1 DEF ToolsAgree, Latency!ToolsAgree, Latency!Printed
  <1> QED
    BY <1>2, ReportHolds, PTL

===============================================================================
