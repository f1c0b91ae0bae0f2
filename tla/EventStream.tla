---------------------------- MODULE EventStream ----------------------------
(***************************************************************************)
(* The stream mode of schedlab from the stamp of an event to its line of   *)
(* output: handlers on several CPUs stamp an event, reserve a record of    *)
(* the ring buffer and submit it, each in a step of its own, while         *)
(* run_stream_mode polls the buffer and event_handler prints.              *)
(*                                                                         *)
(* The wakeup and the switch handler run with interrupts off; the exit     *)
(* handler does not, and a wakeup from an interrupt can come in the middle *)
(* of it.  The ring buffer is the kernel's and libbpf's: records stand in  *)
(* the order of their reservation, a full buffer refuses a reservation,    *)
(* and the reader stops at a record that is not submitted yet.             *)
(***************************************************************************)
EXTENDS Integers, Sequences, SequencesExt

CONSTANTS
  CPUs,
  RingSlots,      \* records the ring buffer holds
  MaxEvents       \* bound: events that are stamped

StreamAssumption ==
  /\ RingSlots \in Nat \ {0}
  /\ MaxEvents \in Nat

VARIABLES
  handlers,       \* the handlers in progress on each CPU, the innermost last
  now,            \* bpf_ktime_get_ns, one more with every stamp
  reserved,       \* history: the records in the order of their reservation
  submitted,      \* time stamps of the records submitted
  dropped,        \* time stamps of the events the full buffer refused
  consumer,       \* number of records consumed
  printed,        \* the records printed
  pc,             \* of run_stream_mode: "poll", "event" or "done"
  running

kernel == <<handlers, now, reserved, submitted, dropped>>
user   == <<consumer, printed, pc, running>>
vars   == <<kernel, user>>

Types == {"WAKEUP", "SWITCH", "EXIT"}

Init ==
  /\ handlers = [c \in CPUs |-> <<>>]
  /\ now = 0
  /\ reserved = <<>>
  /\ submitted = {}
  /\ dropped = {}
  /\ consumer = 0
  /\ printed = <<>>
  /\ pc = "poll"
  /\ running = TRUE

------------------------------------------------------------------------------
(* The handlers of schedlab.bpf.c. *)

Top(c) == Last(handlers[c])

InProgress == {c \in CPUs : handlers[c] # <<>>}

(* Stamped, but without a record so far. *)
pending ==
  UNION {{handlers[c][k].ts : k \in {j \in DOMAIN handlers[c] : handlers[c][j].at = "stamped"}} :
           c \in CPUs}

Stamp(c, type) ==
  /\ now < MaxEvents
  /\ handlers[c] = <<>> \/ (Len(handlers[c]) = 1 /\ Top(c).type = "EXIT" /\ type = "WAKEUP")
  /\ now' = now + 1
  /\ handlers' = [handlers EXCEPT ![c] =
                    Append(@, [at |-> "stamped", type |-> type, ts |-> now, cpu |-> c,
                               late |-> pending])]
  /\ UNCHANGED <<reserved, submitted, dropped, user>>

(* bpf_ringbuf_reserve; without a record the handler is over. *)
Reserve(c) ==
  /\ c \in InProgress /\ Top(c).at = "stamped"
  /\ IF Len(reserved) - consumer < RingSlots
     THEN /\ reserved' = Append(reserved, Top(c))
          /\ handlers' = [handlers EXCEPT ![c][Len(handlers[c])].at = "reserved"]
          /\ UNCHANGED dropped
     ELSE /\ dropped' = dropped \cup {Top(c).ts}
          /\ handlers' = [handlers EXCEPT ![c] = Front(@)]
          /\ UNCHANGED reserved
  /\ UNCHANGED <<now, submitted, user>>

(* Bug: the record of an exit is not submitted. *)
SubmitForgotten(c) ==
  /\ c \in InProgress /\ Top(c).at = "reserved"
  /\ submitted' = IF Top(c).type = "EXIT" THEN submitted ELSE submitted \cup {Top(c).ts}
  /\ handlers' = [handlers EXCEPT ![c] = Front(@)]
  /\ UNCHANGED <<now, reserved, dropped, user>>

Submit(c) ==
  /\ c \in InProgress /\ Top(c).at = "reserved"
  /\ submitted' = submitted \cup {Top(c).ts}
  /\ handlers' = [handlers EXCEPT ![c] = Front(@)]
  /\ UNCHANGED <<now, reserved, dropped, user>>

------------------------------------------------------------------------------
(* run_stream_mode *)

next_record == reserved[consumer + 1]

ready == consumer < Len(reserved) /\ next_record.ts \in submitted

(* Bug: a record that is not submitted is passed over. *)
PollPasses ==
  /\ pc = "poll"
  /\ running
  /\ consumer < Len(reserved)
  /\ IF ready THEN pc' = "event" /\ UNCHANGED consumer
     ELSE consumer' = consumer + 1 /\ UNCHANGED pc
  /\ UNCHANGED <<kernel, printed, running>>

Poll ==
  /\ pc = "poll"
  /\ running
  /\ ready
  /\ pc' = "event"
  /\ UNCHANGED <<kernel, consumer, printed, running>>

(* Without running the record is consumed, not printed, and the error that *)
(* is returned ends the loop.  Otherwise the poll goes on while records    *)
(* are ready.                                                              *)
event_handler ==
  /\ pc = "event"
  /\ consumer' = consumer + 1
  /\ IF running
     THEN /\ printed' = Append(printed, next_record)
          /\ pc' = IF consumer' < Len(reserved) /\ reserved[consumer' + 1].ts \in submitted
                   THEN "event" ELSE "poll"
     ELSE pc' = "done" /\ UNCHANGED printed
  /\ UNCHANGED <<kernel, running>>

EndLoop ==
  /\ pc = "poll"
  /\ ~running
  /\ pc' = "done"
  /\ UNCHANGED <<kernel, consumer, printed, running>>

sig_handler ==
  /\ running
  /\ running' = FALSE
  /\ UNCHANGED <<kernel, consumer, printed, pc>>

Consumer == Poll \/ event_handler \/ EndLoop

Handler(c) == Reserve(c) \/ Submit(c)

Next ==
  \/ \E c \in CPUs, type \in Types : Stamp(c, type)
  \/ \E c \in CPUs : Handler(c)
  \/ Consumer
  \/ sig_handler

(* A handler runs to its end, and the process gets CPU time. *)
Spec ==
  /\ Init /\ [][Next]_vars
  /\ WF_vars(Consumer) /\ \A c \in CPUs : WF_vars(Handler(c))

------------------------------------------------------------------------------
(* Properties. *)

(* What is printed is what was submitted, each record once and in the      *)
(* order of reservation, without a gap but the events a full buffer        *)
(* refused: only the record at which the program stops is consumed         *)
(* unprinted.  An event stands behind a younger one only if its handler    *)
(* had stamped it, but not reserved its record, when the younger one was   *)
(* stamped: on another CPU, or below the wakeup that interrupted an exit.  *)
StreamInOrder ==
  /\ printed = SubSeq(reserved, 1, Len(printed))
  /\ consumer - Len(printed) \in (IF running \/ pc # "done" THEN {0} ELSE {0, 1})
  /\ \A m \in 1 .. consumer : reserved[m].ts \in submitted
  /\ \A m, n \in DOMAIN printed : m < n /\ printed[m].ts > printed[n].ts =>
       /\ printed[n].ts \in printed[m].late
       /\ printed[m].cpu = printed[n].cpu =>
            printed[m].type = "WAKEUP" /\ printed[n].type = "EXIT"

(* Every event is printed or refused by a full buffer, unless the program  *)
(* is stopped: an unfinished record holds up the ones behind it, but not   *)
(* for ever.                                                               *)
EventPrinted ==
  \A n \in 1 .. MaxEvents :
    now >= n ~> \/ n - 1 \in dropped
                \/ \E k \in DOMAIN printed : printed[k].ts = n - 1
                \/ ~running

==============================================================================
