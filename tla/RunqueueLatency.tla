--------------------------- MODULE RunqueueLatency ---------------------------
(***************************************************************************)
(* What SchedLab's latency mode promises: a histogram with one sample for  *)
(* every wakeup it caught, the time the woken task then spent runnable and *)
(* waiting, in slots of BucketSize, the last slot open-ended.              *)
(*                                                                         *)
(* waiting maps each task whose wakeup was caught and that has not been    *)
(* dispatched since to the time it has waited.  It speaks of the tasks on  *)
(* the runqueue, not of time stamps: it is the definition of scheduling    *)
(* latency of chapter 4, and SchedLabBpf is shown to implement it.         *)
(***************************************************************************)
EXTENDS Naturals

CONSTANTS Pids, Durations, BucketSize, MaxBuckets

VARIABLES waiting, hist

Slot(t) ==
  IF t < MaxBuckets * BucketSize THEN t \div BucketSize ELSE MaxBuckets - 1

Init ==
  /\ waiting = [p \in {} |-> 0]
  /\ hist = [b \in 0 .. MaxBuckets - 1 |-> 0]

(* The waiting times of the tasks in S, d units later. *)
Later(S, d) == [p \in S |-> waiting[p] + d]

(* d units pass and a task is woken; its wait starts. *)
WakeUp(p, d) ==
  /\ p \notin DOMAIN waiting
  /\ waiting' = [q \in DOMAIN waiting \cup {p} |->
                   IF q = p THEN 0 ELSE waiting[q] + d]
  /\ UNCHANGED hist

(* d units pass and a waiting task is dispatched: one sample. *)
Dispatch(p, d) ==
  /\ p \in DOMAIN waiting
  /\ hist' = [hist EXCEPT ![Slot(waiting[p] + d)] = @ + 1]
  /\ waiting' = Later(DOMAIN waiting \ {p}, d)

(* d units pass and something else happens. *)
Pass(d) ==
  /\ waiting' = Later(DOMAIN waiting, d)
  /\ UNCHANGED hist

Next ==
  \E d \in Durations :
    \/ \E p \in Pids : WakeUp(p, d) \/ Dispatch(p, d)
    \/ Pass(d)

Spec == Init /\ [][Next]_<<waiting, hist>>

==============================================================================
