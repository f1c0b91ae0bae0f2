--------------------------- MODULE MCSchedLabUser ---------------------------
(***************************************************************************)
(* schedlab_user.c in the parts it is modelled in, each on its own: the    *)
(* first state says which.  main and the three modes until they are over,  *)
(* the read and the scan of the latency mode, the walk of the fairness     *)
(* mode, and the events of the stream mode.                                *)
(***************************************************************************)
EXTENDS Integers, Sequences

CONSTANTS
  (* SchedLabMain *)   Modes, Durations, MainSlots, MaxClock,
  (* LatencyReport *)  BucketSize, MaxBuckets, Measured, MaxSamples,
  (* FairnessReport *) Pids, MAX_PIDS, MaxSlices,
  (* EventStream *)    CPUs, RingSlots, MaxEvents

VARIABLES
  part,
  (* SchedLabMain *)   pc, mode, duration, running, handling, err, start, skel, status,
                       clock, phase, alarm, asleep, backlog, stopped,
  (* LatencyReport *)  latency_hist, scan, i, histogram, total, sum,
                       cumulative, percentile, max_latency, atRead,
  (* FairnessReport *) order, task_stats, writing, walk, key, next_key, stats, copied,
                       rows, atStart,
  (* EventStream *)    handlers, now, reserved, submitted, dropped, consumer, printed,
                       poll, streaming

MCModes == {"stream", "latency", "fairness", "typo"}

Main     == INSTANCE SchedLabMain WITH RingSlots <- MainSlots
Latency  == INSTANCE LatencyReport WITH pc <- scan
Fairness == INSTANCE FairnessReport WITH pc <- walk
Stream   == INSTANCE EventStream WITH pc <- poll, running <- streaming

ASSUME UserAssumption ==
  /\ Main!MainAssumption
  /\ Latency!ReportAssumption
  /\ Fairness!WalkAssumption
  /\ Stream!StreamAssumption

main     == <<pc, mode, duration, running, handling, err, start, skel, status,
              clock, phase, alarm, asleep, backlog, stopped>>
latency  == <<latency_hist, scan, i, histogram, total, sum, cumulative, percentile,
              max_latency, atRead>>
fairness == <<order, task_stats, writing, walk, key, next_key, stats, copied, rows, atStart>>
stream   == <<handlers, now, reserved, submitted, dropped, consumer, printed, poll, streaming>>
vars     == <<part, main, latency, fairness, stream>>

(* The parts that are not looked at stay in one initial state. *)
Init ==
  /\ part \in {"main", "latency", "fairness", "stream"}
  /\ IF part = "main" THEN TRUE ELSE mode = "stream" /\ duration = 0 /\ phase = 0
  /\ IF part = "latency" THEN TRUE ELSE latency_hist = [b \in Latency!Buckets |-> 0]
  /\ IF part = "fairness" THEN TRUE ELSE order = <<>>
  /\ Main!Init /\ Latency!Init /\ Fairness!Init /\ Stream!Init

MainDoes(Step) ==
  part = "main" /\ Step /\ UNCHANGED <<part, latency, fairness, stream>>

LatencyDoes(Step) ==
  part = "latency" /\ Step /\ UNCHANGED <<part, main, fairness, stream>>

FairnessDoes(Step) ==
  part = "fairness" /\ Step /\ UNCHANGED <<part, main, latency, stream>>

StreamDoes(Step) ==
  part = "stream" /\ Step /\ UNCHANGED <<part, main, latency, fairness>>

Next ==
  \/ MainDoes(Main!Next)
  \/ LatencyDoes(Latency!Next)
  \/ FairnessDoes(Fairness!Next)
  \/ StreamDoes(Stream!Next)

(* As in the modules. *)
Spec ==
  /\ Init /\ [][Next]_vars
  /\ WF_vars(MainDoes(Main!Program))
  /\ WF_vars(MainDoes(Main!Tick))
  /\ WF_vars(MainDoes(Main!SigAlarm))
  /\ WF_vars(FairnessDoes(Fairness!Walk))
  /\ WF_vars(StreamDoes(Stream!Consumer))
  /\ \A c \in CPUs : WF_vars(StreamDoes(Stream!Handler(c)))

------------------------------------------------------------------------------
(* The properties of the parts, stated with each of them. *)

(* main and the loops of the modes. *)
RunsForDuration == Main!RunsForDuration

(* run_latency_mode. *)
Ordered         == Latency!Ordered
ToolsAgree      == Latency!ToolsAgree

(* run_fairness_mode. *)
ListedExactlyOnce == Fairness!ListedExactlyOnce

(* Both end: the program, and its walk over the map. *)
ReportsEnd ==
  /\ part = "main" => Main!AlwaysEnds
  /\ part = "fairness" => Fairness!WalkEnds

(* run_stream_mode and the handlers. *)
StreamInOrder == Stream!StreamInOrder
EventPrinted  == part = "stream" => Stream!EventPrinted

=============================================================================
