--------------------------- MODULE ThrottleReport ---------------------------
(***************************************************************************)
(* ch07-k8s-resources: measure_throttling.sh, which reads the cumulative   *)
(* counters of a container's cpu.stat now and then, and the two summaries  *)
(* of what it collects: its own, and that of analyze_throttling.py.        *)
(*                                                                         *)
(* A container that is restarted counts from 0 again, and while it is not  *)
(* there a read fails and leaves no row.  A read that breaks off leaves a  *)
(* row of which the last fields are empty.  A row is a function whose      *)
(* domain are the fields that have a number.                               *)
(***************************************************************************)
EXTENDS Integers, Sequences, SequencesExt

CONSTANTS
  MaxPeriods,     \* bound: periods the kernel counts
  MaxSamples,     \* bound: rows of the file
  MaxRestarts     \* bound: restarts of the container

ThrottleAssumption == {MaxPeriods, MaxSamples, MaxRestarts} \subseteq Nat

VARIABLES
  stat,           \* cpu.stat: nr_periods, nr_throttled and throttled_usec, which
                  \* is counted in periods here
  csv,            \* the rows of the file
  pc,             \* "measure" or "done"
  restarts,       \* number of restarts
  passed, counted \* history: all that was counted so far, and since the first row

vars == <<stat, csv, pc, restarts, passed, counted>>

Fields == {"periods", "throttled", "usec"}

Zero == [f \in Fields |-> 0]

Init ==
  /\ stat = Zero
  /\ csv = <<>>
  /\ pc = "measure"
  /\ restarts = 0
  /\ passed = 0
  /\ counted = <<>>

------------------------------------------------------------------------------
(* The kernel and the container. *)

(* A period ends; one that was throttled for some of its time, or all.     *)
Period(throttled, usec) ==
  /\ passed < MaxPeriods
  /\ passed' = passed + 1
  /\ stat' = [periods |-> stat.periods + 1, throttled |-> stat.throttled + throttled,
              usec |-> stat.usec + usec]
  /\ UNCHANGED <<csv, pc, restarts, counted>>

Restart ==
  /\ restarts < MaxRestarts
  /\ restarts' = restarts + 1
  /\ stat' = Zero
  /\ UNCHANGED <<csv, pc, passed, counted>>

------------------------------------------------------------------------------
(* measure_throttling.sh *)

(* How far a read of cpu.stat may get: the fields stand in this order. *)
Reads == {{}, {"periods"}, {"periods", "throttled"}, Fields}

(* A read that gets nothing is a step that is not taken. *)
Sample(read) ==
  /\ pc = "measure"
  /\ Len(csv) < MaxSamples
  /\ csv' = Append(csv, [f \in read |-> stat[f]])
  /\ counted' = Append(counted, passed)
  /\ UNCHANGED <<stat, pc, restarts, passed>>

Measured ==
  /\ pc = "measure"
  /\ pc' = "done"
  /\ UNCHANGED <<stat, csv, restarts, passed, counted>>

Next ==
  \/ \E throttled, usec \in {0, 1} : usec <= throttled /\ Period(throttled, usec)
  \/ Restart
  \/ \E read \in Reads : Sample(read)
  \/ Measured

Spec == Init /\ [][Next]_vars

(* Its summary: the last row less the first, where a field that is empty   *)
(* counts as 0.                                                            *)
field(row, f) == IF f \in DOMAIN row THEN row[f] ELSE 0

DELTA(f) == field(Last(csv), f) - field(Head(csv), f)

------------------------------------------------------------------------------
(* analyze_throttling.py *)

(* A row and the one before it have a number for f. *)
both(f, k) == k > 1 /\ f \in DOMAIN csv[k] /\ f \in DOMAIN csv[k - 1]

(* Bug: the first row is taken for what was counted before the second. *)
diffFirst(f) ==
  [k \in DOMAIN csv |-> IF k = 1 THEN field(csv[k], f)
                        ELSE IF both(f, k) THEN csv[k][f] - csv[k - 1][f] ELSE 0]

(* diff().fillna(0) *)
diff(f) ==
  [k \in DOMAIN csv |-> IF both(f, k) THEN csv[k][f] - csv[k - 1][f] ELSE 0]

sum(column) == SumFunction(column)

(* A row's throttle_ratio, as numerator and denominator; and that of the   *)
(* whole.                                                                  *)
throttle_ratio(k) ==
  <<diff("throttled")[k], IF diff("periods")[k] = 0 THEN 1 ELSE diff("periods")[k]>>

overall_ratio ==
  IF sum(diff("periods")) > 0 THEN <<sum(diff("throttled")), sum(diff("periods"))>>
  ELSE <<0, 1>>

------------------------------------------------------------------------------
(* Properties. *)

Between0And1(ratio) == 0 <= ratio[1] /\ ratio[1] <= ratio[2]

(* The two summaries of one file agree on what they both report, if no row *)
(* misses it.  Unless the container was restarted, the script's periods    *)
(* are those the kernel counted between the first row and the last if      *)
(* these two have them, and the analysis', which leaves out what lies      *)
(* about an empty field, are no more than that and just that if no field   *)
(* is empty; however many reads failed in between.  No ratio leaves 0 to   *)
(* 1, and the overall one is between the least and the greatest of the     *)
(* rows.                                                                   *)
SummariesAgree ==
  pc = "done" /\ csv # <<>> =>
    LET has(f, k) == f \in DOMAIN csv[k]
        kernel    == Last(counted) - Head(counted)
    IN  /\ \A f \in {"periods", "throttled"} :
             (\A k \in DOMAIN csv : has(f, k)) => sum(diff(f)) = DELTA(f)
        /\ restarts = 0 =>
             /\ has("periods", 1) /\ has("periods", Len(csv)) => DELTA("periods") = kernel
             /\ sum(diff("periods")) <= kernel
             /\ (\A k \in DOMAIN csv : has("periods", k)) => sum(diff("periods")) = kernel
             /\ sum(diff("usec")) <= sum(diff("throttled"))
             /\ Between0And1(overall_ratio)
             /\ \A k \in DOMAIN csv : Between0And1(throttle_ratio(k))
             /\ overall_ratio[1] > 0 =>
                  LET rows == {k \in DOMAIN csv : diff("periods")[k] > 0}
                      Less(r, s) == r[1] * s[2] <= s[1] * r[2]
                  IN  \E j, k \in rows : /\ Less(throttle_ratio(j), overall_ratio)
                                         /\ Less(overall_ratio, throttle_ratio(k))

==============================================================================
