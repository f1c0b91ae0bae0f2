---------------------------- MODULE LatencyReport ----------------------------
(***************************************************************************)
(* run_latency_mode of schedlab_user.c after its timed loop: it copies the *)
(* latency histogram out of the kernel one bucket at a time, while the     *)
(* handlers keep adding samples, scans the copy for the percentiles, and   *)
(* writes the copy to a CSV file that scripts/percentiles.py and           *)
(* scripts/analyze.py read.                                                *)
(*                                                                         *)
(* Latencies are in nanoseconds here and in the CSV rows as well: printing *)
(* a multiple of a microsecond with two decimals loses nothing.            *)
(***************************************************************************)
EXTENDS Integers, Functions, FiniteSetsExt

CONSTANTS
  BucketSize,     \* LATENCY_BUCKET_SIZE_NS
  MaxBuckets,     \* MAX_LATENCY_BUCKETS
  Measured,       \* counts a bucket may hold when the timed loop ends
  MaxSamples      \* bound: samples the handlers record after that

ReportAssumption ==
  /\ BucketSize \in Nat \ {0}
  /\ MaxBuckets \in Nat \ {0}
  /\ Measured \subseteq Nat
  /\ MaxSamples \in Nat

VARIABLES
  latency_hist,   \* the kernel's histogram
  pc,             \* "read", "scan", "empty" or "printed"
  i,              \* the loop variable of the read and of the scan
  histogram, total, sum,
  cumulative, percentile, max_latency,
  atRead          \* history: latency_hist when the read began

kernel == <<latency_hist>>
copy   == <<histogram, total, sum>>
result == <<cumulative, percentile, max_latency>>
vars   == <<kernel, pc, i, copy, result, atRead>>

Buckets == 0 .. MaxBuckets - 1

Percents == {50, 90, 99}

------------------------------------------------------------------------------
Init ==
  /\ latency_hist \in [Buckets -> Measured]
  /\ pc = "read"
  /\ i = 0
  /\ histogram = [b \in Buckets |-> 0]
  /\ total = 0
  /\ sum = 0
  /\ cumulative = 0
  /\ percentile = [q \in Percents |-> 0]
  /\ max_latency = 0
  /\ atRead = latency_hist

(* A handler's record_latency, at any moment. *)
Record(b) ==
  /\ SumFunction(latency_hist) < SumFunction(atRead) + MaxSamples
  /\ latency_hist' = [latency_hist EXCEPT ![b] = @ + 1]
  /\ UNCHANGED <<pc, i, copy, result, atRead>>

ReadBucket ==
  /\ pc = "read"
  /\ i < MaxBuckets
  /\ histogram' = [histogram EXCEPT ![i] = latency_hist[i]]
  /\ total' = total + latency_hist[i]
  /\ sum' = sum + latency_hist[i] * i * BucketSize
  /\ i' = i + 1
  /\ UNCHANGED <<kernel, pc, result, atRead>>

EndRead ==
  /\ pc = "read"
  /\ i = MaxBuckets
  /\ pc' = IF total = 0 THEN "empty" ELSE "scan"
  /\ i' = 0
  /\ UNCHANGED <<kernel, copy, result, atRead>>

(* p50_target, p90_target, p99_target: an integer division. *)
Target(q) == (total * q) \div 100

(* Scan with a test of when a percentile is reached. *)
Scan(Reached(_)) ==
  LET latency_ns == (i + 1) * BucketSize IN
  /\ pc = "scan"
  /\ i < MaxBuckets
  /\ cumulative' = cumulative + histogram[i]
  /\ max_latency' = IF histogram[i] > 0 THEN latency_ns ELSE max_latency
  /\ percentile' = [q \in Percents |->
                      IF Reached(q) THEN latency_ns ELSE percentile[q]]
  /\ i' = i + 1
  /\ UNCHANGED <<kernel, pc, copy, atRead>>

(* Bugs: a percentile is set again; its target must be exceeded. *)
ScanAgain == Scan(LAMBDA q : cumulative' >= Target(q))

ScanBeyond == Scan(LAMBDA q : percentile[q] = 0 /\ cumulative' > Target(q))

ScanBucket == Scan(LAMBDA q : percentile[q] = 0 /\ cumulative' >= Target(q))

PrintReport ==
  /\ pc = "scan"
  /\ i = MaxBuckets
  /\ pc' = "printed"
  /\ UNCHANGED <<kernel, i, copy, result, atRead>>

Next ==
  \/ \E b \in Buckets : Record(b)
  \/ ReadBucket
  \/ EndRead
  \/ ScanBucket
  \/ PrintReport

Spec == Init /\ [][Next]_vars

------------------------------------------------------------------------------
(* What the scripts compute from the CSV, which has a row for each bucket  *)
(* with samples: its lower edge and its count.                             *)

Rows == {b \in Buckets : histogram[b] > 0}

(* The running sums of the buckets' counts, or of anything else they hold. *)
cumsum(f) ==
  LET sums[b \in Buckets] == IF b = 0 THEN f[b] ELSE sums[b - 1] + f[b]
  IN  sums

UpTo(b) == cumsum(histogram)[b]

(* percentiles.py: the first row whose cumulative count reaches the exact  *)
(* target, or the last row.                                                *)
percentile_from_histogram(q) ==
  LET reached == {b \in Rows : 100 * UpTo(b) >= total * q}
  IN  (IF reached = {} THEN Max(Rows) ELSE Min(reached)) * BucketSize

(* analyze.py: the row behind all those whose cumulative count is below    *)
(* the target (numpy's searchsorted), or the last row.                     *)
compute_percentiles(q) ==
  LET after == Rows \ {b \in Rows : 100 * UpTo(b) < total * q}
  IN  (IF after = {} THEN Max(Rows) ELSE Min(after)) * BucketSize

(* The numerator of the mean that both print; the denominator is total. *)
weighted_sum ==
  cumsum([b \in Buckets |-> b * BucketSize * histogram[b]])[MaxBuckets - 1]

(* The least and the greatest of the samples analyze.py takes the counts   *)
(* for; it divides its p99 by its p50, which may be 0.                     *)
Fastest == Min(Rows) * BucketSize
Slowest == Max(Rows) * BucketSize

------------------------------------------------------------------------------
(* Properties. *)

Printed == pc = "printed"

(* The report is consistent with itself, whatever the handlers did while   *)
(* the histogram was read: p50 <= p90 <= p99 <= max, none is missing, and  *)
(* the average is no larger than the maximum.  The copy is not a snapshot  *)
(* of any one moment, but every bucket of it is a count that bucket held   *)
(* during the read, and total is the copy's.                               *)
Ordered ==
  /\ pc \in {"scan", "printed"} =>
       /\ \A b \in Buckets : atRead[b] <= histogram[b]
                             /\ histogram[b] <= latency_hist[b]
       /\ total = UpTo(MaxBuckets - 1)
  /\ Printed => /\ 0 < percentile[50]
                /\ percentile[50] <= percentile[90]
                /\ percentile[90] <= percentile[99]
                /\ percentile[99] <= max_latency
                /\ sum <= total * max_latency

(* The two scripts agree with each other, and on the mean and the extremes *)
(* with schedlab.  schedlab and the scripts name the same bucket, by its   *)
(* upper and by its lower edge, whenever the target is a whole number;     *)
(* otherwise schedlab may name an earlier one, never a later, and         *)
(* truncating the target costs it less than one sample: with one more at   *)
(* or below the reported percentile, the claim of the name would hold.     *)
ToolsAgree ==
  Printed =>
    /\ weighted_sum = sum
    /\ Slowest + BucketSize = max_latency
    /\ \A q \in Percents :
         LET here   == percentile[q] - BucketSize
             script == percentile_from_histogram(q)
         IN  /\ compute_percentiles(q) = script
             /\ Fastest <= script /\ script <= Slowest
             /\ here <= script
             /\ (total * q) % 100 = 0 /\ Target(q) > 0 => here = script
             /\ 100 * (UpTo(percentile[q] \div BucketSize - 1) + 1) > q * total

------------------------------------------------------------------------------
(* "p99 means the 99th-percentile latency: 99% of requests finished no     *)
(* slower than this value" (chapter 1).                                    *)
P99Covers ==
  Printed => 100 * UpTo(percentile[99] \div BucketSize - 1) >= 99 * total

==============================================================================
