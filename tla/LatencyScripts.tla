---------------------------- MODULE LatencyScripts ----------------------------
(***************************************************************************)
(* The scripts that turn logged latencies into percentiles: those of ch04  *)
(* and ch10, benchmark.py of ch12, the raw format of ch05's and            *)
(* latency_percentiles.py of the incident project, each given the same     *)
(* samples.                                                                *)
(*                                                                         *)
(* All of them sort the samples and look only at those at certain places,  *)
(* so a file is how often each value occurs in it and how many lines do    *)
(* not parse.  Percentiles are in thousandths, and an interpolated value   *)
(* is a number of thousandths.  The arithmetic is exact.                   *)
(***************************************************************************)
EXTENDS Integers, Functions, FiniteSets, FiniteSetsExt

CONSTANTS
  Values,         \* latencies
  Counts,         \* how often one may occur in a file
  JunkLines       \* how many lines may fail to parse

ScriptsAssumption ==
  /\ Values \subseteq Nat /\ Values # {} /\ IsFiniteSet(Values)
  /\ Counts \subseteq Nat
  /\ JunkLines \subseteq Nat

VARIABLES
  script,         \* "ch04", "ch05", "ch10", "ch12", "project"
  counts, junk,   \* the file
  outcome,        \* "none" yet, "printed", "no samples", "exception" or "nan"
  percentiles     \* what is printed

vars == <<script, counts, junk, outcome, percentiles>>

(* The percentiles each script prints. *)
Percents ==
  [ch04 |-> {500, 900, 990}, ch05 |-> {500, 900, 990, 999},
   ch10 |-> {500, 990, 999}, ch12 |-> {950, 990}, project |-> {500, 950, 990}]

------------------------------------------------------------------------------
n == SumFunction(counts)

UpTo(v) == SumFunctionOnSet(counts, {w \in Values : w <= v})

(* vals[k] of the samples sorted. *)
At(k) == Min({v \in Values : k < UpTo(v)})

(* Linear interpolation at k thousandths, as percentile, pct and pandas'   *)
(* quantile do it.                                                         *)
Between(k) ==
  LET f == k \div 1000
      d == k % 1000
  IN  IF d = 0 THEN 1000 * At(f) ELSE At(f) * (1000 - d) + At(f + 1) * d

percentile(p) == Between((n - 1) * p)

(* Bug: rounds to the sample before. *)
qLow(p) == 1000 * At(Max({0, (n * p) \div 1000 - 1}))

(* q of ch10. *)
q(p) == 1000 * At(Min({n - 1, (n * p) \div 1000}))

(* benchmark.py takes the maximum for a sample that is too small. *)
enough == [p \in {950, 990} |-> IF p = 950 THEN 20 ELSE 100]

ranked(p) == 1000 * (IF n > enough[p] THEN At((n * p) \div 1000) ELSE At(n - 1))

value(s, p) == CASE s = "ch10" -> q(p)
                 [] s = "ch12" -> ranked(p)
                 [] OTHER      -> percentile(p)

(* The scripts skip what is no number, except that of ch10 and pandas,     *)
(* which raise an exception.  Without samples pandas has percentiles that  *)
(* are no numbers, and the others say so.                                  *)
Read(s) ==
  IF junk > 0 /\ s \in {"ch10", "project"} THEN "exception"
  ELSE IF n > 0 THEN "printed"
  ELSE IF s = "project" THEN "nan"
  ELSE "no samples"

Init ==
  /\ script \in DOMAIN Percents
  /\ counts \in [Values -> Counts]
  /\ junk \in JunkLines
  /\ outcome = "none"
  /\ percentiles = <<>>

Main ==
  /\ outcome = "none"
  /\ outcome' = Read(script)
  /\ percentiles' = IF outcome' = "printed"
                    THEN [p \in Percents[script] |-> value(script, p)]
                    ELSE <<>>
  /\ UNCHANGED <<script, counts, junk>>

Next == Main

Spec == Init /\ [][Next]_vars

------------------------------------------------------------------------------
(* Properties. *)

(* The percentiles of a script are ordered and are latencies between the   *)
(* least and the greatest, and however they are computed the tail is not   *)
(* made smaller than by interpolation; the ones that pick a sample pick    *)
(* one that at least so many samples are no greater than.                  *)
TailNotHidden ==
  \A p \in DOMAIN percentiles :
    /\ \A r \in DOMAIN percentiles : p <= r => percentiles[p] <= percentiles[r]
    /\ percentiles[p] \in 1000 * At(0) .. 1000 * At(n - 1)
    /\ percentiles[p] >= percentile(p)
    /\ script \in {"ch10", "ch12"} =>
         1000 * UpTo(percentiles[p] \div 1000) >= p * n

==============================================================================
