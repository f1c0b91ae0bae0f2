--------------------------- MODULE FairnessScripts ---------------------------
(***************************************************************************)
(* The two scripts of ch05-schedlab that judge the CSV of the fairness     *)
(* mode: scripts/fairness.py, and analyze_fairness in scripts/analyze.py.  *)
(*                                                                         *)
(* A row may break off, or have a column that is no number.  Times are in  *)
(* units of which Ms make a millisecond.  A coefficient of variation is    *)
(* compared with a threshold by its square, which is a fraction of         *)
(* integers.                                                               *)
(***************************************************************************)
EXTENDS Integers, Sequences, SequencesExt, FiniteSets, FiniteSetsExt

CONSTANTS
  Rows,           \* rows of a file, below the header: how many of the five columns
                  \* there are, how many from the first on are numbers, and the times
  Ms,
  MaxRows         \* bound: rows of a file

FairnessAssumption ==
  /\ Rows \subseteq [columns : 0 .. 5, good : 0 .. 5, run : Nat, wait : Nat]
  /\ \A r \in Rows : r.good <= r.columns
  /\ Ms \in Nat \ {0}
  /\ MaxRows \in Nat

VARIABLES
  rows,           \* the rows of the file
  pc,             \* "read" or "done"
  fairness,       \* what fairness.py says in the end
  ratio,          \* the two run times it prints the ratio of
  analyze         \* what analyze.py says in the end

said == <<fairness, ratio, analyze>>
vars == <<rows, pc, said>>

(* What a script may say, the verdicts in order. *)
Verdicts == <<"very fair", "reasonably fair", "unfair">>

Others == {"nothing", "no data", "none significant", "exception"}

------------------------------------------------------------------------------
(* Tasks are named by the number of their row. *)

(* fairness.py skips a row at the first column that is no number, but a    *)
(* column that is missing is None, and int(None) ends the script.          *)
parsed == {k \in DOMAIN rows : rows[k].good = 5}

missing == {k \in DOMAIN rows : rows[k].good = rows[k].columns /\ rows[k].columns \in 1 .. 4}

(* analyze.py looks at rows of four columns or more, and at four of them;  *)
(* it ends with an exception at one that is no number.                     *)
looked_at == {k \in DOMAIN rows : rows[k].columns >= 4}

bad == {k \in looked_at : rows[k].good < 4}

significant(tasks) == {k \in tasks : rows[k].run > 1 * Ms}

Total(S, Val(_)) == SumFunction([k \in S |-> Val(rows[k].run)])

total(S) == Total(S, LAMBDA run : run)

(* The sum of the squared deviations from the mean, as often as there are  *)
(* tasks.                                                                  *)
spread(S) == Cardinality(S) * Total(S, LAMBDA run : run * run) - total(S) * total(S)

(* The verdict on a coefficient of variation whose square is num / den. *)
Verdict(num, den) ==
  IF 100 * num < den THEN "very fair"
  ELSE IF 100 * num < 9 * den THEN "reasonably fair"
  ELSE "unfair"

(* fairness.py: the variance of a sample; 0 for one task. *)
SampleVerdict(S) ==
  LET n == Cardinality(S) IN
  IF n > 1 THEN Verdict(n * spread(S), (n - 1) * total(S) * total(S)) ELSE "very fair"

(* analyze.py: numpy's variance of a population. *)
PopulationVerdict(S) == Verdict(spread(S), total(S) * total(S))

main ==
  IF missing # {} THEN "exception"
  ELSE IF parsed = {} THEN "no data"
  ELSE IF significant(parsed) = {} THEN "none significant"
  ELSE SampleVerdict(significant(parsed))

analyze_fairness ==
  IF bad # {} THEN "exception"
  ELSE IF significant(looked_at) = {} THEN "none significant"
  ELSE PopulationVerdict(significant(looked_at))

Greatest(S) == Max({rows[k].run : k \in S})
Least(S)    == Min({rows[k].run : k \in S})

------------------------------------------------------------------------------
Init ==
  /\ rows = <<>>
  /\ pc = "read"
  /\ fairness = "nothing"
  /\ ratio = <<>>
  /\ analyze = "nothing"

(* The file has another row. *)
Row(r) ==
  /\ pc = "read"
  /\ Len(rows) < MaxRows
  /\ rows' = Append(rows, r)
  /\ UNCHANGED <<pc, said>>

(* Both scripts have read it. *)
Judge ==
  LET tasks == significant(parsed) IN
  /\ pc = "read"
  /\ pc' = "done"
  /\ fairness' = main
  /\ ratio' = IF missing = {} /\ Cardinality(tasks) = 2
              THEN <<Greatest(tasks), Least(tasks)>> ELSE <<>>
  /\ analyze' = analyze_fairness
  /\ UNCHANGED rows

Next == (\E r \in Rows : Row(r)) \/ Judge

Spec == Init /\ [][Next]_vars

------------------------------------------------------------------------------
(* Properties. *)

(* The scripts divide by different numbers and read different columns.  As *)
(* long as they count the same tasks, they disagree by one word at most,   *)
(* fairness.py being the stricter, unless a row that breaks off has ended  *)
(* it with an exception; and neither is silent where the other has a       *)
(* verdict.  Whatever the file, no script calls equal run times anything   *)
(* but very fair, and the ratio is of two run times above the limit.       *)
VerdictsAgree ==
  LET strict  == SelectInSeq(Verdicts, LAMBDA v : v = fairness)
      lenient == SelectInSeq(Verdicts, LAMBDA v : v = analyze)
      tasks   == significant(parsed)
      tasks_  == significant(looked_at)
  IN  /\ tasks = tasks_ =>
           /\ lenient > 0 => fairness = "exception" \/ strict \in {lenient, lenient + 1}
           /\ strict > 0 => analyze = "exception" \/ lenient > 0
      /\ strict > 0 /\ Greatest(tasks) = Least(tasks) => strict = 1
      /\ lenient > 0 /\ Greatest(tasks_) = Least(tasks_) => lenient = 1
      /\ ratio # <<>> => ratio[1] >= ratio[2] /\ ratio[2] > Ms

==============================================================================
