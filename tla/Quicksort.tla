------------------------------ MODULE Quicksort ------------------------------
(***************************************************************************)
(* ch02-quicksort: main.c reads integers into a global array, sorts them   *)
(* with quicksort.c and writes them out.                                   *)
(*                                                                         *)
(* calls holds the calls of quicksort() that are still to be entered, the  *)
(* next one first, each with its depth on the stack, of which there is     *)
(* only so much.  Indices are those of the C array.                        *)
(***************************************************************************)
EXTENDS Integers, Sequences, SequencesExt, Functions, Bags

CONSTANTS
  Ints,           \* integers that occur in the input
  Junk,           \* a token %d does not convert
  MaxTokens,      \* bound: tokens of the input
  MAX_SIZE,
  StackDepth,     \* nested calls the stack has room for
  TailCall        \* the compiler makes the second call a jump, as gcc -O2 does

SizeAssumption ==
  /\ Ints \subseteq Int
  /\ Junk \notin Ints
  /\ MaxTokens \in Nat
  /\ MAX_SIZE \in Nat \ {0}
  /\ StackDepth \in Nat
  /\ TailCall \in BOOLEAN

VARIABLES
  file,           \* the input, and how much of it is read
  n, data,        \* the array and how much of it is used
  pc,             \* "open", "read", "call", "partition" or "exit"
  calls,
  low, high, depth, i, j,
  status, output  \* exit status, and the file written

input  == <<file, n>>
ranges == <<calls, low, high, depth, i, j>>
result == <<status, output>>
vars   == <<input, data, pc, ranges, result>>

------------------------------------------------------------------------------
(* Inputs of up to MaxTokens tokens: every one for TLC. *)
Init ==
  /\ file \in BoundedSeq(Ints \cup {Junk}, MaxTokens)
  /\ n = 0
  /\ data = [k \in 0 .. MAX_SIZE - 1 |-> 0]
  /\ pc = "open"
  /\ calls = <<>>
  /\ low = 0
  /\ high = 0
  /\ depth = 0
  /\ i = 0
  /\ j = 0
  /\ status = -1
  /\ output = <<>>

Exit(s) == pc' = "exit" /\ status' = s

(* fopen of the input. *)
Open ==
  /\ pc = "open"
  /\ \/ Exit(1)
     \/ pc' = "read" /\ UNCHANGED status
  /\ UNCHANGED <<input, data, ranges, output>>

(* What fscanf is about to convert, unless data is full. *)
MoreInput == n < Len(file) /\ file[n + 1] # Junk

Read ==
  /\ pc = "read"
  /\ MoreInput
  /\ n < MAX_SIZE
  /\ data' = [data EXCEPT ![n] = file[n + 1]]
  /\ n' = n + 1
  /\ UNCHANGED <<file, pc, ranges, result>>

(* A token that is no number ends the input as its end does. *)
EndRead ==
  /\ pc = "read"
  /\ ~MoreInput \/ n = MAX_SIZE
  /\ IF n = 0 THEN Exit(1) /\ UNCHANGED calls
     ELSE /\ pc' = "call"
          /\ calls' = <<[low |-> 0, high |-> n - 1, depth |-> 1]>>
          /\ UNCHANGED status
  /\ UNCHANGED <<input, data, low, high, depth, i, j, output>>

------------------------------------------------------------------------------
(* quicksort(arr, low, high). *)

Call ==
  /\ pc = "call"
  /\ calls # <<>>
  /\ LET c == Head(calls) IN
     /\ c.depth <= StackDepth
     /\ IF c.low < c.high
        THEN /\ low' = c.low
             /\ high' = c.high
             /\ depth' = c.depth
             /\ i' = c.low + 1
             /\ j' = c.high
             /\ pc' = "partition"
        ELSE UNCHANGED <<low, high, depth, i, j, pc>>
  /\ calls' = Tail(calls)
  /\ UNCHANGED <<input, data, result>>

(* The call's frame is beyond the stack: SIGSEGV, which a shell reports as *)
(* 139.                                                                    *)
Overflow ==
  /\ pc = "call"
  /\ calls # <<>>
  /\ Head(calls).depth > StackDepth
  /\ Exit(139)
  /\ UNCHANGED <<input, data, ranges, output>>

(* No swap of the loop of partition() touches low: the pivot stays there. *)
pivot == data[low]

(* The conditions of its two inner loops. *)
BelowPivot == i <= high /\ data[i] < pivot

AbovePivot == j >= low + 1 /\ data[j] > pivot

ScanUp ==
  /\ pc = "partition"
  /\ BelowPivot
  /\ i' = i + 1
  /\ UNCHANGED <<input, data, pc, calls, low, high, depth, j, result>>

ScanDown ==
  /\ pc = "partition"
  /\ ~BelowPivot
  /\ AbovePivot
  /\ j' = j - 1
  /\ UNCHANGED <<input, data, pc, calls, low, high, depth, i, result>>

swap(a, b) == data' = [data EXCEPT ![a] = data[b], ![b] = data[a]]

(* Bug: i and j stay at the elements swapped. *)
SwapStays ==
  /\ pc = "partition"
  /\ ~BelowPivot /\ ~AbovePivot
  /\ i < j
  /\ swap(i, j)
  /\ UNCHANGED <<input, pc, ranges, result>>

Swap ==
  /\ pc = "partition"
  /\ ~BelowPivot /\ ~AbovePivot
  /\ i < j
  /\ swap(i, j)
  /\ i' = i + 1
  /\ j' = j - 1
  /\ UNCHANGED <<input, pc, calls, low, high, depth, result>>

(* What quicksort() calls once partition() has returned p. *)
Around(p) ==
  <<[low |-> low, high |-> p - 1, depth |-> depth + 1],
    [low |-> p + 1, high |-> high, depth |-> IF TailCall THEN depth ELSE depth + 1]>>

(* Bug: the pivot goes to where i stopped. *)
PlacePivotAtI ==
  /\ pc = "partition"
  /\ ~BelowPivot /\ ~AbovePivot
  /\ i >= j
  /\ LET p == IF i > high THEN high ELSE i IN
       swap(low, p) /\ calls' = Around(p) \o calls
  /\ pc' = "call"
  /\ UNCHANGED <<input, low, high, depth, i, j, result>>

PlacePivot ==
  /\ pc = "partition"
  /\ ~BelowPivot /\ ~AbovePivot
  /\ i >= j
  /\ swap(low, j)
  /\ calls' = Around(j) \o calls
  /\ pc' = "call"
  /\ UNCHANGED <<input, low, high, depth, i, j, result>>

------------------------------------------------------------------------------
(* The output file, if it can be created. *)
WriteOutput ==
  /\ pc = "call"
  /\ calls = <<>>
  /\ \/ Exit(1) /\ UNCHANGED output
     \/ Exit(0) /\ output' = [k \in 1 .. n |-> data[k - 1]]
  /\ UNCHANGED <<input, data, ranges>>

Next ==
  \/ Open \/ Read \/ EndRead
  \/ Call \/ Overflow \/ ScanUp \/ ScanDown \/ Swap \/ PlacePivot
  \/ WriteOutput

(* The process gets CPU time. *)
Spec == Init /\ [][Next]_vars /\ WF_vars(Next)

------------------------------------------------------------------------------
(* Properties. *)

(* What main() can have read: the numbers before the first other token, as *)
(* many as the array holds.                                                *)
Wanted ==
  LET good == SelectInSeq(Append(file, Junk), LAMBDA t : t = Junk) - 1
  IN  SubSeq(file, 1, IF good < MAX_SIZE THEN good ELSE MAX_SIZE)

Sorting == pc \in {"call", "partition"}

Pending == {calls[k].low .. calls[k].high : k \in DOMAIN calls}
             \cup (IF pc = "partition" THEN {low .. high} ELSE {})

(* While the array is sorted, the ranges still to be sorted do not overlap *)
(* and stand as wholes in their places: of two elements that are not in    *)
(* one range the earlier is the smaller.  partition() keeps that although  *)
(* it moves elements equal to the pivot to both sides.                     *)
RangesInPlace ==
  Sorting =>
    /\ \A A, B \in Pending : A = B \/ A \cap B = {}
    /\ \A a, b \in 0 .. n - 1 :
         a < b /\ (\A R \in Pending : {a, b} \cap R # {a, b}) => data[a] <= data[b]

(* So it comes out sorted: success means that all that could be read was   *)
(* written in ascending order, each value as often as it was read.  The    *)
(* stack is not used up by fewer numbers than there is room for calls.     *)
SortsInput ==
  /\ RangesInPlace
  /\ status = 0 => /\ ToBag(output) = ToBag(Wanted)
                   /\ \A a, b \in DOMAIN output : a < b => output[a] <= output[b]
  /\ status = 139 => n > StackDepth

(* The program ends on every input, sorted ones and equal elements too:    *)
(* with what it read sorted, whether or not that can be written, or out of *)
(* stack.                                                                  *)
SortEnds ==
  <>(/\ pc = "exit"
     /\ \/ status = 139
        \/ \A a, b \in 0 .. n - 1 : a < b => data[a] <= data[b])

==============================================================================
