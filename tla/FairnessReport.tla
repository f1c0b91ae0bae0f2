--------------------------- MODULE FairnessReport ---------------------------
(***************************************************************************)
(* run_fairness_mode of schedlab_user.c after its timed loop: it walks     *)
(* task_stats_map with bpf_map_get_next_key, starting from key 0, copies   *)
(* one record after the other and prints a row for each, while the         *)
(* handlers go on inserting records and updating them.                     *)
(*                                                                         *)
(* order holds the keys of the map in the order the kernel walks them.     *)
(* The hash of a new key decides its place, so it may be any.  A handler   *)
(* adds a slice with two separate writes, and the copy of a record reads   *)
(* its fields separately too.                                              *)
(***************************************************************************)
EXTENDS Integers, Sequences, SequencesExt, Functions

CONSTANTS
  Pids,           \* pids that fire tracepoints, 0 (idle) among them
  MAX_PIDS,
  MaxSlices       \* bound: slices a task completes

WalkAssumption ==
  /\ Pids \subseteq Nat
  /\ IsFiniteSet(Pids)
  /\ MAX_PIDS \in Nat \ {0}
  /\ MaxSlices \in Nat

VARIABLES
  order, task_stats,      \* task_stats_map
  writing,                \* pids whose handler has added run time, not yet the switch
  pc,                     \* "next", "copy" or "done"
  key, next_key,
  stats, copied,          \* the record being copied, and the fields done
  rows,                   \* the rows printed
  atStart                 \* history: task_stats when the walk began

kernel == <<order, task_stats, writing>>
walk   == <<pc, key, next_key, stats, copied, rows>>
vars   == <<kernel, walk, atStart>>

Fields == {"run_time_ns", "switches", "wakeups"}

Record == [run_time_ns : Nat, switches : Nat, wakeups : Nat]

NoRecord == [run_time_ns |-> 0, switches |-> 0, wakeups |-> 0]

------------------------------------------------------------------------------
(* The handlers. *)

(* Bug: the idle task is traced. *)
TraceAll(pid) == TRUE

should_trace(pid) == pid # 0

(* handle_sched_wakeup or _new finds no record of p and room for one. *)
Insert(p) ==
  /\ should_trace(p)
  /\ p \notin DOMAIN task_stats
  /\ Len(order) < MAX_PIDS
  /\ \E n \in 1 .. Len(order) + 1 : order' = InsertAt(order, n, p)
  /\ task_stats' = [q \in DOMAIN task_stats \cup {p} |->
                      IF q = p THEN [NoRecord EXCEPT !.wakeups = 1]
                      ELSE task_stats[q]]
  /\ UNCHANGED <<writing, walk, atStart>>

(* handle_sched_switch accounts a slice of p, one time unit long. *)
AddRunTime(p) ==
  /\ p \in DOMAIN task_stats
  /\ p \notin writing
  /\ task_stats[p].switches < MaxSlices
  /\ task_stats' = [task_stats EXCEPT ![p].run_time_ns = @ + 1]
  /\ writing' = writing \cup {p}
  /\ UNCHANGED <<order, walk, atStart>>

AddSwitch(p) ==
  /\ p \in writing
  /\ task_stats' = [task_stats EXCEPT ![p].switches = @ + 1]
  /\ writing' = writing \ {p}
  /\ UNCHANGED <<order, walk, atStart>>

(* handle_sched_process_exit leaves task_stats_map alone, so a key once in *)
(* the map stays, and no action deletes one.                               *)

------------------------------------------------------------------------------
(* The walk. *)

(* bpf_map_get_next_key: the key after k, the first key if k is not in the *)
(* map, and none after the last.                                           *)
Following(k) ==
  SubSeq(order, SelectInSeq(order, LAMBDA e : e = k) + 1, Len(order))

GetNextKey ==
  /\ pc = "next"
  /\ Following(key) # <<>>
  /\ next_key' = Head(Following(key))
  /\ pc' = "copy"
  /\ UNCHANGED <<kernel, key, stats, copied, rows, atStart>>

EndOfMap ==
  /\ pc = "next"
  /\ Following(key) = <<>>
  /\ pc' = "done"
  /\ UNCHANGED <<kernel, key, next_key, stats, copied, rows, atStart>>

(* bpf_map_lookup_elem copies the fields one after the other, in whatever  *)
(* order the kernel's memory copy takes them.                              *)
CopyField(f) ==
  /\ pc = "copy"
  /\ f \notin copied
  /\ stats' = [stats EXCEPT ![f] = task_stats[next_key][f]]
  /\ copied' = copied \cup {f}
  /\ UNCHANGED <<kernel, pc, key, next_key, rows, atStart>>

(* A row is printed if there is anything in it, and the walk moves on. *)
PrintRow ==
  /\ pc = "copy"
  /\ copied = Fields
  /\ rows' = IF stats.switches > 0 \/ stats.wakeups > 0
             THEN Append(rows, [pid |-> next_key, stats |-> stats])
             ELSE rows
  /\ copied' = {}
  /\ key' = next_key
  /\ pc' = "next"
  /\ UNCHANGED <<kernel, next_key, stats, atStart>>

Init ==
  /\ \E S \in SUBSET {p \in Pids : should_trace(p)} :
       /\ Cardinality(S) <= MAX_PIDS
       /\ order \in SetToSeqs(S)
       /\ task_stats = [p \in S |-> [NoRecord EXCEPT !.wakeups = 1]]
  /\ writing = {}
  /\ pc = "next"
  /\ key = 0
  /\ next_key = 0
  /\ stats = NoRecord
  /\ copied = {}
  /\ rows = <<>>
  /\ atStart = task_stats

Walk ==
  \/ GetNextKey
  \/ EndOfMap
  \/ \E f \in Fields : CopyField(f)
  \/ PrintRow

Next ==
  \/ \E p \in Pids : Insert(p)
  \/ \E p \in Pids : AddRunTime(p)
  \/ \E p \in Pids : AddSwitch(p)
  \/ Walk

(* The user process gets CPU time. *)
Spec == Init /\ [][Next]_vars /\ WF_vars(Walk)

------------------------------------------------------------------------------
(* Properties. *)

Listed == {rows[n].pid : n \in DOMAIN rows}

(* No pid is listed twice, although records are inserted during the walk   *)
(* and the walk restarts when its key is gone: no key ever goes.  And every *)
(* pid that had a record when the walk began is listed: key 0, where the   *)
(* walk starts, is never in the map, so it starts with the first key.  A   *)
(* row may mix moments, but each of its fields is a value that field of    *)
(* that pid had during the walk, never another pid's.                      *)
ListedExactlyOnce ==
  /\ \A m, n \in DOMAIN rows : rows[m].pid = rows[n].pid => m = n
  /\ pc = "done" => DOMAIN atStart \subseteq Listed
  /\ \A n \in DOMAIN rows :
       LET row == rows[n]
           old == IF row.pid \in DOMAIN atStart THEN atStart[row.pid] ELSE NoRecord
       IN  \A f \in Fields : row.stats[f] \in old[f] .. task_stats[row.pid][f]

(* The walk ends, although the handlers do not wait for it. *)
WalkEnds == <>(pc = "done")

==============================================================================
