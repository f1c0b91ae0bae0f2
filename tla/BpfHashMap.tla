----------------------------- MODULE BpfHashMap -----------------------------
(***************************************************************************)
(* The BPF_MAP_TYPE_HASH map as schedlab.bpf.c uses it: a partial function *)
(* from keys to values with room for MAX_PIDS keys.  This is the kernel's  *)
(* code, modelled from the calls the program makes.  Every call is atomic  *)
(* for its key, and the program ignores the result of every update, so an  *)
(* update that finds the map full returns the map as it was.               *)
(***************************************************************************)
EXTENDS Naturals, FiniteSets

CONSTANT
  MAX_PIDS    \* max_entries of the two hash maps, schedlab.h

ASSUME MaxPidsAssumption == MAX_PIDS \in Nat \ {0}

EmptyMap == [k \in {} |-> 0]

Full(m) == Cardinality(DOMAIN m) >= MAX_PIDS

Put(m, key, value) ==
  [k \in DOMAIN m \cup {key} |-> IF k = key THEN value ELSE m[k]]

(* bpf_map_update_elem with BPF_ANY: insert or overwrite. *)
UpdateAny(m, key, value) ==
  IF key \in DOMAIN m \/ ~Full(m) THEN Put(m, key, value) ELSE m

(* bpf_map_update_elem with BPF_NOEXIST: insert only. *)
UpdateNoExist(m, key, value) ==
  IF key \in DOMAIN m \/ Full(m) THEN m ELSE Put(m, key, value)

(* bpf_map_delete_elem; deleting an absent key changes nothing. *)
Delete(m, key) == [k \in DOMAIN m \ {key} |-> m[k]]

=============================================================================
