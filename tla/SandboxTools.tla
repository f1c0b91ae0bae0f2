---------------------------- MODULE SandboxTools ----------------------------
(***************************************************************************)
(* ch12-agent-sandbox/tools.py: calls of execute_tool by several sessions, *)
(* with the system calls their tools make on one directory.                *)
(*                                                                         *)
(* A call runs its tool in a process, which can be killed between any two  *)
(* system calls, or in the session itself.  Somebody else may remove files *)
(* of the directory.  A file is an inode, so that who has it open goes on  *)
(* with it when its name is removed; its data is a sequence of blocks, and *)
(* one system call reads or writes one block.                              *)
(***************************************************************************)
EXTENDS Integers, Sequences, SequencesExt, FiniteSets, FiniteSetsExt

CONSTANTS
  Calls,
  Names, Dir,         \* the files of the directory, and the directory itself
  Protected,          \* names whose stat fails with a PermissionError
  Inodes,             \* a name stands for the inode it has at first
  Workloads,          \* sets of calls that are made: call -> [tool, path, content]
  Blocks,             \* what a file is made of
  max_size,           \* of a file that is read or written, in blocks
  Contents,           \* of the files that are there at first
  MaxRemoved,         \* bound: files somebody else removes
  Absent

ASSUME FilesAssumption ==
  /\ Dir \notin Names /\ Names \subseteq Inodes
  /\ Names \subseteq Nat /\ IsFiniteSet(Names)    \* numbers in the order of the names
  /\ Absent \notin Inodes \cup Seq(Blocks \cup {"hole"})
  /\ Protected \subseteq Names
  /\ max_size \in Nat
  /\ MaxRemoved \in Nat
  /\ Contents \subseteq Seq(Blocks)
  /\ \A w \in Workloads :
       /\ DOMAIN w \subseteq Calls
       /\ \A c \in DOMAIN w : w[c].path \in Names \cup {Dir} /\ w[c].content \in Seq(Blocks)

VARIABLES
  use_subprocess,
  request,
  pc,                 \* where the tool of a call stands
  dir, files, data,   \* the directory is there; name -> inode; inode -> blocks
  handle, size, content, entries, names,   \* locals of the tools
  outcome,            \* of execute_tool
  removed,            \* number of files somebody else removed
  before,             \* history: what was there when the call began, and
  disturbed           \* the calls since whose begin another changed their files

fs     == <<dir, files, data>>
locals == <<handle, size, content, entries, names>>
vars   == <<use_subprocess, request, pc, fs, locals, outcome, removed, before, disturbed>>

blocks(n) == IF files[n] = Absent THEN Absent ELSE data[files[n]]

exists(p) == dir /\ (p = Dir \/ files[p] # Absent)

(* The calls that are about file n. *)
about(n) == {c \in DOMAIN request : request[c].path \in {n, Dir}}

Changes(n, by) == disturbed' = disturbed \cup (about(n) \ by)

Unchanging == UNCHANGED <<fs, disturbed>>

Init ==
  /\ use_subprocess \in BOOLEAN
  /\ request \in Workloads
  /\ pc = [c \in Calls |-> "new"]
  /\ dir \in BOOLEAN
  /\ \E there \in SUBSET Names, old \in Contents :
       /\ there # {} => dir
       /\ files = [n \in Names |-> IF n \in there THEN n ELSE Absent]
       /\ data = [k \in Inodes |-> IF k \in there THEN old ELSE <<>>]
  /\ handle = [c \in Calls |-> Absent]
  /\ size = [c \in Calls |-> 0]
  /\ content = [c \in Calls |-> <<>>]
  /\ entries = [c \in Calls |-> <<>>]
  /\ names = [c \in Calls |-> <<>>]
  /\ outcome = [c \in Calls |-> "none"]
  /\ removed = 0
  /\ before = [c \in Calls |-> [n \in Names |-> Absent]]
  /\ disturbed = {}

At(c, here) == pc[c] = here

Go(c, there) == pc' = [pc EXCEPT ![c] = there]

Same == UNCHANGED <<use_subprocess, request, outcome, removed, before>>

------------------------------------------------------------------------------
(* tool_read_file, and the beginning of tool_list_dir. *)

Exists(c) ==
  /\ At(c, "exists")
  /\ Go(c, IF exists(request[c].path) /\ request[c].path \notin Protected THEN "kind"
           ELSE "exception")
  /\ UNCHANGED locals /\ Unchanging /\ Same

(* path.is_file, or path.is_dir. *)
Kind(c) ==
  LET reads == request[c].tool = "read_file"
      is_dir == request[c].path = Dir
  IN  /\ At(c, "kind")
      /\ Go(c, IF ~exists(request[c].path) \/ reads = is_dir THEN "exception"
               ELSE IF reads THEN "stat" ELSE "iterdir")
      /\ UNCHANGED locals /\ Unchanging /\ Same

Stat(c) ==
  /\ At(c, "stat")
  /\ IF exists(request[c].path)
     THEN LET st_size == Len(blocks(request[c].path))
          IN  /\ size' = [size EXCEPT ![c] = st_size]
              /\ Go(c, IF st_size > max_size THEN "exception" ELSE "open")
     ELSE Go(c, "exception") /\ UNCHANGED size
  /\ UNCHANGED <<handle, content, entries, names>> /\ Unchanging /\ Same

(* read_text *)
Open(c) ==
  /\ At(c, "open")
  /\ IF exists(request[c].path)
     THEN handle' = [handle EXCEPT ![c] = files[request[c].path]] /\ Go(c, "read")
     ELSE Go(c, "exception") /\ UNCHANGED handle
  /\ UNCHANGED <<size, content, entries, names>> /\ Unchanging /\ Same

(* Bug: what stat said is what is read. *)
ReadSize(c) ==
  LET pos == Len(content[c]) + 1 IN
  /\ At(c, "read")
  /\ IF pos < size[c]
     THEN content' = [content EXCEPT ![c] = Append(@, data[handle[c]][pos])] /\ UNCHANGED pc
     ELSE Go(c, "success") /\ UNCHANGED content
  /\ UNCHANGED <<handle, size, entries, names>> /\ Unchanging /\ Same

(* ... to the end of the file, wherever that is by now. *)
Read(c) ==
  LET pos == Len(content[c]) + 1 IN
  /\ At(c, "read")
  /\ IF pos <= Len(data[handle[c]])
     THEN content' = [content EXCEPT ![c] = Append(@, data[handle[c]][pos])] /\ UNCHANGED pc
     ELSE Go(c, "success") /\ UNCHANGED content
  /\ UNCHANGED <<handle, size, entries, names>> /\ Unchanging /\ Same

------------------------------------------------------------------------------
(* tool_write_file *)

CheckLength(c) ==
  /\ At(c, "length")
  /\ Go(c, IF Len(request[c].content) > max_size THEN "exception" ELSE "mkdir")
  /\ UNCHANGED locals /\ Unchanging /\ Same

Mkdir(c) ==
  /\ At(c, "mkdir")
  /\ dir' = TRUE
  /\ Go(c, "create")
  /\ UNCHANGED <<files, data, disturbed>> /\ UNCHANGED locals /\ Same

(* open(path, "w"): the file is there, and empty. *)
Create(c) ==
  LET n == request[c].path IN
  /\ At(c, "create")
  /\ IF n = Dir THEN Go(c, "exception") /\ UNCHANGED handle /\ Unchanging
     ELSE \E k \in Inodes :
            /\ IF files[n] # Absent THEN k = files[n]
               ELSE k \notin Range(files) \cup Range(handle)
            /\ files' = [files EXCEPT ![n] = k]
            /\ data' = [data EXCEPT ![k] = <<>>]
            /\ handle' = [handle EXCEPT ![c] = k]
            /\ Changes(n, {c})
            /\ Go(c, "write")
            /\ UNCHANGED dir
  /\ UNCHANGED <<size, content, entries, names>> /\ Same

(* Block pos of what another may be writing, too. *)
put(file, pos, block) ==
  [k \in 1 .. Max({pos, Len(file)}) |->
     IF k = pos THEN block ELSE IF k <= Len(file) THEN file[k] ELSE "hole"]

(* Bug: a write that is cut short counts for the whole. *)
WriteOnce(c) ==
  /\ At(c, "write")
  /\ IF request[c].content = <<>> THEN UNCHANGED <<data, disturbed>>
     ELSE /\ data' = [data EXCEPT ![handle[c]] = put(@, 1, request[c].content[1])]
          /\ Changes(request[c].path, {c})
  /\ Go(c, "success")
  /\ UNCHANGED <<dir, files>> /\ UNCHANGED locals /\ Same

(* size counts the blocks written. *)
Write(c) ==
  LET pos == size[c] + 1 IN
  /\ At(c, "write")
  /\ IF pos <= Len(request[c].content)
     THEN /\ data' = [data EXCEPT ![handle[c]] = put(@, pos, request[c].content[pos])]
          /\ size' = [size EXCEPT ![c] = pos]
          /\ Changes(request[c].path, {c})
          /\ UNCHANGED pc
     ELSE Go(c, "success") /\ UNCHANGED <<data, size, disturbed>>
  /\ UNCHANGED <<dir, files, handle, content, entries, names>> /\ Same

------------------------------------------------------------------------------
(* tool_list_dir *)

Iterdir(c) ==
  /\ At(c, "iterdir")
  /\ \E sorted \in SetToSeqs({n \in Names : files[n] # Absent}) :
       /\ \A j, k \in DOMAIN sorted : j < k => sorted[j] < sorted[k]
       /\ names' = [names EXCEPT ![c] = sorted]
  /\ Go(c, "entry")
  /\ UNCHANGED <<handle, size, content, entries>> /\ Unchanging /\ Same

AddEntry(c, type, st_size) ==
  /\ entries' = [entries EXCEPT ![c] =
                   Append(@, [name |-> Head(names[c]), type |-> type, size |-> st_size])]
  /\ names' = [names EXCEPT ![c] = Tail(@)]

(* entry.stat: of all errors only a missing permission is caught. *)
StatEntry(c) ==
  /\ At(c, "entry")
  /\ names[c] # <<>>
  /\ LET n == Head(names[c]) IN
     IF n \in Protected
     THEN AddEntry(c, "unknown", Absent) /\ UNCHANGED <<pc, size>>
     ELSE /\ IF exists(n)
             THEN Go(c, "entry kind") /\ size' = [size EXCEPT ![c] = Len(blocks(n))]
             ELSE Go(c, "exception") /\ UNCHANGED size
          /\ UNCHANGED <<entries, names>>
  /\ UNCHANGED <<handle, content>> /\ Unchanging /\ Same

(* What is gone by now is a file without a size. *)
KindOfEntry(c) ==
  /\ At(c, "entry kind")
  /\ AddEntry(c, "file", IF exists(Head(names[c])) THEN size[c] ELSE Absent)
  /\ Go(c, "entry")
  /\ UNCHANGED <<handle, size, content>> /\ Unchanging /\ Same

Listed(c) ==
  /\ At(c, "entry")
  /\ names[c] = <<>>
  /\ Go(c, "success")
  /\ UNCHANGED locals /\ Unchanging /\ Same

------------------------------------------------------------------------------
(* tool_shell_command, with a command that changes no file here. *)

Shell(c) ==
  /\ At(c, "shell")
  /\ \E end \in {"success", "command timed out", "exception"} : Go(c, end)
  /\ UNCHANGED locals /\ Unchanging /\ Same

------------------------------------------------------------------------------
(* execute_tool and execute_in_subprocess *)

first(tool) ==
  CASE tool \in {"read_file", "list_dir"} -> "exists"
    [] tool = "write_file" -> "length"
    [] tool = "shell_command" -> "shell"

TOOL_FUNCTIONS == {"read_file", "write_file", "list_dir", "shell_command"}

(* How a call may end before its tool has begun: subprocess.run cannot     *)
(* start a process, or not with an argument beyond the kernel's limit.     *)
refusals(c) ==
  IF request[c].tool \notin TOOL_FUNCTIONS THEN {"ToolExecutionError"}
  ELSE IF use_subprocess THEN {"exception"} ELSE {}

Begin(c) ==
  /\ c \in DOMAIN request
  /\ At(c, "new")
  /\ \/ /\ request[c].tool \in TOOL_FUNCTIONS
        /\ Go(c, first(request[c].tool))
        /\ UNCHANGED outcome
     \/ \E how \in refusals(c) :
          Go(c, "done") /\ outcome' = [outcome EXCEPT ![c] = how]
  /\ before' = [before EXCEPT ![c] = [n \in Names |-> blocks(n)]]
  /\ disturbed' = disturbed \ {c}
  /\ UNCHANGED <<use_subprocess, request, fs, locals, removed>>

End(c, how) ==
  /\ Go(c, "done")
  /\ outcome' = [outcome EXCEPT ![c] = how]
  /\ handle' = [handle EXCEPT ![c] = Absent]
  /\ UNCHANGED <<use_subprocess, request, size, content, entries, names, removed, before>>
  /\ Unchanging

(* The tool is over.  From a process its exceptions come as a status, and  *)
(* of its output subprocess.run may make an exception of its own.          *)
Return(c) ==
  /\ pc[c] \in {"success", "exception", "command timed out"}
  /\ \/ End(c, IF pc[c] = "success" THEN "result"
               ELSE IF use_subprocess \/ pc[c] = "command timed out" THEN "ToolExecutionError"
               ELSE "exception")
     \/ use_subprocess /\ End(c, "exception")

running(c) == pc[c] \notin {"new", "done"}

(* Bug: no timeout. *)
TimedOutNever(c) == running(c) /\ FALSE /\ End(c, "ToolExecutionError")

(* subprocess.run kills the process, also one that has printed. *)
TimedOut(c) == use_subprocess /\ running(c) /\ End(c, "ToolExecutionError")

(* The process is killed by somebody else: its returncode is not 0. *)
Dies(c) == use_subprocess /\ running(c) /\ End(c, "ToolExecutionError")

Tool(c) ==
  \/ Exists(c) \/ Kind(c) \/ Stat(c) \/ Open(c) \/ Read(c)
  \/ CheckLength(c) \/ Mkdir(c) \/ Create(c) \/ Write(c)
  \/ Iterdir(c) \/ StatEntry(c) \/ KindOfEntry(c) \/ Listed(c)
  \/ Shell(c)

Unlink(n) ==
  /\ removed < MaxRemoved
  /\ files[n] # Absent
  /\ files' = [files EXCEPT ![n] = Absent]
  /\ removed' = removed + 1
  /\ Changes(n, {})
  /\ UNCHANGED <<use_subprocess, request, pc, dir, data, locals, outcome, before>>

Next ==
  \/ \E c \in Calls : Begin(c) \/ Tool(c) \/ Return(c) \/ TimedOut(c) \/ Dies(c)
  \/ \E n \in Names : Unlink(n)

(* A session goes on, and timeouts come; that a tool gets any further is   *)
(* not assumed.                                                            *)
Spec ==
  /\ Init /\ [][Next]_vars
  /\ \A c \in Calls : WF_vars(Begin(c)) /\ WF_vars(Return(c)) /\ WF_vars(TimedOut(c))

------------------------------------------------------------------------------
(* Properties. *)

Succeeded(c, tool) == outcome[c] = "result" /\ request[c].tool = tool

(* Contents of file n since call c began: what was there, and the writes. *)
versions(c, n) ==
  ({before[c][n]} \ {Absent})
    \cup {request[w].content : w \in {v \in DOMAIN request : request[v].tool = "write_file"
                                                      /\ request[v].path = n}}

(* What tool_read_file returns is the file, whole and within the limit,    *)
(* with the size it is said to have, although each is looked at in a       *)
(* system call of its own.  If another changed the file meanwhile it may   *)
(* be torn and longer than the limit, but every block is from its place in *)
(* one of the versions the file had, or in a gap left by two writers.      *)
ReadWhole ==
  \A c \in DOMAIN request : Succeeded(c, "read_file") =>
    LET n == request[c].path
    IN  IF c \in disturbed
        THEN \A pos \in DOMAIN content[c] :
               \/ content[c][pos] = "hole"
               \/ \E v \in versions(c, n) : pos \in DOMAIN v /\ v[pos] = content[c][pos]
        ELSE content[c] = blocks(n) /\ Len(content[c]) = size[c] /\ size[c] <= max_size

(* A write that is reported has written everything.  One that failed,      *)
(* timed out or was killed left the old file or a part of the new one.     *)
WriteWhole ==
  \A c \in DOMAIN request \ disturbed :
    LET n == request[c].path
    IN  request[c].tool = "write_file" /\ pc[c] = "done" =>
          IF outcome[c] = "result" THEN blocks(n) = request[c].content
          ELSE \/ n = Dir
               \/ blocks(n) = before[c][n]
               \/ IsPrefix(blocks(n), request[c].content)

(* A listing has every file once, in order, with a size it had during the  *)
(* call, unless it was removed meanwhile or may not be looked at.          *)
ListWhole ==
  \A c \in DOMAIN request : Succeeded(c, "list_dir") =>
    /\ \A k \in DOMAIN entries[c] :
         LET e == entries[c][k]
         IN  /\ k > 1 => entries[c][k - 1].name < e.name
             /\ e.type = "unknown" <=> e.name \in Protected
             /\ e.size # Absent =>
                  \E v \in versions(c, e.name) : e.size \in 0 .. Len(v)
    /\ c \notin disturbed =>
         /\ {entries[c][k].name : k \in DOMAIN entries[c]} = {n \in Names : files[n] # Absent}
         /\ \A k \in DOMAIN entries[c] :
              entries[c][k].name \notin Protected =>
                entries[c][k].size = Len(blocks(entries[c][k].name))

(* So what a tool reports of files is true of them. *)
ResultWhole == ReadWhole /\ ListWhole

(* A call in a process of its own ends, whatever its tool does or waits    *)
(* for: execute_tool returns a result or raises something.                 *)
CallEnds ==
  use_subprocess => \A c \in Calls : c \in DOMAIN request => <>(outcome[c] # "none")

==============================================================================
