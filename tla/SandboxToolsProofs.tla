-------------------------- MODULE SandboxToolsProofs --------------------------
(***************************************************************************)
(* Theorems about the tools of tools.py, for every number of calls, files  *)
(* and blocks: what a tool reports of a file is true of it, and what it    *)
(* reports to have written is there.                                       *)
(***************************************************************************)
EXTENDS SandboxTools, FiniteSetTheorems, TLAPS

Cells == Blocks \cup {"hole"}

Entry == [name : Names, type : {"file", "unknown"}, size : Nat \cup {Absent}]

Places == {"new", "exists", "kind", "stat", "open", "read", "length", "mkdir", "create",
           "write", "iterdir", "entry", "entry kind", "shell", "success", "exception",
           "command timed out", "done"}

TypeOK ==
  /\ request \in Workloads
  /\ dir \in BOOLEAN
  /\ pc \in [Calls -> Places]
  /\ files \in [Names -> Inodes \cup {Absent}]
  /\ data \in [Inodes -> Seq(Cells)]
  /\ handle \in [Calls -> Inodes \cup {Absent}]
  /\ size \in [Calls -> Nat]
  /\ content \in [Calls -> Seq(Cells)]
  /\ entries \in [Calls -> Seq(Entry)]
  /\ names \in [Calls -> Seq(Names)]
  /\ outcome \in [Calls -> {"none", "result", "exception", "ToolExecutionError"}]
  /\ before \in [Calls -> [Names -> Seq(Cells) \cup {Absent}]]
  /\ disturbed \subseteq Calls

(* The tool of c is over and has something to report. *)
Over(c) == pc[c] = "success" \/ (pc[c] = "done" /\ outcome[c] = "result")

Place(c) == request[c].path

(* Where the tool of c may stand, and what its locals are there. *)
PcInv(c) ==
  /\ pc[c] # "new" => c \in DOMAIN request
  /\ pc[c] \in {"length", "mkdir", "create", "write"} => request[c].tool = "write_file"
  /\ pc[c] \in {"exists", "kind"} => request[c].tool \in {"read_file", "list_dir"}
  /\ pc[c] \in {"stat", "open", "read"} =>
       request[c].tool = "read_file" /\ Place(c) \in Names
  /\ pc[c] \in {"iterdir", "entry", "entry kind"} =>
       request[c].tool = "list_dir" /\ Place(c) = Dir
  /\ pc[c] = "shell" => request[c].tool = "shell_command"
  /\ pc[c] = "command timed out" => request[c].tool = "shell_command"
  /\ pc[c] = "write" => Place(c) \in Names
  /\ Over(c) => /\ request[c].tool \in {"read_file", "write_file"} => Place(c) \in Names
                /\ request[c].tool = "list_dir" => Place(c) = Dir
  /\ pc[c] \in {"new", "length", "mkdir", "create"} => size[c] = 0
  /\ pc[c] \in {"new", "exists", "kind", "stat", "open"} => content[c] = <<>>
  /\ pc[c] \in {"new", "exists", "kind", "iterdir"} => entries[c] = <<>>
  /\ pc[c] \in {"create", "write"} => dir
  /\ pc[c] \in {"read", "write"} => handle[c] # Absent
  /\ pc[c] # "done" => outcome[c] = "none"

(* A file has one name, and who has it open opened it under that name. *)
FileInv ==
  /\ \A n \in Names : files[n] # Absent => dir
  /\ \A m, n \in Names : files[m] = files[n] /\ files[m] # Absent => m = n
  /\ \A c \in Calls : handle[c] # Absent =>
       /\ running(c) /\ c \in DOMAIN request /\ Place(c) \in Names
       /\ \A n \in Names : files[n] = handle[c] => n = Place(c)
       /\ \A d \in Calls : handle[d] = handle[c] => Place(d) = Place(c)

(* Block b is at place pos in a version of n, or in a gap. *)
Genuine(c, n, pos, b) ==
  b = "hole" \/ \E v \in versions(c, n) : pos \in DOMAIN v /\ v[pos] = b

Versed(c, n, d) ==
  /\ \A pos \in DOMAIN d : Genuine(c, n, pos, d[pos])
  /\ \E v \in versions(c, n) : Len(d) <= Len(v)

DataInv(c) ==
  running(c) =>
    /\ \A n \in Names : c \in about(n) /\ files[n] # Absent => Versed(c, n, data[files[n]])
    /\ handle[c] # Absent => Versed(c, Place(c), data[handle[c]])

ReadInv(c) ==
  c \in DOMAIN request /\ request[c].tool = "read_file" =>
    /\ pc[c] = "read" \/ Over(c) =>
         \A pos \in DOMAIN content[c] : Genuine(c, Place(c), pos, content[c][pos])
    /\ c \notin disturbed =>
         /\ pc[c] = "open" => /\ files[Place(c)] # Absent
                              /\ size[c] = Len(data[files[Place(c)]])
                              /\ size[c] <= max_size
         /\ pc[c] = "read" => /\ files[Place(c)] = handle[c]
                              /\ size[c] = Len(data[handle[c]])
                              /\ size[c] <= max_size
                              /\ Len(content[c]) <= size[c]
                              /\ \A pos \in DOMAIN content[c] :
                                   content[c][pos] = data[handle[c]][pos]
         /\ Over(c) => /\ content[c] = blocks(Place(c))
                       /\ Len(content[c]) = size[c]
                       /\ size[c] <= max_size

WriteInv(c) ==
  c \in DOMAIN request \ disturbed /\ request[c].tool = "write_file" =>
    /\ pc[c] \in {"length", "mkdir", "create", "exception"} =>
         Place(c) = Dir \/ blocks(Place(c)) = before[c][Place(c)]
    /\ pc[c] = "write" => /\ files[Place(c)] = handle[c]
                          /\ size[c] <= Len(request[c].content)
                          /\ data[handle[c]] = SubSeq(request[c].content, 1, size[c])
    /\ Over(c) => blocks(Place(c)) = request[c].content
    /\ pc[c] = "done" /\ outcome[c] # "result" =>
         \/ Place(c) = Dir
         \/ blocks(Place(c)) = before[c][Place(c)]
         \/ IsPrefix(blocks(Place(c)), request[c].content)

(* The listing: the entries and the names still to come are in order, ... *)
Listing(c) ==
  /\ c \in DOMAIN request /\ request[c].tool = "list_dir"
  /\ pc[c] \in {"entry", "entry kind"} \/ Over(c)

ListOrder(c) ==
  /\ \A j, k \in DOMAIN names[c] : j < k => names[c][j] < names[c][k]
  /\ \A j, k \in DOMAIN entries[c] : j < k => entries[c][j].name < entries[c][k].name
  /\ \A j \in DOMAIN entries[c], k \in DOMAIN names[c] : entries[c][j].name < names[c][k]
  /\ \A k \in DOMAIN entries[c] :
       entries[c][k].type = "unknown" <=> entries[c][k].name \in Protected
  /\ Over(c) => names[c] = <<>>

(* ... sizes are of versions, and ... *)
ListSizes(c) ==
  /\ \A k \in DOMAIN entries[c] :
       entries[c][k].size # Absent =>
         \E v \in versions(c, entries[c][k].name) : entries[c][k].size <= Len(v)
  /\ pc[c] = "entry kind" =>
       /\ names[c] # <<>> /\ Head(names[c]) \notin Protected
       /\ \E v \in versions(c, Head(names[c])) : size[c] <= Len(v)

(* ... if nobody changes a file, they are what is there. *)
ListTrue(c) ==
  /\ \A n \in Names :
       files[n] # Absent <=> \/ \E k \in DOMAIN entries[c] : entries[c][k].name = n
                             \/ \E k \in DOMAIN names[c] : names[c][k] = n
  /\ \A k \in DOMAIN entries[c] :
       entries[c][k].name \in Protected
       \/ entries[c][k].size = Len(data[files[entries[c][k].name]])
  /\ pc[c] = "entry kind" => size[c] = Len(data[files[Head(names[c])]])

ListInv(c) ==
  Listing(c) => ListOrder(c) /\ ListSizes(c) /\ (c \notin disturbed => ListTrue(c))

CallInv(c) == PcInv(c) /\ DataInv(c) /\ ReadInv(c) /\ WriteInv(c) /\ ListInv(c)

IInv == TypeOK /\ FileInv /\ \A c \in Calls : CallInv(c)


------------------------------------------------------------------------------
LEMMA Requests ==
  ASSUME request \in Workloads
  PROVE  /\ DOMAIN request \subseteq Calls
         /\ \A c \in DOMAIN request : Place(c) \in Names \cup {Dir}
                                      /\ request[c].content \in Seq(Blocks)
         /\ Dir \notin Names /\ Names \subseteq Inodes /\ Names \subseteq Nat
         /\ Absent \notin Inodes /\ Absent \notin Seq(Cells)
  BY FilesAssumption DEF Place, Cells

LEMMA LargerOfTwo ==
  ASSUME NEW i \in Nat, NEW j \in Nat
  PROVE  Max({i, j}) = IF i > j THEN i ELSE j
  BY DEF Max

LEMMA SameSeq ==
  ASSUME NEW S, NEW s \in Seq(S), NEW t \in Seq(S), Len(s) = Len(t),
         \A k \in DOMAIN s : s[k] = t[k]
  PROVE  s = t
  OBVIOUS

LEMMA VersionsAreFiles ==
  ASSUME TypeOK, NEW c \in Calls, NEW n \in Names, NEW v \in versions(c, n)
  PROVE  v \in Seq(Cells)
  <1>1. CASE v \in {before[c][n]} \ {Absent}
    BY <1>1 DEF TypeOK
  <1>2. CASE \E w \in DOMAIN request : v = request[w].content
    <2> PICK w \in DOMAIN request : v = request[w].content
      BY <1>2
    <2>1. v \in Seq(Blocks)
      BY Requests DEF TypeOK
    <2> QED
      BY <2>1 DEF Cells
  <1> QED
    BY <1>1, <1>2 DEF versions

(* A block that is written is from a version of the file. *)
LEMMA PutVersed ==
  ASSUME NEW c, NEW n, NEW file \in Seq(Cells), Versed(c, n, file),
         NEW t \in versions(c, n), t \in Seq(Cells), NEW pos \in 1 .. Len(t)
  PROVE  /\ put(file, pos, t[pos]) \in Seq(Cells)
         /\ Versed(c, n, put(file, pos, t[pos]))
  <1> DEFINE len == IF pos > Len(file) THEN pos ELSE Len(file)
             new == put(file, pos, t[pos])
  <1>1. pos \in Nat /\ Len(file) \in Nat /\ len \in Nat
    OBVIOUS
  <1>2. new = [k \in 1 .. len |-> IF k = pos THEN t[pos]
                                  ELSE IF k <= Len(file) THEN file[k] ELSE "hole"]
    BY <1>1, LargerOfTwo DEF put
  <1>3. t[pos] \in Cells /\ "hole" \in Cells /\ DOMAIN t = 1 .. Len(t)
    BY DEF Cells
  <1>4. \A k \in 1 .. Len(file) : file[k] \in Cells /\ k \in DOMAIN file
    OBVIOUS
  <1> HIDE DEF new, len
  <1>5. new \in Seq(Cells) /\ Len(new) = len /\ DOMAIN new = 1 .. len
    <2>1. \A k \in 1 .. len : new[k] \in Cells
      BY <1>1, <1>2, <1>3, <1>4
    <2> QED
      BY <1>1, <1>2, <2>1
  <1>6. ASSUME NEW k \in DOMAIN new PROVE Genuine(c, n, k, new[k])
    <2>1. CASE k = pos
      BY <1>2, <1>3, <1>5, <2>1 DEF Genuine
    <2>2. CASE k # pos /\ k <= Len(file)
      BY <1>2, <1>4, <1>5, <2>2 DEF Versed
    <2>3. CASE k # pos /\ ~(k <= Len(file))
      BY <1>2, <1>5, <2>3 DEF Genuine
    <2> QED
      BY <2>1, <2>2, <2>3
  <1>7. \E v \in versions(c, n) : Len(new) <= Len(v)
    <2>1. CASE pos > Len(file)
      BY <1>1, <1>5, <2>1 DEF len
    <2>2. CASE ~(pos > Len(file))
      BY <1>5, <2>2 DEF len, Versed
    <2> QED
      BY <2>1, <2>2
  <1> QED
    BY <1>5, <1>6, <1>7 DEF Versed, new

(* The next block of what is written in order. *)
LEMMA PutNext ==
  ASSUME NEW t \in Seq(Blocks), NEW k \in Nat, k < Len(t)
  PROVE  put(SubSeq(t, 1, k), k + 1, t[k + 1]) = SubSeq(t, 1, k + 1)
  <1> DEFINE old == SubSeq(t, 1, k)
             new == SubSeq(t, 1, k + 1)
  <1>1. Len(old) = k /\ (\A j \in 1 .. k : old[j] = t[j])
    OBVIOUS
  <1>2. new = [j \in 1 .. k + 1 |-> t[j]]
    OBVIOUS
  <1> HIDE DEF old, new
  <1>3. put(old, k + 1, t[k + 1])
          = [j \in 1 .. k + 1 |-> IF j = k + 1 THEN t[k + 1]
                                  ELSE IF j <= k THEN old[j] ELSE "hole"]
    BY <1>1, LargerOfTwo DEF put
  <1>4. \A j \in 1 .. k + 1 : j = k + 1 \/ j \in 1 .. k
    OBVIOUS
  <1>5. \A j \in 1 .. k + 1 : (IF j = k + 1 THEN t[k + 1]
                               ELSE IF j <= k THEN old[j] ELSE "hole") = t[j]
    BY <1>1, <1>4
  <1> QED
    BY <1>2, <1>3, <1>5 DEF old, new

------------------------------------------------------------------------------
(* What another call's step leaves as it was. *)

Stays(d) ==
  /\ pc'[d] = pc[d] /\ handle'[d] = handle[d] /\ size'[d] = size[d]
  /\ content'[d] = content[d] /\ entries'[d] = entries[d] /\ names'[d] = names[d]
  /\ outcome'[d] = outcome[d] /\ before'[d] = before[d]

LEMMA SameVersions ==
  ASSUME NEW d, request' = request, before'[d] = before[d]
  PROVE  /\ \A n : versions(d, n)' = versions(d, n)
         /\ \A n, pos, b : Genuine(d, n, pos, b)' = Genuine(d, n, pos, b)
         /\ \A n, f : Versed(d, n, f)' = Versed(d, n, f)
         /\ \A n : about(n)' = about(n)
         /\ Place(d)' = Place(d)
  <1>1. \A n : versions(d, n)' = versions(d, n)
    BY DEF versions
  <1>2. \A n, pos, b : Genuine(d, n, pos, b)' = Genuine(d, n, pos, b)
    BY <1>1 DEF Genuine
  <1> QED
    BY <1>1, <1>2 DEF Versed, about, Place


LEMMA SameListing ==
  ASSUME NEW d, request' = request, Stays(d)
  PROVE  /\ Listing(d)' = Listing(d) /\ Over(d)' = Over(d)
         /\ ListOrder(d) => ListOrder(d)'
         /\ ListSizes(d) => ListSizes(d)'
  <1>1. Listing(d)' = Listing(d) /\ Over(d)' = Over(d)
    BY DEF Listing, Over, Stays
  <1>2. ListOrder(d) => ListOrder(d)'
    BY <1>1 DEF ListOrder, Stays
  <1>3. \A n : versions(d, n)' = versions(d, n)
    BY SameVersions DEF Stays
  <1>4. ListSizes(d) => ListSizes(d)'
    BY <1>3 DEF ListSizes, Stays
  <1> QED
    BY <1>1, <1>2, <1>4

(* A step that touches no file. *)
LEMMA Quiet ==
  ASSUME NEW d \in Calls, CallInv(d), Stays(d),
         UNCHANGED <<request, files, data>>, dir => dir', d \in disturbed => d \in disturbed'
  PROVE  CallInv(d)'
  <1> USE SameVersions DEF Stays
  <1>1. PcInv(d)'
    BY DEF CallInv, PcInv, Over
  <1>2. DataInv(d)'
    BY DEF CallInv, DataInv, running
  <1>3. ReadInv(d)'
    BY DEF CallInv, ReadInv, Over, blocks
  <1>4. WriteInv(d)'
    BY DEF CallInv, WriteInv, Over, blocks
  <1>5. ListInv(d)'
    <2>1. ListTrue(d) => ListTrue(d)'
      BY DEF ListTrue
    <2> QED
      BY <2>1, SameListing DEF CallInv, ListInv
  <1> QED
    BY <1>1, <1>2, <1>3, <1>4, <1>5 DEF CallInv

(* A step about file n disturbs whoever looks at n, and nobody else. *)
LEMMA Beside ==
  ASSUME TypeOK, NEW d \in Calls, NEW n \in Names, CallInv(d), Stays(d),
         request' = request, dir => dir', d \in disturbed => d \in disturbed',
         d \in about(n) => d \in disturbed',
         \A m \in Names : m # n => /\ files'[m] = files[m]
                                   /\ files[m] # Absent => data'[files[m]] = data[files[m]],
         DataInv(d)'
  PROVE  CallInv(d)'
  <1> USE SameVersions DEF Stays
  <1>1. PcInv(d)'
    BY DEF CallInv, PcInv, Over
  <1>2. ASSUME d \in DOMAIN request, d \notin disturbed'
        PROVE  /\ d \notin disturbed
               /\ Place(d) # n /\ Place(d) # Dir /\ Place(d) \in Names
               /\ files'[Place(d)] = files[Place(d)]
               /\ files[Place(d)] # Absent =>
                    data'[files[Place(d)]] = data[files[Place(d)]]
               /\ blocks(Place(d))' = blocks(Place(d))
    <2>1. /\ d \notin disturbed
          /\ Place(d) # n /\ Place(d) # Dir /\ Place(d) \in Names
      BY <1>2, Requests DEF about, Place, TypeOK
    <2>2. /\ files'[Place(d)] = files[Place(d)]
          /\ files[Place(d)] # Absent =>
               data'[files[Place(d)]] = data[files[Place(d)]]
      BY <2>1
    <2> QED
      BY <2>1, <2>2 DEF blocks, Place
  <1>3. ReadInv(d)'
    <2> SUFFICES ASSUME d \in DOMAIN request, request[d].tool = "read_file"
                 PROVE  ReadInv(d)'
      BY DEF ReadInv
    <2>1. ReadInv(d) /\ (pc[d] = "read" => handle[d] # Absent)
      BY DEF CallInv, PcInv
    <2>2. Over(d)' = Over(d) /\ Place(d)' = Place(d)
      BY DEF Over, Place
    <2>3. CASE d \in disturbed'
      BY <2>1, <2>2, <2>3 DEF ReadInv
    <2>4. CASE d \notin disturbed'
      <3>1. files[Place(d)] = handle[d] /\ handle[d] # Absent =>
              data'[handle[d]] = data[handle[d]]
        BY <1>2, <2>4
      <3> QED
        BY <1>2, <2>1, <2>2, <2>4, <3>1 DEF ReadInv
    <2> QED
      BY <2>3, <2>4
  <1>4. WriteInv(d)'
    <2> SUFFICES ASSUME d \in DOMAIN request, request[d].tool = "write_file",
                        d \notin disturbed'
                 PROVE  WriteInv(d)'
      BY DEF WriteInv
    <2>1. WriteInv(d) /\ (pc[d] = "write" => handle[d] # Absent)
      BY DEF CallInv, PcInv
    <2>2. Over(d)' = Over(d) /\ Place(d)' = Place(d)
      BY DEF Over, Place
    <2>3. files[Place(d)] = handle[d] /\ handle[d] # Absent =>
            data'[handle[d]] = data[handle[d]]
      BY <1>2
    <2> QED
      BY <1>2, <2>1, <2>2, <2>3 DEF WriteInv
  <1>5. ListInv(d)'
    <2>1. Listing(d) => Place(d) = Dir /\ d \in DOMAIN request
      BY DEF CallInv, PcInv, Listing
    <2>2. Listing(d) => d \in disturbed'
      BY <2>1, <1>2
    <2> QED
      BY <2>2, SameListing DEF CallInv, ListInv
  <1> QED
    BY <1>1, <1>3, <1>4, <1>5 DEF CallInv

(* A step of the caller that touches no file and keeps what it has open. *)
LEMMA LocalStep ==
  ASSUME IInv, NEW c \in Calls, running(c), running(c)',
         UNCHANGED <<request, files, data, dir, disturbed, handle, outcome, before>>,
         \A d \in Calls : d # c => Stays(d),
         TypeOK', PcInv(c)', ReadInv(c)', WriteInv(c)', ListInv(c)'
  PROVE  IInv'
  <1>1. ASSUME NEW d \in Calls, d # c PROVE CallInv(d)'
    BY <1>1, Quiet DEF IInv
  <1>2. DataInv(c)'
    BY SameVersions DEF IInv, CallInv, DataInv
  <1>3. FileInv'
    <2>1. ASSUME NEW d \in Calls, handle[d] # Absent PROVE running(d)'
      BY <2>1 DEF IInv, FileInv, running, Stays
    <2>2. \A d : Place(d)' = Place(d)
      BY DEF Place
    <2> QED
      BY <2>1, <2>2 DEF IInv, FileInv
  <1> QED
    BY <1>1, <1>2, <1>3 DEF IInv, CallInv


------------------------------------------------------------------------------
(* The steps of a tool that change nothing but its locals. *)

LEMMA Moved ==
  ASSUME TypeOK, NEW c \in Calls, NEW there \in Places, Go(c, there)
  PROVE  /\ pc' \in [Calls -> Places] /\ pc'[c] = there
         /\ \A d \in Calls : d # c => pc'[d] = pc[d]
  BY DEF TypeOK, Go

LEMMA LookStep ==
  ASSUME IInv, NEW c \in Calls, Exists(c) \/ Kind(c) \/ CheckLength(c) \/ Shell(c)
  PROVE  IInv'
  <1>1. /\ UNCHANGED <<request, files, data, dir, disturbed, handle, outcome, before>>
        /\ UNCHANGED <<size, content, entries, names>>
    BY DEF Exists, Kind, CheckLength, Shell, locals, fs, Unchanging, Same
  <1>2. TypeOK /\ PcInv(c) /\ WriteInv(c) /\ FileInv
    BY DEF IInv, CallInv
  <1>3. \/ /\ pc[c] = "exists" /\ Go(c, "kind")
        \/ /\ pc[c] = "exists" /\ Go(c, "exception")
        \/ /\ pc[c] = "kind" /\ Go(c, "exception")
        \/ /\ pc[c] = "kind" /\ Go(c, "stat")
           /\ request[c].tool = "read_file" /\ Place(c) # Dir
        \/ /\ pc[c] = "kind" /\ Go(c, "iterdir")
           /\ request[c].tool # "read_file" /\ Place(c) = Dir
        \/ /\ pc[c] = "length" /\ Go(c, "exception")
        \/ /\ pc[c] = "length" /\ Go(c, "mkdir")
        \/ /\ pc[c] = "shell" /\ Go(c, "success")
        \/ /\ pc[c] = "shell" /\ Go(c, "command timed out")
        \/ /\ pc[c] = "shell" /\ Go(c, "exception")
    <2>1. CASE Exists(c)
      BY <2>1 DEF Exists, At
    <2>2. CASE Kind(c)
      BY <2>2 DEF Kind, At, Place, Go
    <2>3. CASE CheckLength(c)
      BY <2>3 DEF CheckLength, At
    <2>4. CASE Shell(c)
      BY <2>4 DEF Shell, At
    <2> QED
      BY <2>1, <2>2, <2>3, <2>4
  <1>4. PICK there \in Places : Go(c, there)
    BY <1>3 DEF Places
  <1>5. /\ pc' \in [Calls -> Places] /\ pc'[c] = there
        /\ \A d \in Calls : d # c => pc'[d] = pc[d]
    BY <1>2, <1>4, Moved
  <1>6. there = pc'[c] /\ \A t \in Places : Go(c, t) => t = there
    BY <1>2, <1>5, Moved
  <1>7. \/ pc[c] = "exists" /\ there \in {"kind", "exception"}
        \/ pc[c] = "kind" /\ there = "exception"
        \/ /\ pc[c] = "kind" /\ there = "stat"
           /\ request[c].tool = "read_file" /\ Place(c) # Dir
        \/ /\ pc[c] = "kind" /\ there = "iterdir"
           /\ request[c].tool # "read_file" /\ Place(c) = Dir
        \/ pc[c] = "length" /\ there \in {"exception", "mkdir"}
        \/ pc[c] = "shell" /\ there \in {"success", "command timed out", "exception"}
    BY <1>3, <1>6 DEF Places
  <1>8. /\ c \in DOMAIN request /\ Place(c) \in Names \cup {Dir}
        /\ Place(c)' = Place(c) /\ blocks(Place(c))' = blocks(Place(c))
    BY <1>1, <1>2, <1>7, Requests DEF PcInv, TypeOK, Place, blocks
  <1>9. Over(c)' <=> there = "success"
    BY <1>1, <1>5, <1>7 DEF Over
  <1>10. PcInv(c)'
    BY <1>1, <1>2, <1>5, <1>7, <1>8, <1>9 DEF PcInv
  <1>11. ReadInv(c)' /\ ListInv(c)'
    BY <1>1, <1>2, <1>5, <1>7, <1>8, <1>9 DEF PcInv, ReadInv, ListInv, Listing
  <1>12. WriteInv(c)'
    BY <1>1, <1>2, <1>5, <1>7, <1>8, <1>9 DEF PcInv, WriteInv
  <1>13. TypeOK'
    BY <1>1, <1>2, <1>5 DEF TypeOK
  <1>14. running(c) /\ running(c)' /\ \A d \in Calls : d # c => Stays(d)
    BY <1>1, <1>5, <1>7 DEF running, Stays
  <1> QED
    BY <1>1, <1>10, <1>11, <1>12, <1>13, <1>14, LocalStep

LEMMA StatStep ==
  ASSUME IInv, NEW c \in Calls, Stat(c)
  PROVE  IInv'
  <1>1. /\ UNCHANGED <<request, files, data, dir, disturbed, handle, outcome, before>>
        /\ UNCHANGED <<content, entries, names>>
        /\ pc[c] = "stat"
    BY DEF Stat, At, fs, Unchanging, Same
  <1>2. TypeOK /\ PcInv(c) /\ FileInv
    BY DEF IInv, CallInv
  <1>3. /\ c \in DOMAIN request /\ Place(c) \in Names /\ Place(c) # Dir
        /\ request[c].tool = "read_file"
        /\ outcome[c] = "none" /\ content[c] = <<>>
        /\ Place(c)' = Place(c)
    BY <1>1, <1>2, Requests DEF PcInv, TypeOK, Place
  <1>4. \/ /\ files[Place(c)] # Absent
           /\ size' = [size EXCEPT ![c] = Len(data[files[Place(c)]])]
           /\ \/ Go(c, "open") /\ Len(data[files[Place(c)]]) <= max_size
              \/ Go(c, "exception")
        \/ Go(c, "exception") /\ UNCHANGED size
    <2>1. CASE exists(request[c].path)
      <3>1. files[Place(c)] # Absent /\ blocks(request[c].path) = data[files[Place(c)]]
        BY <1>3, <2>1 DEF exists, blocks, Place
      <3>2. data[files[Place(c)]] \in Seq(Cells) /\ max_size \in Nat
        BY <1>2, <1>3, <3>1, FilesAssumption DEF TypeOK
      <3> QED
        BY <2>1, <3>1, <3>2 DEF Stat
    <2>2. CASE ~exists(request[c].path)
      BY <2>2 DEF Stat
    <2> QED
      BY <2>1, <2>2
  <1>5. /\ pc' \in [Calls -> Places] /\ pc'[c] \in {"open", "exception"}
        /\ \A d \in Calls : d # c => pc'[d] = pc[d]
    <2>1. "open" \in Places /\ "exception" \in Places
      BY DEF Places
    <2> QED
      BY <1>2, <1>4, <2>1, Moved
  <1>6. /\ size' \in [Calls -> Nat]
        /\ \A d \in Calls : d # c => size'[d] = size[d]
    <2>1. size \in [Calls -> Nat]
      BY <1>2 DEF TypeOK
    <2>2. files[Place(c)] # Absent => Len(data[files[Place(c)]]) \in Nat
      BY <1>2, <1>3 DEF TypeOK
    <2> QED
      BY <1>4, <2>1, <2>2
  <1>7. pc'[c] = "open" => /\ files[Place(c)] # Absent
                           /\ size'[c] = Len(data[files[Place(c)]])
                           /\ size'[c] <= max_size
    <2>1. "exception" \in Places /\ (Go(c, "exception") => pc'[c] = "exception")
      BY <1>2, Moved DEF Places
    <2>2. size \in [Calls -> Nat]
      BY <1>2 DEF TypeOK
    <2> QED
      BY <1>4, <2>1, <2>2
  <1>8. ~Over(c)'
    BY <1>1, <1>5 DEF Over
  <1>9. PcInv(c)' /\ WriteInv(c)' /\ ListInv(c)'
    BY <1>1, <1>2, <1>3, <1>5, <1>8 DEF PcInv, WriteInv, ListInv, Listing
  <1>10. ReadInv(c)'
    BY <1>1, <1>3, <1>5, <1>7, <1>8 DEF ReadInv
  <1>11. TypeOK'
    BY <1>1, <1>2, <1>5, <1>6 DEF TypeOK
  <1>12. running(c) /\ running(c)' /\ \A d \in Calls : d # c => Stays(d)
    BY <1>1, <1>5, <1>6 DEF running, Stays
  <1> QED
    BY <1>1, <1>9, <1>10, <1>11, <1>12, LocalStep


LEMMA ReadStep ==
  ASSUME IInv, NEW c \in Calls, Read(c)
  PROVE  IInv'
  <1> DEFINE file == data[handle[c]]
             pos == Len(content[c]) + 1
             n == Place(c)
  <1>1. /\ UNCHANGED <<request, files, data, dir, disturbed, handle, outcome, before>>
        /\ UNCHANGED <<size, entries, names>>
        /\ pc[c] = "read"
        /\ \/ /\ pos <= Len(file)
              /\ content' = [content EXCEPT ![c] = Append(@, file[pos])]
              /\ UNCHANGED pc
           \/ /\ ~(pos <= Len(file)) /\ Go(c, "success") /\ UNCHANGED content
    BY DEF Read, At, fs, Unchanging, Same
  <1>2. TypeOK /\ PcInv(c) /\ FileInv /\ DataInv(c) /\ ReadInv(c)
    BY DEF IInv, CallInv
  <1>3. /\ c \in DOMAIN request /\ n \in Names /\ n # Dir
        /\ request[c].tool = "read_file" /\ handle[c] \in Inodes /\ handle[c] # Absent
        /\ outcome[c] = "none" /\ n' = n
    BY <1>1, <1>2, Requests DEF PcInv, TypeOK, Place
  <1>4. /\ file \in Seq(Cells) /\ content[c] \in Seq(Cells)
        /\ content \in [Calls -> Seq(Cells)]
    BY <1>2, <1>3 DEF TypeOK
  <1>5. Versed(c, n, file)
    BY <1>1, <1>2, <1>3 DEF DataInv, running
  <1>6. /\ \A k \in DOMAIN content[c] : Genuine(c, n, k, content[c][k])
        /\ c \notin disturbed => /\ files[n] = handle[c]
                                 /\ size[c] = Len(file)
                                 /\ size[c] <= max_size
                                 /\ Len(content[c]) <= size[c]
                                 /\ \A k \in DOMAIN content[c] : content[c][k] = file[k]
    BY <1>1, <1>2, <1>3 DEF ReadInv
  <1>7. \A k, b : Genuine(c, n, k, b)' = Genuine(c, n, k, b)
    BY <1>1, <1>3, SameVersions
  <1> HIDE DEF file
  <1>8. CASE pos <= Len(file) /\ content' = [content EXCEPT ![c] = Append(@, file[pos])]
             /\ UNCHANGED pc
    <2>1. file[pos] \in Cells /\ pos \in DOMAIN file
      BY <1>4, <1>8
    <2>2. /\ content' \in [Calls -> Seq(Cells)]
          /\ content'[c] = Append(content[c], file[pos])
          /\ \A d \in Calls : d # c => content'[d] = content[d]
      BY <1>4, <1>8, <2>1
    <2>3. /\ Len(content'[c]) = pos
          /\ DOMAIN content'[c] = DOMAIN content[c] \cup {pos}
          /\ \A k \in DOMAIN content[c] : content'[c][k] = content[c][k]
          /\ content'[c][pos] = file[pos]
      BY <1>4, <2>1, <2>2
    <2>4. \A k \in DOMAIN content'[c] : Genuine(c, n, k, content'[c][k])
      BY <1>5, <1>6, <2>1, <2>3 DEF Versed
    <2>5. c \notin disturbed => \A k \in DOMAIN content'[c] : content'[c][k] = file[k]
      BY <1>6, <2>3
    <2>6. c \notin disturbed => Len(content'[c]) <= size[c]
      BY <1>6, <1>8, <2>3
    <2>7. ~Over(c)' /\ pc'[c] = "read"
      BY <1>1, <1>8 DEF Over
    <2>8. ReadInv(c)'
      BY <1>1, <1>3, <1>6, <1>7, <2>4, <2>5, <2>6, <2>7 DEF ReadInv, file
    <2>9. PcInv(c)' /\ WriteInv(c)' /\ ListInv(c)'
      BY <1>1, <1>2, <1>3, <1>8, <2>7 DEF PcInv, WriteInv, ListInv, Listing
    <2>10. TypeOK'
      BY <1>1, <1>2, <1>8, <2>2 DEF TypeOK
    <2>11. running(c) /\ running(c)' /\ \A d \in Calls : d # c => Stays(d)
      BY <1>1, <1>8, <2>2 DEF running, Stays
    <2> QED
      BY <1>1, <2>8, <2>9, <2>10, <2>11, LocalStep
  <1>9. CASE ~(pos <= Len(file)) /\ Go(c, "success") /\ UNCHANGED content
    <2>1. /\ pc' \in [Calls -> Places] /\ pc'[c] = "success"
          /\ \A d \in Calls : d # c => pc'[d] = pc[d]
      BY <1>2, <1>9, Moved DEF Places
    <2>2. c \notin disturbed => content[c] = file /\ Len(content[c]) = size[c]
      <3> SUFFICES ASSUME c \notin disturbed
                   PROVE  content[c] = file /\ Len(content[c]) = size[c]
        OBVIOUS
      <3>1. Len(content[c]) = Len(file)
        BY <1>4, <1>6, <1>9
      <3> QED
        BY <1>4, <1>6, <3>1, SameSeq
    <2>3. c \notin disturbed => blocks(n) = file /\ blocks(n)' = blocks(n)
      BY <1>1, <1>3, <1>6 DEF blocks, file
    <2>4. ReadInv(c)'
      BY <1>1, <1>3, <1>6, <1>7, <1>9, <2>1, <2>2, <2>3 DEF ReadInv
    <2>5. PcInv(c)' /\ WriteInv(c)' /\ ListInv(c)'
      BY <1>1, <1>2, <1>3, <1>9, <2>1 DEF PcInv, WriteInv, ListInv, Listing, Over
    <2>6. TypeOK'
      BY <1>1, <1>2, <1>9, <2>1 DEF TypeOK
    <2>7. running(c) /\ running(c)' /\ \A d \in Calls : d # c => Stays(d)
      BY <1>1, <1>9, <2>1 DEF running, Stays
    <2> QED
      BY <1>1, <2>4, <2>5, <2>6, <2>7, LocalStep
  <1> QED
    BY <1>1, <1>8, <1>9


(* All elements of a finite set, each once. *)
LEMMA AllOfThem ==
  ASSUME NEW S, IsFiniteSet(S), NEW s \in SetToSeqs(S)
  PROVE  s \in Seq(S) /\ \A x \in S : \E k \in DOMAIN s : s[k] = x
  <1> DEFINE n == Cardinality(S)
  <1>1. n \in Nat
    BY FS_CardinalityType
  <1>2. s \in [1 .. n -> S] /\ \A j, k \in 1 .. n : j # k => s[j] # s[k]
    BY DEF SetToSeqs
  <1> HIDE DEF n
  <1>3. Cardinality(1 .. n) = n
    BY <1>1, FS_Interval
  <1>4. s \in Injection(1 .. n, S)
    BY <1>2 DEF Injection, IsInjective
  <1>5. s \in Surjection(1 .. n, S)
    BY <1>3, <1>4, FS_Injection DEF n
  <1> QED
    BY <1>1, <1>2, <1>5 DEF Surjection

LEMMA IterdirStep ==
  ASSUME IInv, NEW c \in Calls, Iterdir(c)
  PROVE  IInv'
  <1> DEFINE There == {n \in Names : files[n] # Absent}
  <1>1. /\ UNCHANGED <<request, files, data, dir, disturbed, handle, outcome, before>>
        /\ UNCHANGED <<size, content, entries>>
        /\ pc[c] = "iterdir" /\ Go(c, "entry")
    BY DEF Iterdir, At, fs, Unchanging, Same
  <1> PICK sorted \in SetToSeqs(There) :
             /\ \A j, k \in DOMAIN sorted : j < k => sorted[j] < sorted[k]
             /\ names' = [names EXCEPT ![c] = sorted]
    BY DEF Iterdir
  <1>2. TypeOK /\ PcInv(c) /\ FileInv
    BY DEF IInv, CallInv
  <1>3. IsFiniteSet(There)
    BY FilesAssumption, FS_Subset
  <1>4. sorted \in Seq(There) /\ \A n \in There : \E k \in DOMAIN sorted : sorted[k] = n
    BY <1>3, AllOfThem
  <1>5. /\ sorted \in Seq(Names)
        /\ \A n \in Names : files[n] # Absent <=> \E k \in DOMAIN sorted : sorted[k] = n
    BY <1>4
  <1>6. /\ names' \in [Calls -> Seq(Names)] /\ names'[c] = sorted
        /\ \A d \in Calls : d # c => names'[d] = names[d]
    BY <1>2, <1>5 DEF TypeOK
  <1>7. /\ pc' \in [Calls -> Places] /\ pc'[c] = "entry"
        /\ \A d \in Calls : d # c => pc'[d] = pc[d]
    BY <1>1, <1>2, Moved DEF Places
  <1>8. ~Over(c)' /\ entries'[c] = <<>>
    BY <1>1, <1>2, <1>7 DEF Over, PcInv
  <1>9. PcInv(c)' /\ WriteInv(c)' /\ ReadInv(c)'
    BY <1>1, <1>2, <1>7, <1>8 DEF PcInv, WriteInv, ReadInv, Place
  <1>10. ListOrder(c)' /\ ListSizes(c)'
    BY <1>6, <1>7, <1>8 DEF ListOrder, ListSizes
  <1>11. ListTrue(c)'
    BY <1>1, <1>5, <1>6, <1>7, <1>8 DEF ListTrue
  <1>12. TypeOK'
    BY <1>1, <1>2, <1>6, <1>7 DEF TypeOK
  <1>13. running(c) /\ running(c)' /\ \A d \in Calls : d # c => Stays(d)
    BY <1>1, <1>6, <1>7 DEF running, Stays
  <1> QED
    BY <1>1, <1>9, <1>10, <1>11, <1>12, <1>13, LocalStep DEF ListInv

(* The next name becomes an entry. *)
NewEntry(c, e) ==
  /\ \E k \in DOMAIN entries'[c] : entries'[c][k] = e
  /\ \A k \in DOMAIN entries'[c] :
       entries'[c][k] = e \/ (k \in DOMAIN entries[c] /\ entries'[c][k] = entries[c][k])
  /\ \A k \in DOMAIN entries[c] :
       k \in DOMAIN entries'[c] /\ entries'[c][k] = entries[c][k]

Added(c, type, st_size) ==
  \E e \in Entry :
    /\ e.name = Head(names[c]) /\ e.type = type /\ e.size = st_size
    /\ NewEntry(c, e)

LEMMA NextEntry ==
  ASSUME TypeOK, NEW c \in Calls, ListOrder(c), names[c] # <<>>,
         NEW type, NEW st_size \in Nat \cup {Absent}, AddEntry(c, type, st_size),
         type = IF Head(names[c]) \in Protected THEN "unknown" ELSE "file",
         ~Over(c)'
  PROVE  /\ entries' \in [Calls -> Seq(Entry)] /\ names' \in [Calls -> Seq(Names)]
         /\ \A d \in Calls : d # c => entries'[d] = entries[d] /\ names'[d] = names[d]
         /\ ListOrder(c)' /\ Added(c, type, st_size)
         /\ \A n : (\E k \in DOMAIN names[c] : names[c][k] = n)
                     <=> n = Head(names[c]) \/ \E k \in DOMAIN names'[c] : names'[c][k] = n
  <1> DEFINE e == [name |-> Head(names[c]), type |-> type, size |-> st_size]
             es == entries[c]
             ns == names[c]
             es2 == Append(es, e)
             ns2 == Tail(ns)
  <1>1. es \in Seq(Entry) /\ ns \in Seq(Names) /\ ns # <<>>
    BY DEF TypeOK
  <1>2. /\ Len(ns) > 0 /\ Head(ns) = ns[1] /\ Head(ns) \in Names
        /\ ns2 \in Seq(Names) /\ Len(ns2) = Len(ns) - 1
        /\ \A k \in DOMAIN ns2 : k + 1 \in DOMAIN ns /\ ns2[k] = ns[k + 1]
        /\ DOMAIN ns = 1 .. Len(ns) /\ DOMAIN ns2 = 1 .. Len(ns) - 1
    BY <1>1
  <1>3. e \in Entry /\ e.name = Head(ns) /\ e.type = type /\ e.size = st_size
    BY <1>2 DEF Entry
  <1>4. /\ es2 \in Seq(Entry) /\ DOMAIN es2 = DOMAIN es \cup {Len(es) + 1}
        /\ es2[Len(es) + 1] = e
        /\ \A k \in DOMAIN es : es2[k] = es[k] /\ k < Len(es) + 1
    <2> HIDE DEF e
    <2> QED
      BY <1>1, <1>3
  <1>5. /\ entries' = [entries EXCEPT ![c] = es2]
        /\ names' = [names EXCEPT ![c] = ns2]
    BY DEF AddEntry
  <1> HIDE DEF e, es2, ns2
  <1>6. /\ entries' \in [Calls -> Seq(Entry)] /\ entries'[c] = es2
        /\ \A d \in Calls : d # c => entries'[d] = entries[d]
    BY <1>4, <1>5 DEF TypeOK
  <1>7. /\ names' \in [Calls -> Seq(Names)] /\ names'[c] = ns2
        /\ \A d \in Calls : d # c => names'[d] = names[d]
    BY <1>2, <1>5 DEF TypeOK
  <1>8. \A n : (\E k \in DOMAIN ns : ns[k] = n)
                 <=> n = Head(ns) \/ \E k \in DOMAIN ns2 : ns2[k] = n
    <2>1. ASSUME NEW k \in DOMAIN ns PROVE ns[k] = Head(ns) \/ \E j \in DOMAIN ns2 : ns2[j] = ns[k]
      <3>1. CASE k = 1
        BY <1>2, <3>1
      <3>2. CASE k # 1
        <4>1. k - 1 \in DOMAIN ns2 /\ (k - 1) + 1 = k
          BY <1>2, <3>2
        <4> QED
          BY <1>2, <4>1
      <3> QED
        BY <3>1, <3>2
    <2>2. 1 \in DOMAIN ns
      BY <1>2
    <2> QED
      BY <1>2, <2>1, <2>2
  <1>9. /\ \A j, k \in DOMAIN ns : j < k => ns[j] < ns[k]
        /\ \A j, k \in DOMAIN es : j < k => es[j].name < es[k].name
        /\ \A j \in DOMAIN es, k \in DOMAIN ns : es[j].name < ns[k]
        /\ \A k \in DOMAIN es : es[k].type = "unknown" <=> es[k].name \in Protected
    BY DEF ListOrder
  <1>10. \A j, k \in DOMAIN ns2 : j < k => ns2[j] < ns2[k]
    <2> SUFFICES ASSUME NEW j \in DOMAIN ns2, NEW k \in DOMAIN ns2, j < k
                 PROVE  ns2[j] < ns2[k]
      OBVIOUS
    <2>1. j + 1 \in DOMAIN ns /\ k + 1 \in DOMAIN ns /\ j + 1 < k + 1
      BY <1>2
    <2> QED
      BY <1>2, <1>9, <2>1
  <1>11. \A j, k \in DOMAIN es2 : j < k => es2[j].name < es2[k].name
    <2> SUFFICES ASSUME NEW j \in DOMAIN es2, NEW k \in DOMAIN es2, j < k
                 PROVE  es2[j].name < es2[k].name
      OBVIOUS
    <2>1. Len(es) \in Nat /\ DOMAIN es = 1 .. Len(es)
      BY <1>1
    <2>2. j \in DOMAIN es
      BY <1>4, <2>1
    <2>3. CASE k \in DOMAIN es
      BY <1>4, <1>9, <2>2, <2>3
    <2>4. CASE k = Len(es) + 1
      <3>1. es[j].name < ns[1]
        BY <1>2, <1>9, <2>2
      <3> QED
        BY <1>2, <1>3, <1>4, <2>2, <2>4, <3>1
    <2> QED
      BY <1>4, <2>3, <2>4
  <1>12. \A j \in DOMAIN es2, k \in DOMAIN ns2 : es2[j].name < ns2[k]
    <2> SUFFICES ASSUME NEW j \in DOMAIN es2, NEW k \in DOMAIN ns2
                 PROVE  es2[j].name < ns2[k]
      OBVIOUS
    <2>1. k + 1 \in DOMAIN ns /\ 1 \in DOMAIN ns /\ 1 < k + 1 /\ ns2[k] = ns[k + 1]
      BY <1>2
    <2>2. CASE j \in DOMAIN es
      BY <1>4, <1>9, <2>1, <2>2
    <2>3. CASE j = Len(es) + 1
      BY <1>2, <1>3, <1>4, <1>9, <2>1, <2>3
    <2> QED
      BY <1>4, <2>2, <2>3
  <1>13. \A k \in DOMAIN es2 : es2[k].type = "unknown" <=> es2[k].name \in Protected
    BY <1>3, <1>4, <1>9
  <1>14. ListOrder(c)'
    BY <1>6, <1>7, <1>10, <1>11, <1>12, <1>13 DEF ListOrder
  <1>15. /\ \E k \in DOMAIN es2 : es2[k] = e
         /\ \A k \in DOMAIN es2 : es2[k] = e \/ (k \in DOMAIN es /\ es2[k] = es[k])
         /\ \A k \in DOMAIN es : k \in DOMAIN es2 /\ es2[k] = es[k]
    BY <1>4
  <1> QED
    BY <1>3, <1>6, <1>7, <1>8, <1>14, <1>15 DEF NewEntry, Added

LEMMA ListedStep ==
  ASSUME IInv, NEW c \in Calls, Listed(c)
  PROVE  IInv'
  <1>1. /\ UNCHANGED <<request, files, data, dir, disturbed, handle, outcome, before>>
        /\ UNCHANGED <<size, content, entries, names>>
        /\ pc[c] = "entry" /\ names[c] = <<>> /\ Go(c, "success")
    BY DEF Listed, At, fs, locals, Unchanging, Same
  <1>2. TypeOK /\ PcInv(c) /\ FileInv /\ ListInv(c)
    BY DEF IInv, CallInv
  <1>3. /\ pc' \in [Calls -> Places] /\ pc'[c] = "success"
        /\ \A d \in Calls : d # c => pc'[d] = pc[d]
    BY <1>1, <1>2, Moved DEF Places
  <1>4. /\ c \in DOMAIN request /\ request[c].tool = "list_dir"
        /\ ListOrder(c) /\ ListSizes(c) /\ (c \notin disturbed => ListTrue(c))
    BY <1>1, <1>2 DEF PcInv, ListInv, Listing
  <1>5. PcInv(c)' /\ WriteInv(c)' /\ ReadInv(c)'
    BY <1>1, <1>2, <1>3, <1>4 DEF PcInv, WriteInv, ReadInv, Over, Place
  <1>6. ListOrder(c)'
    BY <1>1, <1>3, <1>4 DEF ListOrder
  <1>7. ListSizes(c)'
    <2>1. \A n : versions(c, n)' = versions(c, n)
      BY <1>1, SameVersions
    <2> QED
      BY <1>1, <1>3, <1>4, <2>1 DEF ListSizes
  <1>8. c \notin disturbed => ListTrue(c)'
    BY <1>1, <1>3, <1>4 DEF ListTrue
  <1>9. TypeOK'
    BY <1>1, <1>2, <1>3 DEF TypeOK
  <1>10. running(c) /\ running(c)' /\ \A d \in Calls : d # c => Stays(d)
    BY <1>1, <1>3 DEF running, Stays
  <1> QED
    BY <1>1, <1>5, <1>6, <1>7, <1>8, <1>9, <1>10, LocalStep DEF ListInv

(* An entry with a size the file had. *)
LEMMA EntryStep ==
  ASSUME IInv, NEW c \in Calls, pc[c] \in {"entry", "entry kind"}, pc'[c] = "entry",
         names[c] # <<>>,
         UNCHANGED <<request, files, data, dir, disturbed, handle, outcome, before>>,
         UNCHANGED <<size, content>>,
         pc' \in [Calls -> Places], \A d \in Calls : d # c => pc'[d] = pc[d],
         NEW type, NEW st_size \in Nat \cup {Absent}, AddEntry(c, type, st_size),
         type = IF Head(names[c]) \in Protected THEN "unknown" ELSE "file",
         st_size # Absent => \E v \in versions(c, Head(names[c])) : st_size <= Len(v),
         c \notin disturbed /\ Head(names[c]) \notin Protected =>
           st_size = Len(data[files[Head(names[c])]])
  PROVE  IInv'
  <1>1. TypeOK /\ PcInv(c) /\ FileInv /\ ListInv(c)
    BY DEF IInv, CallInv
  <1>2. /\ c \in DOMAIN request /\ request[c].tool = "list_dir"
        /\ ListOrder(c) /\ ListSizes(c) /\ (c \notin disturbed => ListTrue(c))
    BY <1>1 DEF PcInv, ListInv, Listing
  <1>3. ~Over(c)'
    BY DEF Over
  <1>4. /\ entries' \in [Calls -> Seq(Entry)] /\ names' \in [Calls -> Seq(Names)]
        /\ \A d \in Calls : d # c => entries'[d] = entries[d] /\ names'[d] = names[d]
        /\ ListOrder(c)' /\ Added(c, type, st_size)
        /\ \A n : (\E k \in DOMAIN names[c] : names[c][k] = n)
                    <=> n = Head(names[c]) \/ \E k \in DOMAIN names'[c] : names'[c][k] = n
    BY <1>1, <1>2, <1>3, NextEntry
  <1> PICK e \in Entry :
         /\ e.name = Head(names[c]) /\ e.type = type /\ e.size = st_size
         /\ NewEntry(c, e)
    BY <1>4 DEF Added
  <1>5. PcInv(c)' /\ WriteInv(c)' /\ ReadInv(c)'
    BY <1>1, <1>2, <1>3 DEF PcInv, WriteInv, ReadInv, Place
  <1>6. ListSizes(c)'
    <2>1. \A n : versions(c, n)' = versions(c, n)
      BY SameVersions
    <2>2. ASSUME NEW k \in DOMAIN entries'[c], entries'[c][k].size # Absent
          PROVE  \E v \in versions(c, entries'[c][k].name) : entries'[c][k].size <= Len(v)
      <3>1. CASE entries'[c][k] = e
        BY <2>2, <3>1
      <3>2. CASE k \in DOMAIN entries[c] /\ entries'[c][k] = entries[c][k]
        BY <1>2, <2>2, <3>2 DEF ListSizes
      <3> QED
        BY <3>1, <3>2 DEF NewEntry
    <2> QED
      BY <2>1, <2>2 DEF ListSizes
  <1>7. ASSUME c \notin disturbed PROVE ListTrue(c)'
    <2>1. ListTrue(c)
      BY <1>2, <1>7
    <2>2. \A n \in Names :
            files[n] # Absent <=> \/ \E k \in DOMAIN entries'[c] : entries'[c][k].name = n
                                  \/ \E k \in DOMAIN names'[c] : names'[c][k] = n
      <3> SUFFICES ASSUME NEW n \in Names
                   PROVE  files[n] # Absent
                            <=> \/ \E k \in DOMAIN entries'[c] : entries'[c][k].name = n
                                \/ \E k \in DOMAIN names'[c] : names'[c][k] = n
        OBVIOUS
      <3>1. (\E k \in DOMAIN entries'[c] : entries'[c][k].name = n)
              <=> n = Head(names[c]) \/ \E k \in DOMAIN entries[c] : entries[c][k].name = n
        BY DEF NewEntry
      <3> QED
        BY <1>4, <2>1, <3>1 DEF ListTrue
    <2>3. \A k \in DOMAIN entries'[c] :
            entries'[c][k].name \in Protected
            \/ entries'[c][k].size = Len(data[files[entries'[c][k].name]])
      <3> SUFFICES ASSUME NEW k \in DOMAIN entries'[c], entries'[c][k].name \notin Protected
                   PROVE  entries'[c][k].size = Len(data[files[entries'[c][k].name]])
        OBVIOUS
      <3>1. CASE entries'[c][k] = e
        BY <1>7, <3>1
      <3>2. CASE k \in DOMAIN entries[c] /\ entries'[c][k] = entries[c][k]
        BY <2>1, <3>2 DEF ListTrue
      <3> QED
        BY <3>1, <3>2 DEF NewEntry
    <2> QED
      BY <2>2, <2>3 DEF ListTrue
  <1>8. TypeOK'
    BY <1>1, <1>4 DEF TypeOK
  <1>9. running(c) /\ running(c)' /\ \A d \in Calls : d # c => Stays(d)
    BY <1>4 DEF running, Stays
  <1> QED
    BY <1>4, <1>5, <1>6, <1>7, <1>8, <1>9, LocalStep DEF ListInv

LEMMA StatEntryStep ==
  ASSUME IInv, NEW c \in Calls, StatEntry(c)
  PROVE  IInv'
  <1> DEFINE n == Head(names[c])
  <1>1. /\ UNCHANGED <<request, files, data, dir, disturbed, handle, outcome, before>>
        /\ UNCHANGED content
        /\ pc[c] = "entry" /\ names[c] # <<>>
    BY DEF StatEntry, At, fs, Unchanging, Same
  <1>2. TypeOK /\ PcInv(c) /\ FileInv /\ DataInv(c) /\ ListInv(c)
    BY DEF IInv, CallInv
  <1>3. /\ c \in DOMAIN request /\ request[c].tool = "list_dir" /\ Place(c) = Dir
        /\ ListOrder(c) /\ ListSizes(c) /\ (c \notin disturbed => ListTrue(c))
    BY <1>1, <1>2 DEF PcInv, ListInv, Listing
  <1>4. n \in Names
    BY <1>1, <1>2 DEF TypeOK
  <1>5. n # Dir
    BY <1>4, FilesAssumption
  <1>6. CASE n \in Protected
    <2>1. AddEntry(c, "unknown", Absent) /\ UNCHANGED <<pc, size>>
      BY <1>6 DEF StatEntry
    <2> QED
      BY <1>1, <1>2, <1>6, <2>1, EntryStep DEF TypeOK
  <1>7. CASE n \notin Protected /\ exists(n)
    <2>1. /\ Go(c, "entry kind") /\ size' = [size EXCEPT ![c] = Len(blocks(n))]
          /\ UNCHANGED <<entries, names>>
      BY <1>7 DEF StatEntry
    <2>2. files[n] # Absent /\ files[n] \in Inodes /\ blocks(n) = data[files[n]]
      BY <1>2, <1>4, <1>5, <1>7 DEF exists, blocks, TypeOK
    <2>3. /\ size' \in [Calls -> Nat] /\ size'[c] = Len(data[files[n]])
          /\ \A d \in Calls : d # c => size'[d] = size[d]
      <3>1. size \in [Calls -> Nat]
        BY <1>2 DEF TypeOK
      <3>2. data[files[n]] \in Seq(Cells)
        BY <1>2, <2>2 DEF TypeOK
      <3>3. Len(data[files[n]]) \in Nat
        BY <3>2
      <3> QED
        BY <2>1, <2>2, <3>1, <3>3
    <2>4. /\ pc' \in [Calls -> Places] /\ pc'[c] = "entry kind"
          /\ \A d \in Calls : d # c => pc'[d] = pc[d]
      BY <1>2, <2>1, Moved DEF Places
    <2>5. \E v \in versions(c, n) : Len(data[files[n]]) <= Len(v)
      <3>1. c \in about(n) /\ running(c)
        BY <1>1, <1>3 DEF about, Place, running
      <3> QED
        BY <1>2, <1>4, <2>2, <3>1 DEF DataInv, Versed
    <2>6. \A m : versions(c, m)' = versions(c, m)
      BY <1>1, SameVersions
    <2>7. ~Over(c)'
      BY <2>4 DEF Over
    <2>8. PcInv(c)' /\ WriteInv(c)' /\ ReadInv(c)'
      BY <1>1, <1>2, <1>3, <2>4, <2>7 DEF PcInv, WriteInv, ReadInv, Place
    <2>9. ListOrder(c)'
      BY <1>3, <2>1, <2>7 DEF ListOrder
    <2>10. ListSizes(c)'
      BY <1>1, <1>3, <1>7, <2>1, <2>3, <2>5, <2>6 DEF ListSizes
    <2>11. ListTrue(c) => ListTrue(c)'
      BY <1>1, <2>1, <2>3 DEF ListTrue
    <2>12. TypeOK'
      BY <1>1, <1>2, <2>1, <2>3, <2>4 DEF TypeOK
    <2>13. running(c) /\ running(c)' /\ \A d \in Calls : d # c => Stays(d)
      BY <1>1, <2>1, <2>3, <2>4 DEF running, Stays
    <2> QED
      BY <1>1, <1>3, <2>8, <2>9, <2>10, <2>11, <2>12, <2>13, LocalStep DEF ListInv
  <1>8. CASE n \notin Protected /\ ~exists(n)
    <2>1. Go(c, "exception") /\ UNCHANGED <<size, entries, names>>
      BY <1>8 DEF StatEntry
    <2>2. /\ pc' \in [Calls -> Places] /\ pc'[c] = "exception"
          /\ \A d \in Calls : d # c => pc'[d] = pc[d]
      BY <1>2, <2>1, Moved DEF Places
    <2>3. ~Over(c)'
      BY <2>2 DEF Over
    <2>4. PcInv(c)' /\ WriteInv(c)' /\ ReadInv(c)' /\ ListInv(c)'
      BY <1>1, <1>2, <1>3, <2>2, <2>3
      DEF PcInv, WriteInv, ReadInv, ListInv, Listing, Place
    <2>5. TypeOK'
      BY <1>1, <1>2, <2>1, <2>2 DEF TypeOK
    <2>6. running(c) /\ running(c)' /\ \A d \in Calls : d # c => Stays(d)
      BY <1>1, <2>1, <2>2 DEF running, Stays
    <2> QED
      BY <1>1, <2>4, <2>5, <2>6, LocalStep
  <1> QED
    BY <1>6, <1>7, <1>8

LEMMA KindOfEntryStep ==
  ASSUME IInv, NEW c \in Calls, KindOfEntry(c)
  PROVE  IInv'
  <1> DEFINE n == Head(names[c])
             st_size == IF exists(n) THEN size[c] ELSE Absent
  <1>1. /\ UNCHANGED <<request, files, data, dir, disturbed, handle, outcome, before>>
        /\ UNCHANGED <<size, content>>
        /\ pc[c] = "entry kind" /\ Go(c, "entry")
        /\ AddEntry(c, "file", st_size)
    BY DEF KindOfEntry, At, fs, Unchanging, Same
  <1>2. TypeOK /\ PcInv(c) /\ FileInv /\ ListInv(c)
    BY DEF IInv, CallInv
  <1>3. /\ ListSizes(c) /\ (c \notin disturbed => ListTrue(c))
    BY <1>1, <1>2 DEF PcInv, ListInv, Listing
  <1>4. /\ pc' \in [Calls -> Places] /\ pc'[c] = "entry"
        /\ \A d \in Calls : d # c => pc'[d] = pc[d]
    BY <1>1, <1>2, Moved DEF Places
  <1>5. /\ names[c] # <<>> /\ n \notin Protected
        /\ \E v \in versions(c, n) : size[c] <= Len(v)
    BY <1>1, <1>3 DEF ListSizes
  <1>6. size[c] \in Nat /\ n \in Names
    BY <1>2, <1>5 DEF TypeOK
  <1>7. c \notin disturbed => st_size = Len(data[files[n]])
    <2> SUFFICES ASSUME c \notin disturbed PROVE st_size = Len(data[files[n]])
      OBVIOUS
    <2>1. names[c][1] = n /\ 1 \in DOMAIN names[c]
      BY <1>2, <1>5 DEF TypeOK
    <2>2. files[n] # Absent
      BY <1>3, <1>6, <2>1 DEF ListTrue
    <2>3. exists(n)
      BY <1>2, <1>6, <2>2 DEF exists, FileInv
    <2> QED
      BY <1>1, <1>3, <2>3 DEF ListTrue
  <1> HIDE DEF n
  <1>8. st_size \in Nat \cup {Absent} /\ (st_size # Absent => st_size = size[c])
    BY <1>6
  <1> HIDE DEF st_size
  <1> QED
    BY <1>1, <1>4, <1>5, <1>7, <1>8, EntryStep DEF n

------------------------------------------------------------------------------
(* The steps that open a file, or change one. *)

LEMMA OpenStep ==
  ASSUME IInv, NEW c \in Calls, Open(c)
  PROVE  IInv'
  <1> DEFINE n == Place(c)
  <1>1. /\ UNCHANGED <<request, files, data, dir, disturbed, outcome, before>>
        /\ UNCHANGED <<size, content, entries, names>>
        /\ pc[c] = "open"
    BY DEF Open, At, fs, Unchanging, Same
  <1>2. TypeOK /\ PcInv(c) /\ FileInv /\ DataInv(c) /\ ReadInv(c)
    BY DEF IInv, CallInv
  <1>3. /\ c \in DOMAIN request /\ n \in Names /\ n # Dir
        /\ request[c].tool = "read_file" /\ content[c] = <<>>
        /\ outcome[c] = "none" /\ n' = n /\ c \in about(n)
        /\ running(c) /\ Absent \notin Inodes
    BY <1>1, <1>2, Requests DEF PcInv, TypeOK, Place, about, running
  <1>4. CASE exists(request[c].path)
    <2>1. files[n] # Absent /\ files[n] \in Inodes
      BY <1>2, <1>3, <1>4 DEF exists, Place, TypeOK
    <2>2. handle' = [handle EXCEPT ![c] = files[n]] /\ Go(c, "read")
      BY <1>4 DEF Open, Place
    <2>3. /\ pc' \in [Calls -> Places] /\ pc'[c] = "read"
          /\ \A d \in Calls : d # c => pc'[d] = pc[d]
      BY <1>2, <2>2, Moved DEF Places
    <2>4. /\ handle' \in [Calls -> Inodes \cup {Absent}] /\ handle'[c] = files[n]
          /\ \A d \in Calls : d # c => handle'[d] = handle[d]
      BY <1>2, <2>1, <2>2 DEF TypeOK
    <2>5. ASSUME NEW d \in Calls, d # c PROVE CallInv(d)' /\ running(d)' = running(d)
      <3>1. Stays(d)
        BY <1>1, <2>3, <2>4, <2>5 DEF Stays
      <3> QED
        BY <1>1, <3>1, Quiet DEF IInv, Stays, running
    <2>6. TypeOK'
      BY <1>1, <1>2, <2>3, <2>4 DEF TypeOK
    <2>7. ~Over(c)' /\ running(c)'
      BY <2>3 DEF Over, running
    <2>8. PcInv(c)' /\ WriteInv(c)' /\ ListInv(c)'
      BY <1>1, <1>2, <1>3, <2>1, <2>3, <2>4, <2>7 DEF PcInv, WriteInv, ListInv, Listing
    <2>9. DataInv(c)'
      <3>1. Versed(c, n, data[files[n]])
        BY <1>2, <1>3, <2>1 DEF DataInv
      <3>2. /\ \A m, f : Versed(c, m, f)' = Versed(c, m, f)
            /\ \A m : about(m)' = about(m)
        BY <1>1, SameVersions
      <3> QED
        BY <1>1, <1>2, <1>3, <2>4, <3>1, <3>2 DEF DataInv
    <2>10. ReadInv(c)'
      <3>1. DOMAIN content[c] = {} /\ Len(content[c]) = 0
        BY <1>3
      <3>2. c \notin disturbed => size[c] = Len(data[files[n]]) /\ size[c] <= max_size
        BY <1>1, <1>2, <1>3 DEF ReadInv
      <3>3. size[c] \in Nat
        BY <1>2 DEF TypeOK
      <3> QED
        BY <1>1, <1>3, <2>3, <2>4, <2>7, <3>1, <3>2, <3>3 DEF ReadInv
    <2>11. FileInv'
      <3>1. \A d : Place(d)' = Place(d)
        BY <1>1 DEF Place
      <3>2. ASSUME NEW d \in Calls, handle[d] = files[n] PROVE Place(d) = n
        BY <1>2, <1>3, <2>1, <3>2 DEF FileInv
      <3>3. \A m \in Names : files[m] = files[n] => m = n
        BY <1>2, <1>3, <2>1 DEF FileInv
      <3>4. ASSUME NEW d \in Calls, handle'[d] # Absent
            PROVE  /\ running(d)' /\ d \in DOMAIN request /\ Place(d) \in Names
                   /\ \A m \in Names : files[m] = handle'[d] => m = Place(d)
                   /\ \A e \in Calls : handle'[e] = handle'[d] => Place(e) = Place(d)
        <4>1. CASE d = c
          BY <1>3, <2>4, <2>7, <3>2, <3>3, <4>1
        <4>2. CASE d # c
          BY <1>2, <2>4, <2>5, <3>2, <3>4, <4>2 DEF FileInv
        <4> QED
          BY <4>1, <4>2
      <3> QED
        BY <1>1, <1>2, <3>1, <3>4 DEF FileInv
    <2> QED
      BY <2>5, <2>6, <2>8, <2>9, <2>10, <2>11 DEF IInv, CallInv
  <1>5. CASE ~exists(request[c].path)
    <2>1. Go(c, "exception") /\ UNCHANGED handle
      BY <1>5 DEF Open
    <2>2. /\ pc' \in [Calls -> Places] /\ pc'[c] = "exception"
          /\ \A d \in Calls : d # c => pc'[d] = pc[d]
      BY <1>2, <2>1, Moved DEF Places
    <2>3. ~Over(c)'
      BY <2>2 DEF Over
    <2>4. PcInv(c)' /\ WriteInv(c)' /\ ReadInv(c)' /\ ListInv(c)'
      BY <1>1, <1>2, <1>3, <2>1, <2>2, <2>3
      DEF PcInv, WriteInv, ReadInv, ListInv, Listing, Place
    <2>5. TypeOK'
      BY <1>1, <1>2, <2>1, <2>2 DEF TypeOK
    <2>6. running(c) /\ running(c)' /\ \A d \in Calls : d # c => Stays(d)
      BY <1>1, <2>1, <2>2 DEF running, Stays
    <2> QED
      BY <1>1, <2>1, <2>4, <2>5, <2>6, LocalStep
  <1> QED
    BY <1>4, <1>5

LEMMA MkdirStep ==
  ASSUME IInv, NEW c \in Calls, Mkdir(c)
  PROVE  IInv'
  <1>1. /\ UNCHANGED <<request, files, data, disturbed, handle, outcome, before>>
        /\ UNCHANGED <<size, content, entries, names>>
        /\ dir' = TRUE /\ pc[c] = "mkdir" /\ Go(c, "create")
    BY DEF Mkdir, At, locals, Same
  <1>2. TypeOK /\ PcInv(c) /\ FileInv /\ DataInv(c) /\ WriteInv(c)
    BY DEF IInv, CallInv
  <1>3. /\ pc' \in [Calls -> Places] /\ pc'[c] = "create"
        /\ \A d \in Calls : d # c => pc'[d] = pc[d]
    BY <1>1, <1>2, Moved DEF Places
  <1>4. /\ c \in DOMAIN request /\ request[c].tool = "write_file" /\ Place(c)' = Place(c)
        /\ size[c] = 0 /\ outcome[c] = "none"
    BY <1>1, <1>2 DEF PcInv, Place
  <1>5. ASSUME NEW d \in Calls, d # c PROVE CallInv(d)'
    <2>1. Stays(d)
      BY <1>1, <1>3, <1>5 DEF Stays
    <2> QED
      BY <1>1, <2>1, Quiet DEF IInv
  <1>6. ~Over(c)' /\ running(c) /\ \A d \in Calls : running(d) => running(d)'
    BY <1>1, <1>3 DEF Over, running
  <1>7. PcInv(c)' /\ ReadInv(c)' /\ ListInv(c)'
    BY <1>1, <1>2, <1>3, <1>4, <1>6 DEF PcInv, ReadInv, ListInv, Listing
  <1>8. WriteInv(c)'
    BY <1>1, <1>2, <1>3, <1>4, <1>6 DEF WriteInv, blocks
  <1>9. DataInv(c)'
    BY <1>1, <1>2, <1>6, SameVersions DEF DataInv
  <1>10. TypeOK'
    BY <1>1, <1>2, <1>3 DEF TypeOK
  <1>11. FileInv'
    <2>1. \A d : Place(d)' = Place(d)
      BY <1>1 DEF Place
    <2> QED
      BY <1>1, <1>2, <1>6, <2>1 DEF FileInv
  <1> QED
    BY <1>5, <1>7, <1>8, <1>9, <1>10, <1>11 DEF IInv, CallInv


LEMMA CreateFileStep ==
  ASSUME IInv, NEW c \in Calls, Create(c), request[c].path # Dir
  PROVE  IInv'
  <1> DEFINE n == Place(c)
             text == request[c].content
  <1>1. /\ UNCHANGED <<request, dir, outcome, before>>
        /\ UNCHANGED <<size, content, entries, names>>
        /\ pc[c] = "create" /\ Go(c, "write")
        /\ disturbed' = disturbed \cup (about(n) \ {c})
    BY DEF Create, At, Same, Changes, Place
  <1> PICK k \in Inodes :
        /\ IF files[n] # Absent THEN k = files[n] ELSE k \notin Range(files) \cup Range(handle)
        /\ files' = [files EXCEPT ![n] = k]
        /\ data' = [data EXCEPT ![k] = <<>>]
        /\ handle' = [handle EXCEPT ![c] = k]
    BY DEF Create, Place
  <1>2. TypeOK /\ PcInv(c) /\ FileInv /\ WriteInv(c)
    BY DEF IInv, CallInv
  <1>3. /\ c \in DOMAIN request /\ n \in Names /\ n # Dir /\ n' = n /\ dir
        /\ request[c].tool = "write_file" /\ size[c] = 0 /\ outcome[c] = "none"
        /\ Absent \notin Inodes /\ text \in Seq(Blocks)
        /\ request[c].path = n
    BY <1>1, <1>2, Requests DEF PcInv, TypeOK, Place
  <1>4. /\ pc' \in [Calls -> Places] /\ pc'[c] = "write"
        /\ \A d \in Calls : d # c => pc'[d] = pc[d]
    BY <1>1, <1>2, Moved DEF Places
  <1>5. /\ files' \in [Names -> Inodes \cup {Absent}] /\ files'[n] = k
        /\ \A m \in Names : m # n => files'[m] = files[m]
    BY <1>2, <1>3 DEF TypeOK
  <1>6. /\ data' \in [Inodes -> Seq(Cells)] /\ data'[k] = <<>>
        /\ \A j \in Inodes : j # k => data'[j] = data[j]
    <2>1. <<>> \in Seq(Cells)
      OBVIOUS
    <2> QED
      BY <1>2, <2>1 DEF TypeOK
  <1>7. /\ handle' \in [Calls -> Inodes \cup {Absent}] /\ handle'[c] = k
        /\ \A d \in Calls : d # c => handle'[d] = handle[d]
    BY <1>2 DEF TypeOK
  <1>8. \A m \in Names : m # n => files[m] # k
    <2>1. CASE files[n] # Absent
      BY <1>2, <1>3, <2>1 DEF FileInv
    <2>2. CASE files[n] = Absent
      BY <1>2, <2>2 DEF Range, TypeOK
    <2> QED
      BY <2>1, <2>2
  <1>9. \A d \in Calls : handle[d] = k => Place(d) = n
    <2>1. CASE files[n] # Absent
      BY <1>2, <1>3, <2>1 DEF FileInv
    <2>2. CASE files[n] = Absent
      BY <1>2, <2>2 DEF Range, TypeOK
    <2> QED
      BY <2>1, <2>2
  <1>10. ASSUME NEW d \in Calls PROVE Versed(d, n, <<>>)
    <2>1. text \in versions(d, n)
      BY <1>3 DEF versions
    <2>2. Len(<<>>) <= Len(text) /\ DOMAIN <<>> = {}
      BY <1>3
    <2> QED
      BY <2>1, <2>2 DEF Versed
  <1>11. ASSUME NEW d \in Calls, running(d)
         PROVE  /\ \A m \in Names : d \in about(m) /\ files'[m] # Absent =>
                     Versed(d, m, data'[files'[m]])
                /\ handle'[d] # Absent => Versed(d, Place(d), data'[handle'[d]])
    <2>1. DataInv(d)
      BY DEF IInv, CallInv
    <2>2. ASSUME NEW m \in Names, d \in about(m), files'[m] # Absent
          PROVE  Versed(d, m, data'[files'[m]])
      <3>1. CASE m = n
        BY <1>5, <1>6, <1>10, <3>1
      <3>2. CASE m # n
        <4>1. files'[m] = files[m] /\ files[m] \in Inodes /\ files[m] # k
          BY <1>2, <1>5, <1>8, <2>2, <3>2 DEF TypeOK
        <4> QED
          BY <1>6, <1>11, <2>1, <2>2, <4>1 DEF DataInv
      <3> QED
        BY <3>1, <3>2
    <2>3. ASSUME handle'[d] # Absent PROVE Versed(d, Place(d), data'[handle'[d]])
      <3>1. CASE d = c
        BY <1>6, <1>7, <1>10, <3>1
      <3>2. CASE d # c /\ handle[d] = k
        BY <1>6, <1>7, <1>9, <1>10, <3>2
      <3>3. CASE d # c /\ handle[d] # k
        <4>1. handle'[d] = handle[d] /\ handle[d] \in Inodes
          BY <1>2, <1>7, <2>3, <3>3 DEF TypeOK
        <4> QED
          BY <1>6, <1>11, <2>1, <2>3, <3>3, <4>1 DEF DataInv
      <3> QED
        BY <3>1, <3>2, <3>3
    <2> QED
      BY <2>2, <2>3
  <1>12. running(c) /\ running(c)' /\ ~Over(c)' /\ \A d \in Calls : running(d)' => running(d)
    BY <1>1, <1>4 DEF running, Over
  <1>13. ASSUME NEW d \in Calls PROVE DataInv(d)'
    <2>1. /\ \A m, f : Versed(d, m, f)' = Versed(d, m, f)
          /\ \A m : about(m)' = about(m)
          /\ Place(d)' = Place(d)
      BY <1>1, SameVersions
    <2> QED
      BY <1>11, <1>12, <2>1 DEF DataInv
  <1>14. ASSUME NEW d \in Calls, d # c PROVE CallInv(d)'
    <2>1. Stays(d) /\ CallInv(d)
      BY <1>1, <1>4, <1>7, <1>14 DEF Stays, IInv
    <2>2. d \in about(n) => d \in disturbed'
      BY <1>1, <1>14
    <2>3. \A m \in Names : m # n => /\ files'[m] = files[m]
                                    /\ files[m] # Absent => data'[files[m]] = data[files[m]]
      BY <1>2, <1>5, <1>6, <1>8 DEF TypeOK
    <2> QED
      BY <1>1, <1>2, <1>3, <1>13, <2>1, <2>2, <2>3, Beside
  <1>15. PcInv(c)' /\ ReadInv(c)' /\ ListInv(c)'
    BY <1>1, <1>2, <1>3, <1>4, <1>7, <1>12 DEF PcInv, ReadInv, ListInv, Listing
  <1>16. WriteInv(c)'
    <2>1. SubSeq(text, 1, 0) = <<>> /\ Len(text) \in Nat
      BY <1>3
    <2> QED
      BY <1>1, <1>3, <1>4, <1>5, <1>6, <1>7, <1>12, <2>1 DEF WriteInv
  <1>17. TypeOK'
    <2>1. disturbed' \subseteq Calls
      BY <1>1, <1>2, Requests DEF TypeOK, about
    <2> QED
      BY <1>1, <1>2, <1>4, <1>5, <1>6, <1>7, <2>1 DEF TypeOK
  <1>18. FileInv'
    <2>1. \A d : Place(d)' = Place(d)
      BY <1>1 DEF Place
    <2>2. \A d \in Calls : running(d) => running(d)'
      BY <1>4 DEF running
    <2>3. \A l, m \in Names : files'[l] = files'[m] /\ files'[l] # Absent => l = m
      BY <1>2, <1>5, <1>8 DEF FileInv
    <2>4. ASSUME NEW d \in Calls, handle'[d] # Absent
          PROVE  /\ running(d)' /\ d \in DOMAIN request /\ Place(d) \in Names
                 /\ \A m \in Names : files'[m] = handle'[d] => m = Place(d)
                 /\ \A e \in Calls : handle'[e] = handle'[d] => Place(e) = Place(d)
      <3>1. CASE d = c
        <4>1. \A m \in Names : files'[m] = k => m = n
          BY <1>5, <1>8
        <4>2. \A e \in Calls : handle'[e] = k => Place(e) = n
          BY <1>7, <1>9
        <4> QED
          BY <1>3, <1>7, <1>12, <3>1, <4>1, <4>2
      <3>2. CASE d # c
        <4>1. handle'[d] = handle[d] /\ handle[d] # Absent
          BY <1>7, <2>4, <3>2
        <4>2. running(d) /\ d \in DOMAIN request /\ Place(d) \in Names
          BY <1>2, <4>1 DEF FileInv
        <4>3. \A m \in Names : files'[m] = handle[d] => m = Place(d)
          BY <1>2, <1>5, <1>9, <4>1 DEF FileInv
        <4>4. \A e \in Calls : handle'[e] = handle[d] => Place(e) = Place(d)
          BY <1>2, <1>7, <1>9, <4>1 DEF FileInv
        <4> QED
          BY <2>2, <4>1, <4>2, <4>3, <4>4
      <3> QED
        BY <3>1, <3>2
    <2> QED
      BY <1>1, <1>3, <2>1, <2>3, <2>4 DEF FileInv
  <1> QED
    BY <1>13, <1>14, <1>15, <1>16, <1>17, <1>18 DEF IInv, CallInv

LEMMA CreateStep ==
  ASSUME IInv, NEW c \in Calls, Create(c)
  PROVE  IInv'
  <1>1. CASE request[c].path # Dir
    BY <1>1, CreateFileStep
  <1>2. CASE request[c].path = Dir
    <2>1. /\ UNCHANGED <<request, files, data, dir, disturbed, handle, outcome, before>>
          /\ UNCHANGED <<size, content, entries, names>>
          /\ pc[c] = "create" /\ Go(c, "exception")
      BY <1>2 DEF Create, At, fs, Unchanging, Same
    <2>2. TypeOK /\ PcInv(c)
      BY DEF IInv, CallInv
    <2>3. /\ pc' \in [Calls -> Places] /\ pc'[c] = "exception"
          /\ \A d \in Calls : d # c => pc'[d] = pc[d]
      BY <2>1, <2>2, Moved DEF Places
    <2>4. ~Over(c)'
      BY <2>3 DEF Over
    <2>5. PcInv(c)' /\ WriteInv(c)' /\ ReadInv(c)' /\ ListInv(c)'
      BY <1>2, <2>1, <2>2, <2>3, <2>4
      DEF PcInv, WriteInv, ReadInv, ListInv, Listing, Place
    <2>6. TypeOK'
      BY <2>1, <2>2, <2>3 DEF TypeOK
    <2>7. running(c) /\ running(c)' /\ \A d \in Calls : d # c => Stays(d)
      BY <2>1, <2>3 DEF running, Stays
    <2> QED
      BY <2>1, <2>5, <2>6, <2>7, LocalStep
  <1> QED
    BY <1>1, <1>2


LEMMA PutType ==
  ASSUME NEW file \in Seq(Cells), NEW t \in Seq(Cells), NEW pos \in 1 .. Len(t)
  PROVE  put(file, pos, t[pos]) \in Seq(Cells)
  <1> DEFINE len == IF pos > Len(file) THEN pos ELSE Len(file)
  <1>1. Len(file) \in Nat /\ pos \in Nat /\ len \in Nat /\ t[pos] \in Cells /\ "hole" \in Cells
    BY DEF Cells
  <1>2. \A j \in 1 .. Len(file) : file[j] \in Cells
    OBVIOUS
  <1>3. put(file, pos, t[pos]) = [j \in 1 .. len |-> IF j = pos THEN t[pos]
                                             ELSE IF j <= Len(file) THEN file[j] ELSE "hole"]
    BY <1>1, LargerOfTwo DEF put
  <1> HIDE DEF len
  <1> QED
    BY <1>1, <1>2, <1>3

LEMMA WriteBlockStep ==
  ASSUME IInv, NEW c \in Calls, Write(c), size[c] + 1 <= Len(request[c].content)
  PROVE  IInv'
  <1> DEFINE n == Place(c)
             text == request[c].content
             h == handle[c]
             pos == size[c] + 1
             new == put(data[h], pos, text[pos])
  <1>1. /\ UNCHANGED <<request, dir, files, handle, outcome, before, pc>>
        /\ UNCHANGED <<content, entries, names>>
        /\ pc[c] = "write"
        /\ data' = [data EXCEPT ![h] = new]
        /\ size' = [size EXCEPT ![c] = pos]
        /\ disturbed' = disturbed \cup (about(n) \ {c})
    BY DEF Write, At, Same, Changes, Place
  <1>2. TypeOK /\ PcInv(c) /\ FileInv /\ WriteInv(c)
    BY DEF IInv, CallInv
  <1>3. /\ c \in DOMAIN request /\ n \in Names /\ n # Dir /\ n' = n
        /\ request[c].tool = "write_file" /\ outcome[c] = "none"
        /\ h \in Inodes /\ h # Absent /\ text \in Seq(Blocks)
        /\ request[c].path = n /\ size[c] \in Nat /\ pos \in 1 .. Len(text)
    BY <1>1, <1>2, Requests DEF PcInv, TypeOK, Place
  <1>4. text \in Seq(Cells) /\ data[h] \in Seq(Cells)
    BY <1>2, <1>3 DEF TypeOK, Cells
  <1>5. /\ size' \in [Calls -> Nat] /\ size'[c] = pos
        /\ \A d \in Calls : d # c => size'[d] = size[d]
    BY <1>1, <1>2, <1>3 DEF TypeOK
  <1>6. \A d \in Calls : text \in versions(d, n)
    BY <1>3 DEF versions
  <1>7. ASSUME NEW d \in Calls, Versed(d, n, data[h])
        PROVE  Versed(d, n, new)
    BY <1>3, <1>4, <1>6, <1>7, PutVersed
  <1>8. new \in Seq(Cells)
    BY <1>3, <1>4, PutType
  <1> HIDE DEF new
  <1>9. /\ data' \in [Inodes -> Seq(Cells)] /\ data'[h] = new
        /\ \A j \in Inodes : j # h => data'[j] = data[j]
    BY <1>1, <1>2, <1>3, <1>8 DEF TypeOK
  <1>10. \A m \in Names : files[m] = h => m = n
    BY <1>2, <1>3 DEF FileInv
  <1>11. \A d \in Calls : handle[d] = h => Place(d) = n
    BY <1>2, <1>3 DEF FileInv
  <1>12. ASSUME NEW d \in Calls, running(d)
         PROVE  /\ \A m \in Names : d \in about(m) /\ files[m] # Absent =>
                     Versed(d, m, data'[files[m]])
                /\ handle[d] # Absent => Versed(d, Place(d), data'[handle[d]])
    <2>1. DataInv(d)
      BY DEF IInv, CallInv
    <2>2. ASSUME NEW m \in Names, d \in about(m), files[m] # Absent
          PROVE  Versed(d, m, data'[files[m]])
      <3>1. files[m] \in Inodes /\ Versed(d, m, data[files[m]])
        BY <1>2, <1>12, <2>1, <2>2 DEF TypeOK, DataInv
      <3>2. CASE files[m] = h
        BY <1>7, <1>9, <1>10, <3>1, <3>2
      <3>3. CASE files[m] # h
        BY <1>9, <3>1, <3>3
      <3> QED
        BY <3>2, <3>3
    <2>3. ASSUME handle[d] # Absent PROVE Versed(d, Place(d), data'[handle[d]])
      <3>1. handle[d] \in Inodes /\ Versed(d, Place(d), data[handle[d]])
        BY <1>2, <1>12, <2>1, <2>3 DEF TypeOK, DataInv
      <3>2. CASE handle[d] = h
        BY <1>7, <1>9, <1>11, <3>1, <3>2
      <3>3. CASE handle[d] # h
        BY <1>9, <3>1, <3>3
      <3> QED
        BY <3>2, <3>3
    <2> QED
      BY <2>2, <2>3
  <1>13. ASSUME NEW d \in Calls PROVE DataInv(d)'
    <2>1. /\ \A m, f : Versed(d, m, f)' = Versed(d, m, f)
          /\ \A m : about(m)' = about(m)
          /\ Place(d)' = Place(d) /\ running(d)' = running(d)
      BY <1>1, SameVersions DEF running
    <2> SUFFICES ASSUME running(d) PROVE DataInv(d)'
      BY <2>1 DEF DataInv
    <2>2. /\ \A m \in Names : d \in about(m) /\ files[m] # Absent =>
               Versed(d, m, data'[files[m]])
          /\ handle[d] # Absent => Versed(d, Place(d), data'[handle[d]])
      BY <1>12
    <2> QED
      BY <1>1, <2>1, <2>2 DEF DataInv
  <1>14. ASSUME NEW d \in Calls, d # c PROVE CallInv(d)'
    <2>1. Stays(d) /\ CallInv(d)
      BY <1>1, <1>5, <1>14 DEF Stays, IInv
    <2>2. d \in about(n) => d \in disturbed'
      BY <1>1, <1>14
    <2>3. \A m \in Names : m # n => /\ files'[m] = files[m]
                                    /\ files[m] # Absent => data'[files[m]] = data[files[m]]
      BY <1>1, <1>2, <1>9, <1>10 DEF TypeOK
    <2> QED
      BY <1>1, <1>2, <1>3, <1>13, <2>1, <2>2, <2>3, Beside
  <1>15. ~Over(c)' /\ pc'[c] = "write"
    BY <1>1 DEF Over
  <1>16. PcInv(c)' /\ ReadInv(c)' /\ ListInv(c)'
    BY <1>1, <1>2, <1>3, <1>15 DEF PcInv, ReadInv, ListInv, Listing
  <1>17. WriteInv(c)'
    <2> SUFFICES ASSUME c \notin disturbed'
                 PROVE  WriteInv(c)'
      BY DEF WriteInv
    <2>1. files[n] = h /\ data[h] = SubSeq(text, 1, size[c])
      BY <1>1, <1>2, <1>3 DEF WriteInv
    <2>2. new = SubSeq(text, 1, pos)
      <3>1. size[c] < Len(text)
        BY <1>3
      <3>2. put(SubSeq(text, 1, size[c]), pos, text[pos]) = SubSeq(text, 1, pos)
        BY <1>3, <3>1, PutNext
      <3> QED
        BY <2>1, <3>2 DEF new
    <2> QED
      BY <1>1, <1>3, <1>5, <1>9, <1>15, <2>1, <2>2 DEF WriteInv
  <1>18. TypeOK'
    <2>1. disturbed' \subseteq Calls
      BY <1>1, <1>2, Requests DEF TypeOK, about
    <2> QED
      BY <1>1, <1>2, <1>5, <1>9, <2>1 DEF TypeOK
  <1>19. FileInv'
    <2>1. /\ \A d : Place(d)' = Place(d)
          /\ \A d : running(d)' = running(d)
      BY <1>1 DEF Place, running
    <2> QED
      BY <1>1, <1>2, <2>1 DEF FileInv
  <1> QED
    BY <1>13, <1>14, <1>16, <1>17, <1>18, <1>19 DEF IInv, CallInv

LEMMA WriteStep ==
  ASSUME IInv, NEW c \in Calls, Write(c)
  PROVE  IInv'
  <1> DEFINE text == request[c].content
  <1>1. CASE size[c] + 1 <= Len(text)
    BY <1>1, WriteBlockStep
  <1>2. CASE ~(size[c] + 1 <= Len(text))
    <2>1. /\ UNCHANGED <<request, files, data, dir, disturbed, handle, outcome, before>>
          /\ UNCHANGED <<size, content, entries, names>>
          /\ pc[c] = "write" /\ Go(c, "success")
      BY <1>2 DEF Write, At, Same
    <2>2. TypeOK /\ PcInv(c) /\ WriteInv(c)
      BY DEF IInv, CallInv
    <2>3. /\ pc' \in [Calls -> Places] /\ pc'[c] = "success"
          /\ \A d \in Calls : d # c => pc'[d] = pc[d]
      BY <2>1, <2>2, Moved DEF Places
    <2>4. /\ c \in DOMAIN request /\ Place(c) \in Names /\ Place(c)' = Place(c)
          /\ request[c].tool = "write_file" /\ text \in Seq(Blocks) /\ size[c] \in Nat
          /\ handle[c] # Absent
      BY <2>1, <2>2, Requests DEF PcInv, TypeOK, Place
    <2>5. PcInv(c)' /\ ReadInv(c)' /\ ListInv(c)'
      BY <2>1, <2>2, <2>3, <2>4 DEF PcInv, ReadInv, ListInv, Listing, Over
    <2>6. WriteInv(c)'
      <3> SUFFICES ASSUME c \notin disturbed PROVE WriteInv(c)'
        BY <2>1 DEF WriteInv
      <3>1. /\ files[Place(c)] = handle[c] /\ size[c] <= Len(text)
            /\ data[handle[c]] = SubSeq(text, 1, size[c])
        BY <2>1, <2>2, <2>4 DEF WriteInv
      <3>2. size[c] = Len(text) /\ SubSeq(text, 1, Len(text)) = text
        BY <1>2, <2>4, <3>1
      <3>3. blocks(Place(c))' = text
        BY <2>1, <2>4, <3>1, <3>2 DEF blocks
      <3> QED
        BY <2>1, <2>3, <2>4, <3>3 DEF WriteInv
    <2>7. TypeOK'
      BY <2>1, <2>2, <2>3 DEF TypeOK
    <2>8. running(c) /\ running(c)' /\ \A d \in Calls : d # c => Stays(d)
      BY <2>1, <2>3 DEF running, Stays
    <2> QED
      BY <2>1, <2>5, <2>6, <2>7, <2>8, LocalStep
  <1> QED
    BY <1>1, <1>2


------------------------------------------------------------------------------
(* The steps of execute_tool, and of somebody else. *)

LEMMA EndStep ==
  ASSUME IInv, NEW c \in Calls, Return(c) \/ TimedOut(c) \/ Dies(c)
  PROVE  IInv'
  <1> DEFINE Outcomes == {"none", "result", "exception", "ToolExecutionError"}
             n == Place(c)
             text == request[c].content
  <1>1. /\ UNCHANGED <<request, files, data, dir, disturbed, before>>
        /\ UNCHANGED <<size, content, entries, names>>
        /\ Go(c, "done") /\ handle' = [handle EXCEPT ![c] = Absent]
        /\ pc[c] # "new" /\ pc[c] # "done"
        /\ \E how \in Outcomes :
             /\ outcome' = [outcome EXCEPT ![c] = how]
             /\ how = "result" => pc[c] = "success"
    <2>1. CASE Return(c)
      BY <2>1 DEF Return, End, fs, Unchanging
    <2>2. CASE TimedOut(c) \/ Dies(c)
      BY <2>2 DEF TimedOut, Dies, running, End, fs, Unchanging
    <2> QED
      BY <2>1, <2>2
  <1> PICK how \in Outcomes : /\ outcome' = [outcome EXCEPT ![c] = how]
                              /\ how = "result" => pc[c] = "success"
    BY <1>1
  <1>2. TypeOK /\ PcInv(c) /\ FileInv /\ WriteInv(c) /\ ReadInv(c) /\ ListInv(c)
    BY DEF IInv, CallInv
  <1>3. /\ pc' \in [Calls -> Places] /\ pc'[c] = "done"
        /\ \A d \in Calls : d # c => pc'[d] = pc[d]
    BY <1>1, <1>2, Moved DEF Places
  <1>4. /\ outcome' \in [Calls -> Outcomes] /\ outcome'[c] = how
        /\ \A d \in Calls : d # c => outcome'[d] = outcome[d]
    BY <1>2 DEF TypeOK
  <1>5. /\ handle' \in [Calls -> Inodes \cup {Absent}] /\ handle'[c] = Absent
        /\ \A d \in Calls : d # c => handle'[d] = handle[d]
    BY <1>1, <1>2 DEF TypeOK
  <1>6. c \in DOMAIN request /\ n' = n /\ n \in Names \cup {Dir} /\ text \in Seq(Blocks)
    BY <1>1, <1>2, Requests DEF PcInv, TypeOK, Place
  <1>7. (Over(c)' => Over(c)) /\ (Over(c)' <=> how = "result")
    BY <1>3, <1>4 DEF Over
  <1>8. ASSUME NEW d \in Calls, d # c PROVE CallInv(d)' /\ running(d)' = running(d)
    <2>1. Stays(d)
      BY <1>1, <1>3, <1>4, <1>5, <1>8 DEF Stays
    <2> QED
      BY <1>1, <2>1, Quiet DEF IInv, Stays, running
  <1>9. TypeOK'
    BY <1>1, <1>2, <1>3, <1>4, <1>5 DEF TypeOK
  <1>10. FileInv'
    <2>1. \A d : Place(d)' = Place(d)
      BY <1>1 DEF Place
    <2>2. \A d \in Calls : handle'[d] # Absent => d # c /\ handle'[d] = handle[d]
      BY <1>5
    <2>3. ASSUME NEW d \in Calls, handle'[d] # Absent
          PROVE  /\ running(d)' /\ d \in DOMAIN request /\ Place(d) \in Names
                 /\ \A m \in Names : files[m] = handle'[d] => m = Place(d)
                 /\ \A e \in Calls : handle'[e] = handle'[d] => Place(e) = Place(d)
      BY <1>2, <1>8, <2>2, <2>3 DEF FileInv
    <2> QED
      BY <1>1, <1>2, <2>1, <2>3 DEF FileInv
  <1>11. PcInv(c)'
    BY <1>1, <1>2, <1>3, <1>6, <1>7 DEF PcInv
  <1>12. DataInv(c)'
    BY <1>3 DEF DataInv, running
  <1>13. ReadInv(c)'
    BY <1>1, <1>2, <1>3, <1>6, <1>7, SameVersions DEF ReadInv, blocks
  <1>14. ListInv(c)'
    <2> SUFFICES ASSUME Listing(c)' PROVE (ListOrder(c) /\ ListSizes(c)
                                            /\ (c \notin disturbed => ListTrue(c)))'
      BY DEF ListInv
    <2>1. Listing(c) /\ Over(c)
      BY <1>1, <1>3, <1>7 DEF Listing
    <2>2. \A m : versions(c, m)' = versions(c, m)
      BY <1>1, SameVersions
    <2>3. ListOrder(c) /\ ListSizes(c) /\ (c \notin disturbed => ListTrue(c))
      BY <1>2, <2>1 DEF ListInv
    <2>4. ListOrder(c)' /\ ListSizes(c)'
      BY <1>1, <1>3, <2>1, <2>2, <2>3 DEF ListOrder, ListSizes
    <2>5. c \notin disturbed => ListTrue(c)'
      BY <1>1, <1>3, <2>3 DEF ListTrue
    <2> QED
      BY <1>1, <2>4, <2>5
  <1>15. WriteInv(c)'
    <2> SUFFICES ASSUME request[c].tool = "write_file", c \notin disturbed
                 PROVE  WriteInv(c)'
      BY <1>1 DEF WriteInv
    <2>1. blocks(n)' = blocks(n)
      BY <1>1 DEF blocks, Place
    <2>2. how = "result" => blocks(n) = text
      BY <1>2, <1>6 DEF WriteInv, Over
    <2>3. n = Dir \/ blocks(n) = before[c][n] \/ IsPrefix(blocks(n), text)
      <3>1. CASE pc[c] \in {"length", "mkdir", "create", "exception"}
        BY <1>2, <1>6, <3>1 DEF WriteInv
      <3>2. CASE pc[c] = "success"
        <4>1. blocks(n) = text
          BY <1>2, <1>6, <3>2 DEF WriteInv, Over
        <4>2. Len(text) \in Nat
          BY <1>6
        <4> QED
          BY <4>1, <4>2 DEF IsPrefix
      <3>3. CASE pc[c] = "write"
        <4>1. /\ files[n] = handle[c] /\ handle[c] # Absent /\ size[c] <= Len(text)
              /\ data[handle[c]] = SubSeq(text, 1, size[c]) /\ size[c] \in Nat
          BY <1>2, <1>6, <3>3 DEF WriteInv, PcInv, TypeOK
        <4>2. blocks(n) = SubSeq(text, 1, size[c])
          BY <4>1 DEF blocks
        <4>3. Len(SubSeq(text, 1, size[c])) = size[c]
          BY <1>6, <4>1
        <4>4. SubSeq(SubSeq(text, 1, size[c]), 1, size[c]) = SubSeq(text, 1, size[c])
          BY <1>6, <4>1, <4>3
        <4> QED
          BY <4>1, <4>2, <4>3, <4>4 DEF IsPrefix
      <3> QED
        BY <1>1, <1>2, <3>1, <3>2, <3>3 DEF PcInv, TypeOK, Places
    <2> QED
      BY <1>1, <1>3, <1>6, <1>7, <2>1, <2>2, <2>3 DEF WriteInv
  <1> QED
    BY <1>8, <1>9, <1>10, <1>11, <1>12, <1>13, <1>14, <1>15 DEF IInv, CallInv

LEMMA BeginStep ==
  ASSUME IInv, NEW c \in Calls, Begin(c)
  PROVE  IInv'
  <1> DEFINE n == Place(c)
  <1>1. /\ UNCHANGED <<request, files, data, dir, handle>>
        /\ UNCHANGED <<size, content, entries, names>>
        /\ c \in DOMAIN request /\ pc[c] = "new"
        /\ before' = [before EXCEPT ![c] = [m \in Names |-> blocks(m)]]
        /\ disturbed' = disturbed \ {c}
    BY DEF Begin, At, fs, locals
  <1>2. TypeOK /\ PcInv(c) /\ FileInv
    BY DEF IInv, CallInv
  <1>3. /\ n \in Names \cup {Dir} /\ n' = n /\ outcome[c] = "none" /\ size[c] = 0
        /\ content[c] = <<>> /\ entries[c] = <<>> /\ handle[c] = Absent
    BY <1>1, <1>2, Requests DEF PcInv, FileInv, running, TypeOK, Place
  <1>4. \/ /\ request[c].tool \in {"read_file", "list_dir"} /\ Go(c, "exists")
           /\ outcome' = outcome
        \/ /\ request[c].tool = "write_file" /\ Go(c, "length") /\ outcome' = outcome
        \/ /\ request[c].tool = "shell_command" /\ Go(c, "shell") /\ outcome' = outcome
        \/ \E how \in {"exception", "ToolExecutionError"} :
             Go(c, "done") /\ outcome' = [outcome EXCEPT ![c] = how]
    <2>1. CASE /\ request[c].tool \in TOOL_FUNCTIONS
               /\ Go(c, first(request[c].tool)) /\ outcome' = outcome
      BY <2>1 DEF first, TOOL_FUNCTIONS
    <2>2. CASE \E how \in refusals(c) : Go(c, "done") /\ outcome' = [outcome EXCEPT ![c] = how]
      BY <2>2 DEF refusals
    <2> QED
      BY <2>1, <2>2 DEF Begin
  <1>5. /\ outcome' \in [Calls -> {"none", "result", "exception", "ToolExecutionError"}]
        /\ outcome'[c] \in {"none", "exception", "ToolExecutionError"}
        /\ \A d \in Calls : d # c => outcome'[d] = outcome[d]
    BY <1>2, <1>3, <1>4 DEF TypeOK
  <1>6. /\ pc' \in [Calls -> Places]
        /\ \A d \in Calls : d # c => pc'[d] = pc[d]
        /\ \/ request[c].tool \in {"read_file", "list_dir"} /\ pc'[c] = "exists"
           \/ request[c].tool = "write_file" /\ pc'[c] = "length"
           \/ request[c].tool = "shell_command" /\ pc'[c] = "shell"
           \/ pc'[c] = "done"
        /\ pc'[c] # "done" => outcome'[c] = "none"
    <2>1. {"exists", "length", "shell", "done"} \subseteq Places
      BY DEF Places
    <2>2. \A there \in Places : Go(c, there) =>
            /\ pc' \in [Calls -> Places] /\ pc'[c] = there
            /\ \A d \in Calls : d # c => pc'[d] = pc[d]
      BY <1>2, Moved
    <2> QED
      BY <1>3, <1>4, <2>1, <2>2
  <1>7. \A m \in Names : blocks(m) \in Seq(Cells) \cup {Absent}
    BY <1>2 DEF blocks, TypeOK
  <1>8. /\ before' \in [Calls -> [Names -> Seq(Cells) \cup {Absent}]]
        /\ \A m \in Names : before'[c][m] = blocks(m)
        /\ \A d \in Calls : d # c => before'[d] = before[d]
    BY <1>1, <1>2, <1>7 DEF TypeOK
  <1>9. ASSUME NEW d \in Calls, d # c PROVE CallInv(d)'
    <2>1. Stays(d)
      BY <1>1, <1>5, <1>6, <1>8, <1>9 DEF Stays
    <2>2. d \in disturbed => d \in disturbed'
      BY <1>1, <1>9
    <2> QED
      BY <1>1, <2>1, <2>2, Quiet DEF IInv
  <1>10. TypeOK'
    BY <1>1, <1>2, <1>5, <1>6, <1>8 DEF TypeOK
  <1>11. FileInv'
    <2>1. \A d : Place(d)' = Place(d)
      BY <1>1 DEF Place
    <2>2. \A d \in Calls : handle[d] # Absent => running(d)'
      BY <1>2, <1>3, <1>6 DEF FileInv, running
    <2> QED
      BY <1>1, <1>2, <2>1, <2>2 DEF FileInv
  <1>12. ~Over(c)' /\ ~Listing(c)'
    BY <1>5, <1>6 DEF Over, Listing
  <1>13. PcInv(c)'
    BY <1>1, <1>3, <1>6, <1>12 DEF PcInv
  <1>14. ReadInv(c)' /\ ListInv(c)'
    BY <1>6, <1>12 DEF ReadInv, ListInv
  <1>15. WriteInv(c)'
    <2>1. n \in Names => blocks(n)' = before'[c][n]
      BY <1>1, <1>8 DEF blocks, Place
    <2> QED
      BY <1>1, <1>3, <1>6, <1>12, <2>1 DEF WriteInv
  <1>16. DataInv(c)'
    <2>1. ASSUME NEW m \in Names, files[m] # Absent
          PROVE  Versed(c, m, data[files[m]])'
      <3>1. data[files[m]] \in Seq(Cells) /\ data[files[m]] # Absent
        BY <1>2, <2>1, Requests DEF TypeOK
      <3>2. before'[c][m] = data[files[m]]
        BY <1>8, <2>1 DEF blocks
      <3>3. data'[files'[m]] = data[files[m]]
        BY <1>1
      <3>4. data[files[m]] \in versions(c, m)'
        BY <3>1, <3>2 DEF versions
      <3>5. Len(data[files[m]]) \in Nat
        BY <3>1
      <3> QED
        BY <3>3, <3>4, <3>5 DEF Versed, Genuine
    <2> QED
      BY <1>1, <1>3, <2>1 DEF DataInv
  <1> QED
    BY <1>9, <1>10, <1>11, <1>13, <1>14, <1>15, <1>16 DEF IInv, CallInv

LEMMA UnlinkStep ==
  ASSUME IInv, NEW n \in Names, Unlink(n)
  PROVE  IInv'
  <1>1. /\ UNCHANGED <<request, pc, dir, data, outcome, before>>
        /\ UNCHANGED <<handle, size, content, entries, names>>
        /\ files' = [files EXCEPT ![n] = Absent]
        /\ disturbed' = disturbed \cup about(n)
    BY DEF Unlink, locals, Changes
  <1>2. TypeOK /\ FileInv
    BY DEF IInv
  <1>3. /\ files' \in [Names -> Inodes \cup {Absent}] /\ files'[n] = Absent
        /\ \A m \in Names : m # n => files'[m] = files[m]
    BY <1>1, <1>2 DEF TypeOK
  <1>4. \A d : running(d)' = running(d) /\ Place(d)' = Place(d)
    BY <1>1 DEF running, Place
  <1>5. ASSUME NEW d \in Calls PROVE CallInv(d)'
    <2>1. Stays(d) /\ CallInv(d)
      BY <1>1 DEF Stays, IInv
    <2>2. DataInv(d)'
      <3>1. DataInv(d) /\ running(d)' = running(d) /\ Place(d)' = Place(d)
        BY <1>4, <2>1 DEF CallInv
      <3>2. /\ \A m, f : Versed(d, m, f)' = Versed(d, m, f)
            /\ \A m : about(m)' = about(m)
        BY <1>1, SameVersions
      <3>3. \A m \in Names : files'[m] # Absent => files'[m] = files[m]
        BY <1>3
      <3> QED
        BY <1>1, <3>1, <3>2, <3>3 DEF DataInv
    <2>3. d \in about(n) => d \in disturbed'
      BY <1>1
    <2> QED
      BY <1>1, <1>2, <1>3, <2>1, <2>2, <2>3, Beside
  <1>6. TypeOK'
    <2>1. disturbed' \subseteq Calls
      BY <1>1, <1>2, Requests DEF TypeOK, about
    <2> QED
      BY <1>1, <1>2, <1>3, <2>1 DEF TypeOK
  <1>7. FileInv'
    BY <1>1, <1>2, <1>3, <1>4 DEF FileInv, TypeOK
  <1> QED
    BY <1>5, <1>6, <1>7 DEF IInv


------------------------------------------------------------------------------

LEMMA Initially == Init => IInv
  <1> SUFFICES ASSUME Init PROVE IInv
    OBVIOUS
  <1>1. PICK there \in SUBSET Names, old \in Contents :
          /\ there # {} => dir
          /\ files = [n \in Names |-> IF n \in there THEN n ELSE Absent]
          /\ data = [k \in Inodes |-> IF k \in there THEN old ELSE <<>>]
    BY DEF Init
  <1>2. request \in Workloads /\ dir \in BOOLEAN
    BY DEF Init
  <1>3. \A c \in Calls : /\ pc[c] = "new" /\ handle[c] = Absent /\ size[c] = 0
                         /\ content[c] = <<>> /\ entries[c] = <<>> /\ names[c] = <<>>
                         /\ outcome[c] = "none"
    BY DEF Init
  <1>4. TypeOK
    <2>1. files \in [Names -> Inodes \cup {Absent}]
      BY <1>1, <1>2, Requests
    <2>2. old \in Seq(Cells) /\ <<>> \in Seq(Cells)
      BY FilesAssumption DEF Cells
    <2>3. data \in [Inodes -> Seq(Cells)]
      BY <1>1, <2>2
    <2>4. /\ content \in [Calls -> Seq(Cells)]
          /\ entries \in [Calls -> Seq(Entry)]
          /\ names \in [Calls -> Seq(Names)]
      BY DEF Init
    <2>5. before \in [Calls -> [Names -> Seq(Cells) \cup {Absent}]]
      BY DEF Init
    <2>6. /\ handle \in [Calls -> Inodes \cup {Absent}] /\ size \in [Calls -> Nat]
          /\ pc \in [Calls -> Places]
          /\ outcome \in [Calls -> {"none", "result", "exception", "ToolExecutionError"}]
          /\ disturbed \subseteq Calls
      BY DEF Init, Places
    <2> QED
      BY <1>2, <2>1, <2>3, <2>4, <2>5, <2>6 DEF TypeOK
  <1>5. FileInv
    <2>1. \A n \in Names : files[n] # Absent => n \in there /\ files[n] = n
      BY <1>1
    <2> QED
      BY <1>1, <1>3, <2>1 DEF FileInv
  <1>6. ASSUME NEW c \in Calls PROVE CallInv(c)
    <2>1. pc[c] = "new" /\ ~Over(c) /\ ~running(c) /\ ~Listing(c)
      BY <1>3 DEF Over, running, Listing
    <2> QED
      BY <1>3, <2>1 DEF CallInv, PcInv, DataInv, ReadInv, WriteInv, ListInv
  <1> QED
    BY <1>4, <1>5, <1>6 DEF IInv

LEMMA Inductive == IInv /\ [Next]_vars => IInv'
  <1> SUFFICES ASSUME IInv, [Next]_vars PROVE IInv'
    OBVIOUS
  <1>1. ASSUME NEW c \in Calls, Tool(c) PROVE IInv'
    <2>1. CASE Exists(c) \/ Kind(c) \/ CheckLength(c) \/ Shell(c)
      BY <2>1, LookStep
    <2>2. CASE Stat(c)
      BY <2>2, StatStep
    <2>3. CASE Open(c)
      BY <2>3, OpenStep
    <2>4. CASE Read(c)
      BY <2>4, ReadStep
    <2>5. CASE Mkdir(c)
      BY <2>5, MkdirStep
    <2>6. CASE Create(c)
      BY <2>6, CreateStep
    <2>7. CASE Write(c)
      BY <2>7, WriteStep
    <2>8. CASE Iterdir(c)
      BY <2>8, IterdirStep
    <2>9. CASE StatEntry(c)
      BY <2>9, StatEntryStep
    <2>10. CASE KindOfEntry(c)
      BY <2>10, KindOfEntryStep
    <2>11. CASE Listed(c)
      BY <2>11, ListedStep
    <2> QED
      BY <1>1, <2>1, <2>2, <2>3, <2>4, <2>5, <2>6, <2>7, <2>8, <2>9, <2>10, <2>11 DEF Tool
  <1>2. ASSUME NEW c \in Calls, Begin(c) PROVE IInv'
    BY <1>2, BeginStep
  <1>3. ASSUME NEW c \in Calls, Return(c) \/ TimedOut(c) \/ Dies(c) PROVE IInv'
    BY <1>3, EndStep
  <1>4. ASSUME NEW n \in Names, Unlink(n) PROVE IInv'
    BY <1>4, UnlinkStep
  <1>5. CASE UNCHANGED vars
    <2>1. /\ UNCHANGED <<request, pc, fs, disturbed, handle, outcome, before>>
          /\ UNCHANGED <<size, content, entries, names>>
      BY <1>5 DEF vars, locals
    <2>2. UNCHANGED <<files, data, dir>>
      BY <2>1 DEF fs
    <2>3. ASSUME NEW d \in Calls PROVE CallInv(d)'
      BY <2>1, <2>2, Quiet DEF IInv, Stays
    <2>4. TypeOK' /\ FileInv'
      BY <2>1, <2>2 DEF IInv, TypeOK, FileInv, running, Place
    <2> QED
      BY <2>3, <2>4 DEF IInv
  <1> QED
    BY <1>1, <1>2, <1>3, <1>4, <1>5 DEF Next

LEMMA Invariant == Spec => []IInv
  BY Initially, Inductive, PTL DEF Spec

LEMMA Reported ==
  ASSUME IInv, NEW c \in DOMAIN request, outcome[c] = "result"
  PROVE  c \in Calls /\ pc[c] = "done" /\ Over(c) /\ CallInv(c)
  <1>1. c \in Calls
    BY Requests DEF IInv, TypeOK
  <1> QED
    BY <1>1 DEF IInv, CallInv, PcInv, Over

LEMMA ReadsAreWhole == IInv => ReadWhole
  <1> SUFFICES ASSUME IInv, NEW c \in DOMAIN request, Succeeded(c, "read_file")
               PROVE  LET n == request[c].path
                      IN  IF c \in disturbed
                          THEN \A pos \in DOMAIN content[c] :
                                 \/ content[c][pos] = "hole"
                                 \/ \E v \in versions(c, n) :
                                      pos \in DOMAIN v /\ v[pos] = content[c][pos]
                          ELSE /\ content[c] = blocks(n)
                               /\ Len(content[c]) = size[c] /\ size[c] <= max_size
    BY DEF ReadWhole
  <1>1. request[c].tool = "read_file" /\ Over(c) /\ ReadInv(c)
    BY Reported DEF Succeeded, CallInv
  <1>2. /\ \A pos \in DOMAIN content[c] : Genuine(c, Place(c), pos, content[c][pos])
        /\ c \notin disturbed => /\ content[c] = blocks(Place(c))
                                 /\ Len(content[c]) = size[c]
                                 /\ size[c] <= max_size
    BY <1>1 DEF ReadInv
  <1> QED
    BY <1>2 DEF Genuine, Place

LEMMA ListsAreWhole == IInv => ListWhole
  <1> SUFFICES ASSUME IInv, NEW c \in DOMAIN request, Succeeded(c, "list_dir")
               PROVE  /\ \A k \in DOMAIN entries[c] :
                           LET e == entries[c][k]
                           IN  /\ k > 1 => entries[c][k - 1].name < e.name
                               /\ e.type = "unknown" <=> e.name \in Protected
                               /\ e.size # Absent =>
                                    \E v \in versions(c, e.name) : e.size \in 0 .. Len(v)
                      /\ c \notin disturbed =>
                           /\ {entries[c][k].name : k \in DOMAIN entries[c]}
                                = {n \in Names : files[n] # Absent}
                           /\ \A k \in DOMAIN entries[c] :
                                entries[c][k].name \notin Protected =>
                                  entries[c][k].size = Len(blocks(entries[c][k].name))
    BY DEF ListWhole
  <1>1. c \in Calls /\ Over(c) /\ CallInv(c) /\ TypeOK
    BY Reported DEF Succeeded, IInv
  <1>2. Listing(c)
    BY <1>1 DEF Listing, Succeeded
  <1>3. ListOrder(c) /\ ListSizes(c) /\ (c \notin disturbed => ListTrue(c)) /\ names[c] = <<>>
    BY <1>1, <1>2 DEF CallInv, ListInv, ListOrder
  <1>4. entries[c] \in Seq(Entry)
    BY <1>1 DEF TypeOK
  <1>5. ASSUME NEW k \in DOMAIN entries[c]
        PROVE  /\ entries[c][k].name \in Names
               /\ entries[c][k].size \in Nat \cup {Absent}
    <2>1. entries[c][k] \in Entry
      <3> HIDE DEF Entry
      <3> QED
        BY <1>4
    <2> QED
      BY <2>1 DEF Entry
  <1>6. ASSUME NEW k \in DOMAIN entries[c], k > 1
        PROVE  entries[c][k - 1].name < entries[c][k].name
    <2>1. k - 1 \in DOMAIN entries[c] /\ k - 1 < k
      BY <1>4, <1>6
    <2> QED
      BY <1>3, <2>1 DEF ListOrder
  <1>7. \A k \in DOMAIN entries[c] :
          entries[c][k].type = "unknown" <=> entries[c][k].name \in Protected
    BY <1>3 DEF ListOrder
  <1>8. ASSUME NEW k \in DOMAIN entries[c], entries[c][k].size # Absent
        PROVE  \E v \in versions(c, entries[c][k].name) : entries[c][k].size \in 0 .. Len(v)
    <2>1. PICK v \in versions(c, entries[c][k].name) : entries[c][k].size <= Len(v)
      BY <1>3, <1>8 DEF ListSizes
    <2>2. v \in Seq(Cells)
      BY <1>1, <1>5, <2>1, VersionsAreFiles
    <2> QED
      BY <1>5, <1>8, <2>1, <2>2
  <1>9. ASSUME c \notin disturbed
        PROVE  /\ {entries[c][k].name : k \in DOMAIN entries[c]}
                    = {n \in Names : files[n] # Absent}
               /\ \A k \in DOMAIN entries[c] :
                    entries[c][k].name \notin Protected =>
                      entries[c][k].size = Len(blocks(entries[c][k].name))
    <2>1. ListTrue(c) /\ DOMAIN names[c] = {}
      BY <1>3, <1>9
    <2>2. \A n \in Names : files[n] # Absent
                             <=> \E k \in DOMAIN entries[c] : entries[c][k].name = n
      BY <2>1 DEF ListTrue
    <2>3. {entries[c][k].name : k \in DOMAIN entries[c]} = {n \in Names : files[n] # Absent}
      BY <1>5, <2>2
    <2>4. ASSUME NEW k \in DOMAIN entries[c], entries[c][k].name \notin Protected
          PROVE  entries[c][k].size = Len(blocks(entries[c][k].name))
      <3>1. files[entries[c][k].name] # Absent
        BY <1>5, <2>2
      <3> QED
        BY <2>1, <2>4, <3>1 DEF ListTrue, blocks
    <2> QED
      BY <2>3, <2>4
  <1> QED
    BY <1>6, <1>7, <1>8, <1>9

(* What tool_read_file and tool_list_dir report of files is true of them,  *)
(* whatever the other calls and somebody who removes files do between the  *)
(* system calls of the tool, and wherever processes are killed.            *)
THEOREM ResultIsWhole == Spec => []ResultWhole
  <1>1. IInv => ResultWhole
    BY ReadsAreWhole, ListsAreWhole DEF ResultWhole
  <1> QED
    BY <1>1, Invariant, PTL

(* What tool_write_file reports to have written is there, and what is left *)
(* of a call that failed, timed out or was killed is the old file or a     *)
(* prefix of the new one.                                                  *)
THEOREM WriteIsWhole == Spec => []WriteWhole
  <1>1. IInv => WriteWhole
    <2> SUFFICES ASSUME IInv, NEW c \in DOMAIN request \ disturbed,
                        request[c].tool = "write_file", pc[c] = "done"
                 PROVE  LET n == request[c].path
                        IN  IF outcome[c] = "result" THEN blocks(n) = request[c].content
                            ELSE \/ n = Dir
                                 \/ blocks(n) = before[c][n]
                                 \/ IsPrefix(blocks(n), request[c].content)
      BY DEF WriteWhole
    <2>1. c \in Calls
      BY Requests DEF IInv, TypeOK
    <2>2. WriteInv(c)
      BY <2>1 DEF IInv, CallInv
    <2> QED
      BY <2>2 DEF WriteInv, Over, Place
  <1> QED
    BY <1>1, Invariant, PTL


===============================================================================
