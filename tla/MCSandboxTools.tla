--------------------------- MODULE MCSandboxTools ---------------------------
(* Every call alone, a writer beside another call on the same file, in a   *)
(* directory of two files, one of which is protected.                       *)
EXTENDS SandboxTools, TLC

CONSTANTS c1, c2

Call(tool, path, text) == [tool |-> tool, path |-> path, content |-> text]

Read1  == Call("read_file", 1, <<>>)
List   == Call("list_dir", Dir, <<>>)
Writes == {Call("write_file", 1, <<"a", "a">>), Call("write_file", 1, <<"b">>)}

MCRequests ==
  {Call(t, p, <<>>) : t \in {"read_file", "list_dir"}, p \in {1, 2, Dir}}
  \cup Writes
  \cup {Call("write_file", 1, <<"a", "a", "a">>), Call("write_file", Dir, <<"a">>),
        Call("shell_command", Dir, <<>>), Call("unknown", Dir, <<>>)}

MCWorkloads ==
  {c1 :> r : r \in MCRequests}
  \cup {c1 :> w @@ c2 :> r : w \in Writes, r \in Writes \cup {Read1, List}}

MCContents == {<<"o", "o">>, <<"o", "o", "o">>}

=============================================================================
