--------------------------- MODULE MCAgentSandbox ---------------------------
(* The default policy with a small rate limit for TLC, and one request for  *)
(* every way validate_tool_call can answer.                                 *)
EXTENDS AgentSandbox

CONSTANTS s1, s2

MCPolicy == [DEFAULT_POLICY EXCEPT !.max_calls_per_session = 1]

MCRequests ==
  {[tool |-> "read_file", args |-> [path |-> "data/log"]],
   [tool |-> "read_file", args |-> [path |-> "data/key"]],
   [tool |-> "write_file", args |-> [path |-> "data/log"]],
   [tool |-> "list_dir", args |-> [path |-> "var/x.d"]],
   [tool |-> "shell_command", args |-> [command |-> "date -u"]],
   [tool |-> "shell_command", args |-> [command |-> "echo $(date)"]],
   [tool |-> "http_request", args |-> [url |-> "site"]],
   [tool |-> "unknown", args |-> [arg |-> "value"]]}

(* ... and one whose "args" is not an object. *)
MCMalformed == MCRequests \cup {[tool |-> "read_file", args |-> NotAnObject]}

=============================================================================
