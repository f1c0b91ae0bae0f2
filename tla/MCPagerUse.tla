----------------------------- MODULE MCPagerUse -----------------------------
EXTENDS PagerUse

(* Two scenarios like those that are shipped, one whose id names a file    *)
(* that does not parse, and that file.                                     *)
MCReadable == {"easy", "hard", "renamed"}
MCFiles    == MCReadable \cup {"draft"}
MCId       == [f \in MCReadable |-> IF f = "renamed" THEN "draft" ELSE f]
MCAllow    == [f \in MCReadable |-> {"top"}]
MCMode     == [f \in MCReadable |-> IF f = "hard" THEN "remote" ELSE "mock"]

=============================================================================
