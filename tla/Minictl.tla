------------------------------- MODULE Minictl -------------------------------
(***************************************************************************)
(* minictl: main chooses a command, and each command starts one child and  *)
(* waits for it.  With run the child is cloned into new namespaces and     *)
(* held at a pipe until the parent has set its namespace up.               *)
(*                                                                         *)
(* The parts that are still exercises do nothing and are modelled so: the  *)
(* uid and gid maps are not written, no cgroup is created, no mount is     *)
(* made, and the chroot child does not reach its command.                  *)
(***************************************************************************)
EXTENDS Naturals

CONSTANTS
  Commands,       \* values of argv[1]
  Statuses        \* exit statuses of the container's command

ASSUME MinictlAssumption == Statuses \subseteq 0 .. 255

Signalled == 256    \* the status of a child that a signal ended

VARIABLES
  pc,             \* the parent: where it stands, "exited" or "killed"
  command,
  user,           \* "root", which getuid() == 0 tells, or "other"
  status,         \* exit status of minictl
  child,          \* the child: "none", where it stands, "dead" or "reaped"
  childStatus,    \* exit status of the child, or Signalled
  writers, readers,   \* who holds the two ends of the pipe
  buffer,         \* bytes in the pipe
  setup,          \* the user namespace: "no", "done" or "failed"
  executed        \* history: was the command executed, "no" or "yes"

parentVars == <<pc, command, user, status>>
childVars  == <<child, childStatus, executed>>
pipeVars   == <<writers, readers, buffer>>
vars == <<parentVars, childVars, pipeVars, setup>>

Init ==
  /\ pc = "main"
  /\ command \in Commands
  /\ user \in {"root", "other"}
  /\ status = 0
  /\ child = "none"
  /\ childStatus = 0
  /\ writers = {}
  /\ readers = {}
  /\ buffer = 0
  /\ setup = "no"
  /\ executed = "no"

(* The end of a process closes its ends of the pipe. *)
Closes(who) ==
  /\ writers' = writers \ {who}
  /\ readers' = readers \ {who}
  /\ UNCHANGED buffer

ParentEnds(how, s) ==
  /\ pc' = how
  /\ status' = s
  /\ Closes("parent")

ParentGoes(here, there) == pc = here /\ pc' = there

------------------------------------------------------------------------------
(* The parent. *)

(* main; --help ends with status 0, run-image and everything unknown with  *)
(* status 1, and so do options that parse_run_options refuses.             *)
Main ==
  /\ pc = "main"
  /\ \/ /\ command \in {"run", "chroot"}
        /\ pc' = IF command = "run" THEN "pipe" ELSE "fork"
        /\ UNCHANGED <<status, pipeVars>>
     \/ command = "--help" /\ ParentEnds("exited", 0)
     \/ command # "--help" /\ ParentEnds("exited", 1)
  /\ UNCHANGED <<command, user, childVars, setup>>

(* cmd_chroot. *)
Fork ==
  /\ \/ /\ ParentGoes("fork", "wait")
        /\ child' = "fallen through"
        /\ UNCHANGED <<status, pipeVars>>
     \/ pc = "fork" /\ ParentEnds("exited", 1) /\ UNCHANGED child
  /\ UNCHANGED <<command, user, childStatus, executed, setup>>

(* cmd_run: pipe and malloc. *)
MakePipe ==
  /\ \/ /\ ParentGoes("pipe", "clone")
        /\ writers' = {"parent"}
        /\ readers' = {"parent"}
        /\ UNCHANGED <<status, buffer>>
     \/ pc = "pipe" /\ ParentEnds("exited", 1)
  /\ UNCHANGED <<command, user, childVars, setup>>

(* The child gets copies of both ends. *)
Clone ==
  /\ \/ /\ ParentGoes("clone", "close read")
        /\ child' = "close write"
        /\ writers' = writers \cup {"child"}
        /\ readers' = readers \cup {"child"}
        /\ UNCHANGED <<status, buffer>>
     \/ pc = "clone" /\ ParentEnds("exited", 1) /\ UNCHANGED child
  /\ UNCHANGED <<command, user, childStatus, executed, setup>>

CloseRead ==
  /\ ParentGoes("close read", "set up")
  /\ readers' = readers \ {"parent"}
  /\ UNCHANGED <<command, user, status, childVars, writers, buffer, setup>>

(* Bug: the parent gives up when setup_user_namespace fails, and leaves    *)
(* the child alone.                                                        *)
SetUpOrExit ==
  /\ \/ /\ ParentGoes("set up", "write")
        /\ setup' = "done"
        /\ UNCHANGED <<status, pipeVars>>
     \/ pc = "set up" /\ user # "root" /\ ParentEnds("exited", 1) /\ UNCHANGED setup
  /\ UNCHANGED <<command, user, childVars>>

(* setup_user_namespace, which matters only without root; its failure is   *)
(* reported and changes nothing.                                           *)
SetUp ==
  /\ ParentGoes("set up", "write")
  /\ \/ setup' = "done"
     \/ user # "root" /\ setup' = "failed"
  /\ UNCHANGED <<command, user, status, childVars, pipeVars>>

(* Bug: the byte is written before the set-up. *)
WriteEarly ==
  /\ pc \in {"set up", "write"} /\ buffer = 0
  /\ IF readers = {}
     THEN ParentEnds("killed", 1)
     ELSE /\ buffer' = 1
          /\ pc' = IF pc = "write" THEN "close write" ELSE pc
          /\ UNCHANGED <<status, writers, readers>>
  /\ UNCHANGED <<command, user, childVars, setup>>

(* The byte the child waits for; SIGPIPE if the child is gone. *)
Write ==
  /\ pc = "write"
  /\ IF readers = {}
     THEN ParentEnds("killed", 1)
     ELSE /\ buffer' = 1
          /\ pc' = "close write"
          /\ UNCHANGED <<status, writers, readers>>
  /\ UNCHANGED <<command, user, childVars, setup>>

CloseWrite ==
  /\ ParentGoes("close write", "wait")
  /\ writers' = writers \ {"parent"}
  /\ UNCHANGED <<command, user, status, childVars, readers, buffer, setup>>

(* Bug: a child that a signal ended has WEXITSTATUS 0. *)
WaitUnchecked ==
  /\ pc = "wait"
  /\ child = "dead"
  /\ child' = "reaped"
  /\ ParentEnds("exited", IF childStatus = Signalled THEN 0 ELSE childStatus)
  /\ UNCHANGED <<command, user, childStatus, executed, setup>>

(* waitpid, WIFEXITED and WEXITSTATUS. *)
Wait ==
  /\ pc = "wait"
  /\ child = "dead"
  /\ child' = "reaped"
  /\ ParentEnds("exited", IF childStatus = Signalled THEN 1 ELSE childStatus)
  /\ UNCHANGED <<command, user, childStatus, executed, setup>>

Parent ==
  Main \/ Fork \/ MakePipe \/ Clone \/ CloseRead \/ SetUp \/ Write
    \/ CloseWrite \/ Wait

------------------------------------------------------------------------------
(* The child. *)

ChildEnds(s) ==
  /\ child' = "dead"
  /\ childStatus' = s
  /\ Closes("child")

(* The chroot child has no command yet: it waits for a child of its own,   *)
(* has none, and returns 1.                                                *)
FallThrough ==
  /\ child = "fallen through"
  /\ ChildEnds(1)
  /\ UNCHANGED <<parentVars, executed, setup>>

(* Bug: the child keeps its write end. *)
ChildKeepsWrite ==
  /\ child = "close write"
  /\ child' = "read"
  /\ UNCHANGED <<parentVars, childStatus, executed, pipeVars, setup>>

ChildCloseWrite ==
  /\ child = "close write"
  /\ child' = "read"
  /\ writers' = writers \ {"child"}
  /\ UNCHANGED <<parentVars, childStatus, executed, readers, buffer, setup>>

(* read returns the byte, or 0 when nobody can write one any more. *)
ChildRead ==
  /\ child = "read"
  /\ \/ /\ buffer = 1
        /\ buffer' = 0
        /\ child' = "close read"
        /\ UNCHANGED <<childStatus, writers, readers>>
     \/ /\ buffer = 0
        /\ writers = {}
        /\ ChildEnds(1)
  /\ UNCHANGED <<parentVars, executed, setup>>

ChildCloseRead ==
  /\ child = "close read"
  /\ child' = "exec"
  /\ readers' = readers \ {"child"}
  /\ UNCHANGED <<parentVars, childStatus, executed, writers, buffer, setup>>

(* sethostname, whose failure is not fatal, setup_mounts, and execvp. *)
Exec ==
  /\ child = "exec"
  /\ \/ /\ child' = "running"
        /\ executed' = "yes"
        /\ UNCHANGED <<childStatus, pipeVars>>
     \/ ChildEnds(1) /\ UNCHANGED executed
  /\ UNCHANGED <<parentVars, setup>>

CommandEnds ==
  /\ child = "running"
  /\ \E s \in Statuses : ChildEnds(s)
  /\ UNCHANGED <<parentVars, executed, setup>>

Child ==
  FallThrough \/ ChildCloseWrite \/ ChildRead \/ ChildCloseRead \/ Exec

------------------------------------------------------------------------------
(* SIGKILL, at any time. *)

KillParent ==
  /\ pc \notin {"exited", "killed"}
  /\ ParentEnds("killed", 1)
  /\ UNCHANGED <<command, user, childVars, setup>>

KillChild ==
  /\ child \notin {"none", "dead", "reaped"}
  /\ ChildEnds(Signalled)
  /\ UNCHANGED <<parentVars, executed, setup>>

Next == Parent \/ Child \/ CommandEnds \/ KillParent \/ KillChild

(* Both processes get CPU time.  That the command ends is not assumed. *)
Spec == Init /\ [][Next]_vars /\ WF_vars(Parent) /\ WF_vars(Child)

------------------------------------------------------------------------------
(* Properties. *)

TypeOK ==
  /\ pc \in {"main", "fork", "pipe", "clone", "close read", "set up", "write",
             "close write", "wait", "exited", "killed"}
  /\ command \in Commands
  /\ user \in {"root", "other"}
  /\ status \in Statuses \cup {0, 1}
  /\ child \in {"none", "fallen through", "close write", "read", "close read",
                "exec", "running", "dead", "reaped"}
  /\ childStatus \in Statuses \cup {0, 1, Signalled}
  /\ writers \subseteq {"parent", "child"}
  /\ readers \subseteq {"parent", "child"}
  /\ buffer \in {0, 1}
  /\ setup \in {"no", "done", "failed"}
  /\ executed \in {"no", "yes"}

Ended == pc \in {"exited", "killed"}

(* The child executes nothing before the parent has finished its part of   *)
(* the set-up, however the two are scheduled and whoever is killed.        *)
SetUpBeforeExec == child \in {"close read", "exec", "running"} => setup # "no"

(* minictl reports success only for a command that ran and succeeded, and  *)
(* never for a container that failed to start or was killed.               *)
SuccessIsReal ==
  pc = "exited" /\ status = 0 /\ command # "--help"
    => executed = "yes" /\ childStatus = 0

(* A minictl that exits leaves no child behind; only one that is killed    *)
(* does.                                                                   *)
NoChildLeft == pc = "exited" => child \in {"none", "reaped"}

(* Neither waits for the other for ever: the child does not stay at the    *)
(* pipe, although the parent may be killed before it writes, because the   *)
(* end of the parent is the end of file; and minictl ends when its child   *)
(* does.                                                                   *)
NoStandstill ==
  /\ child = "read" ~> child # "read"
  /\ child = "dead" ~> Ended

==============================================================================
