---------------------------- MODULE MinictlProofs ----------------------------
(***************************************************************************)
(* Theorems about Minictl, for every set of commands and exit statuses:    *)
(* what its invariants say holds wherever a call fails and whenever one of *)
(* the two processes is killed.                                            *)
(***************************************************************************)
EXTENDS Minictl, TLAPS

(* Before the fork or clone, and between it and the end of the wait. *)
Alone == {"main", "fork", "pipe", "clone"}

WithChild == {"close read", "set up", "write", "close write", "wait"}

(* The child can be past the pipe only by the byte in it, and the byte is  *)
(* written only after the set-up.                                          *)
ByteIsSetUp == buffer = 1 => setup # "no"

SetUpInOrder ==
  pc \in {"write", "close write"} => setup # "no"

(* A child belongs to minictl from the moment it is made to the moment it  *)
(* is reaped.                                                              *)
ChildOfParent ==
  /\ pc \in Alone => child = "none"
  /\ pc \in WithChild => child \notin {"none", "reaped"}

(* A child can end with status 0 only by its command. *)
StatusOfCommand ==
  /\ child = "running" => executed = "yes"
  /\ child \in {"dead", "reaped"} /\ childStatus = 0 => executed = "yes"

IInv ==
  /\ TypeOK
  /\ ByteIsSetUp
  /\ SetUpInOrder
  /\ ChildOfParent
  /\ StatusOfCommand
  /\ SetUpBeforeExec
  /\ SuccessIsReal
  /\ NoChildLeft

------------------------------------------------------------------------------
LEMMA Numbers == 1 # 0 /\ Signalled # 0
  BY DEF Signalled

LEMMA InitInv == Init => IInv
  BY DEF Init, IInv, TypeOK, ByteIsSetUp, SetUpInOrder, ChildOfParent,
         StatusOfCommand, SetUpBeforeExec, SuccessIsReal, NoChildLeft,
         Alone, WithChild

(* The parent's actions. *)
LEMMA ParentInv == IInv /\ Parent => IInv'
  <1> SUFFICES ASSUME IInv, Parent PROVE IInv'
    OBVIOUS
  <1> USE Numbers DEF Alone, WithChild, childVars, pipeVars, ParentGoes,
                      ParentEnds, Closes
  <1>1. CASE Main
    <2>1. TypeOK'
      BY <1>1, ZenonT(60) DEF Main, IInv, TypeOK
    <2>2. ByteIsSetUp' /\ SetUpInOrder' /\ SetUpBeforeExec'
      BY <1>1 DEF Main, IInv, TypeOK, ByteIsSetUp, SetUpInOrder,
                  SetUpBeforeExec
    <2>3. ChildOfParent' /\ NoChildLeft'
      BY <1>1 DEF Main, IInv, TypeOK, ChildOfParent, NoChildLeft
    <2>4. StatusOfCommand' /\ SuccessIsReal'
      BY <1>1 DEF Main, IInv, TypeOK, StatusOfCommand, SuccessIsReal,
                  ChildOfParent, NoChildLeft
    <2> QED
      BY <2>1, <2>2, <2>3, <2>4 DEF IInv
  <1>2. CASE Fork
    <2>1. TypeOK'
      BY <1>2 DEF Fork, IInv, TypeOK
    <2>2. ByteIsSetUp' /\ SetUpInOrder' /\ SetUpBeforeExec'
      BY <1>2 DEF Fork, IInv, TypeOK, ByteIsSetUp, SetUpInOrder,
                  SetUpBeforeExec
    <2>3. ChildOfParent' /\ NoChildLeft'
      BY <1>2 DEF Fork, IInv, TypeOK, ChildOfParent, NoChildLeft
    <2>4. StatusOfCommand' /\ SuccessIsReal'
      BY <1>2 DEF Fork, IInv, TypeOK, StatusOfCommand, SuccessIsReal,
                  ChildOfParent, NoChildLeft
    <2> QED
      BY <2>1, <2>2, <2>3, <2>4 DEF IInv
  <1>3. CASE MakePipe
    <2>1. TypeOK'
      BY <1>3 DEF MakePipe, IInv, TypeOK
    <2>2. ByteIsSetUp' /\ SetUpInOrder' /\ SetUpBeforeExec'
      BY <1>3 DEF MakePipe, IInv, TypeOK, ByteIsSetUp, SetUpInOrder,
                  SetUpBeforeExec
    <2>3. ChildOfParent' /\ NoChildLeft'
      BY <1>3 DEF MakePipe, IInv, TypeOK, ChildOfParent, NoChildLeft
    <2>4. StatusOfCommand' /\ SuccessIsReal'
      BY <1>3 DEF MakePipe, IInv, TypeOK, StatusOfCommand, SuccessIsReal,
                  ChildOfParent, NoChildLeft
    <2> QED
      BY <2>1, <2>2, <2>3, <2>4 DEF IInv
  <1>4. CASE Clone
    <2>1. TypeOK'
      BY <1>4 DEF Clone, IInv, TypeOK
    <2>2. ByteIsSetUp' /\ SetUpInOrder' /\ SetUpBeforeExec'
      BY <1>4 DEF Clone, IInv, TypeOK, ByteIsSetUp, SetUpInOrder,
                  SetUpBeforeExec
    <2>3. ChildOfParent' /\ NoChildLeft'
      BY <1>4 DEF Clone, IInv, TypeOK, ChildOfParent, NoChildLeft
    <2>4. StatusOfCommand' /\ SuccessIsReal'
      BY <1>4 DEF Clone, IInv, TypeOK, StatusOfCommand, SuccessIsReal,
                  ChildOfParent, NoChildLeft
    <2> QED
      BY <2>1, <2>2, <2>3, <2>4 DEF IInv
  <1>5. CASE CloseRead
    <2>1. TypeOK'
      BY <1>5 DEF CloseRead, IInv, TypeOK
    <2>2. ByteIsSetUp' /\ SetUpInOrder' /\ SetUpBeforeExec'
      BY <1>5 DEF CloseRead, IInv, TypeOK, ByteIsSetUp, SetUpInOrder,
                  SetUpBeforeExec
    <2>3. ChildOfParent' /\ NoChildLeft'
      BY <1>5 DEF CloseRead, IInv, TypeOK, ChildOfParent, NoChildLeft
    <2>4. StatusOfCommand' /\ SuccessIsReal'
      BY <1>5 DEF CloseRead, IInv, TypeOK, StatusOfCommand, SuccessIsReal,
                  ChildOfParent, NoChildLeft
    <2> QED
      BY <2>1, <2>2, <2>3, <2>4 DEF IInv
  <1>6. CASE SetUp
    <2>1. TypeOK'
      BY <1>6 DEF SetUp, IInv, TypeOK
    <2>2. ByteIsSetUp' /\ SetUpInOrder' /\ SetUpBeforeExec'
      BY <1>6 DEF SetUp, IInv, TypeOK, ByteIsSetUp, SetUpInOrder,
                  SetUpBeforeExec
    <2>3. ChildOfParent' /\ NoChildLeft'
      BY <1>6 DEF SetUp, IInv, TypeOK, ChildOfParent, NoChildLeft
    <2>4. StatusOfCommand' /\ SuccessIsReal'
      BY <1>6 DEF SetUp, IInv, TypeOK, StatusOfCommand, SuccessIsReal,
                  ChildOfParent, NoChildLeft
    <2> QED
      BY <2>1, <2>2, <2>3, <2>4 DEF IInv
  <1>7. CASE Write
    <2>1. TypeOK'
      BY <1>7 DEF Write, IInv, TypeOK
    <2>2. ByteIsSetUp' /\ SetUpInOrder' /\ SetUpBeforeExec'
      BY <1>7 DEF Write, IInv, TypeOK, ByteIsSetUp, SetUpInOrder,
                  SetUpBeforeExec
    <2>3. ChildOfParent' /\ NoChildLeft'
      BY <1>7 DEF Write, IInv, TypeOK, ChildOfParent, NoChildLeft
    <2>4. StatusOfCommand' /\ SuccessIsReal'
      BY <1>7 DEF Write, IInv, TypeOK, StatusOfCommand, SuccessIsReal,
                  ChildOfParent, NoChildLeft
    <2> QED
      BY <2>1, <2>2, <2>3, <2>4 DEF IInv
  <1>8. CASE CloseWrite
    <2>1. TypeOK'
      BY <1>8 DEF CloseWrite, IInv, TypeOK
    <2>2. ByteIsSetUp' /\ SetUpInOrder' /\ SetUpBeforeExec'
      BY <1>8 DEF CloseWrite, IInv, TypeOK, ByteIsSetUp, SetUpInOrder,
                  SetUpBeforeExec
    <2>3. ChildOfParent' /\ NoChildLeft'
      BY <1>8 DEF CloseWrite, IInv, TypeOK, ChildOfParent, NoChildLeft
    <2>4. StatusOfCommand' /\ SuccessIsReal'
      BY <1>8 DEF CloseWrite, IInv, TypeOK, StatusOfCommand, SuccessIsReal,
                  ChildOfParent, NoChildLeft
    <2> QED
      BY <2>1, <2>2, <2>3, <2>4 DEF IInv
  <1>9. CASE Wait
    <2>1. TypeOK'
      BY <1>9 DEF Wait, IInv, TypeOK
    <2>2. ByteIsSetUp' /\ SetUpInOrder' /\ SetUpBeforeExec'
      BY <1>9 DEF Wait, IInv, TypeOK, ByteIsSetUp, SetUpInOrder,
                  SetUpBeforeExec
    <2>3. ChildOfParent' /\ NoChildLeft'
      BY <1>9 DEF Wait, IInv, TypeOK, ChildOfParent, NoChildLeft
    <2>4. StatusOfCommand' /\ SuccessIsReal'
      BY <1>9 DEF Wait, IInv, TypeOK, StatusOfCommand, SuccessIsReal,
                  ChildOfParent, NoChildLeft
    <2> QED
      BY <2>1, <2>2, <2>3, <2>4 DEF IInv
  <1> QED
    BY <1>1, <1>2, <1>3, <1>4, <1>5, <1>6, <1>7, <1>8, <1>9 DEF Parent

(* The child's actions, and the end of its command. *)
LEMMA ChildInv == IInv /\ (Child \/ CommandEnds) => IInv'
  <1> SUFFICES ASSUME IInv, Child \/ CommandEnds PROVE IInv'
    OBVIOUS
  <1> USE Numbers DEF Alone, WithChild, parentVars, pipeVars, ChildEnds, Closes
  <1>1. CASE FallThrough
    <2>1. TypeOK'
      BY <1>1 DEF FallThrough, IInv, TypeOK
    <2>2. ByteIsSetUp' /\ SetUpInOrder' /\ SetUpBeforeExec'
      BY <1>1 DEF FallThrough, IInv, TypeOK, ByteIsSetUp, SetUpInOrder,
                  SetUpBeforeExec
    <2>3. ChildOfParent' /\ NoChildLeft'
      BY <1>1 DEF FallThrough, IInv, TypeOK, ChildOfParent, NoChildLeft
    <2>4. StatusOfCommand' /\ SuccessIsReal'
      BY <1>1 DEF FallThrough, IInv, TypeOK, StatusOfCommand, SuccessIsReal,
                  ChildOfParent, NoChildLeft
    <2> QED
      BY <2>1, <2>2, <2>3, <2>4 DEF IInv
  <1>2. CASE ChildCloseWrite
    <2>1. TypeOK'
      BY <1>2 DEF ChildCloseWrite, IInv, TypeOK
    <2>2. ByteIsSetUp' /\ SetUpInOrder' /\ SetUpBeforeExec'
      BY <1>2 DEF ChildCloseWrite, IInv, TypeOK, ByteIsSetUp, SetUpInOrder,
                  SetUpBeforeExec
    <2>3. ChildOfParent' /\ NoChildLeft'
      BY <1>2 DEF ChildCloseWrite, IInv, TypeOK, ChildOfParent, NoChildLeft
    <2>4. StatusOfCommand' /\ SuccessIsReal'
      BY <1>2 DEF ChildCloseWrite, IInv, TypeOK, StatusOfCommand,
                  SuccessIsReal, ChildOfParent, NoChildLeft
    <2> QED
      BY <2>1, <2>2, <2>3, <2>4 DEF IInv
  <1>3. CASE ChildRead
    <2>1. TypeOK'
      BY <1>3 DEF ChildRead, IInv, TypeOK
    <2>2. ByteIsSetUp' /\ SetUpInOrder' /\ SetUpBeforeExec'
      BY <1>3 DEF ChildRead, IInv, TypeOK, ByteIsSetUp, SetUpInOrder,
                  SetUpBeforeExec
    <2>3. ChildOfParent' /\ NoChildLeft'
      BY <1>3 DEF ChildRead, IInv, TypeOK, ChildOfParent, NoChildLeft
    <2>4. StatusOfCommand' /\ SuccessIsReal'
      BY <1>3 DEF ChildRead, IInv, TypeOK, StatusOfCommand, SuccessIsReal,
                  ChildOfParent, NoChildLeft
    <2> QED
      BY <2>1, <2>2, <2>3, <2>4 DEF IInv
  <1>4. CASE ChildCloseRead
    <2>1. TypeOK'
      BY <1>4 DEF ChildCloseRead, IInv, TypeOK
    <2>2. ByteIsSetUp' /\ SetUpInOrder' /\ SetUpBeforeExec'
      BY <1>4 DEF ChildCloseRead, IInv, TypeOK, ByteIsSetUp, SetUpInOrder,
                  SetUpBeforeExec
    <2>3. ChildOfParent' /\ NoChildLeft'
      BY <1>4 DEF ChildCloseRead, IInv, TypeOK, ChildOfParent, NoChildLeft
    <2>4. StatusOfCommand' /\ SuccessIsReal'
      BY <1>4 DEF ChildCloseRead, IInv, TypeOK, StatusOfCommand, SuccessIsReal,
                  ChildOfParent, NoChildLeft
    <2> QED
      BY <2>1, <2>2, <2>3, <2>4 DEF IInv
  <1>5. CASE Exec
    <2>1. TypeOK'
      BY <1>5 DEF Exec, IInv, TypeOK
    <2>2. ByteIsSetUp' /\ SetUpInOrder' /\ SetUpBeforeExec'
      BY <1>5 DEF Exec, IInv, TypeOK, ByteIsSetUp, SetUpInOrder,
                  SetUpBeforeExec
    <2>3. ChildOfParent' /\ NoChildLeft'
      BY <1>5 DEF Exec, IInv, TypeOK, ChildOfParent, NoChildLeft
    <2>4. StatusOfCommand' /\ SuccessIsReal'
      BY <1>5 DEF Exec, IInv, TypeOK, StatusOfCommand, SuccessIsReal,
                  ChildOfParent, NoChildLeft
    <2> QED
      BY <2>1, <2>2, <2>3, <2>4 DEF IInv
  <1>6. CASE CommandEnds
    <2>1. TypeOK'
      BY <1>6 DEF CommandEnds, IInv, TypeOK
    <2>2. ByteIsSetUp' /\ SetUpInOrder' /\ SetUpBeforeExec'
      BY <1>6 DEF CommandEnds, IInv, TypeOK, ByteIsSetUp, SetUpInOrder,
                  SetUpBeforeExec
    <2>3. ChildOfParent' /\ NoChildLeft'
      BY <1>6 DEF CommandEnds, IInv, TypeOK, ChildOfParent, NoChildLeft
    <2>4. StatusOfCommand' /\ SuccessIsReal'
      BY <1>6 DEF CommandEnds, IInv, TypeOK, StatusOfCommand, SuccessIsReal,
                  ChildOfParent, NoChildLeft
    <2> QED
      BY <2>1, <2>2, <2>3, <2>4 DEF IInv
  <1> QED
    BY <1>1, <1>2, <1>3, <1>4, <1>5, <1>6 DEF Child

(* SIGKILL of either. *)
LEMMA KillInv == IInv /\ (KillParent \/ KillChild) => IInv'
  <1> SUFFICES ASSUME IInv, KillParent \/ KillChild PROVE IInv'
    OBVIOUS
  <1> USE Numbers DEF Alone, WithChild, parentVars, childVars, ParentEnds,
                      ChildEnds, Closes
  <1>1. CASE KillParent
    <2>1. TypeOK'
      BY <1>1 DEF KillParent, IInv, TypeOK
    <2>2. ByteIsSetUp' /\ SetUpInOrder' /\ SetUpBeforeExec'
      BY <1>1 DEF KillParent, IInv, TypeOK, ByteIsSetUp, SetUpInOrder,
                  SetUpBeforeExec
    <2>3. ChildOfParent' /\ NoChildLeft'
      BY <1>1 DEF KillParent, IInv, TypeOK, ChildOfParent, NoChildLeft
    <2>4. StatusOfCommand' /\ SuccessIsReal'
      BY <1>1 DEF KillParent, IInv, TypeOK, StatusOfCommand, SuccessIsReal,
                  ChildOfParent, NoChildLeft
    <2> QED
      BY <2>1, <2>2, <2>3, <2>4 DEF IInv
  <1>2. CASE KillChild
    <2>1. TypeOK'
      BY <1>2 DEF KillChild, IInv, TypeOK
    <2>2. ByteIsSetUp' /\ SetUpInOrder' /\ SetUpBeforeExec'
      BY <1>2 DEF KillChild, IInv, TypeOK, ByteIsSetUp, SetUpInOrder,
                  SetUpBeforeExec
    <2>3. ChildOfParent' /\ NoChildLeft'
      BY <1>2 DEF KillChild, IInv, TypeOK, ChildOfParent, NoChildLeft
    <2>4. StatusOfCommand'
      BY <1>2 DEF KillChild, IInv, TypeOK, StatusOfCommand, SuccessIsReal,
                  ChildOfParent, NoChildLeft
    <2>5. SuccessIsReal'
      BY <1>2 DEF KillChild, IInv, TypeOK, SuccessIsReal, StatusOfCommand,
                  ChildOfParent, NoChildLeft
    <2> QED
      BY <2>1, <2>2, <2>3, <2>4, <2>5 DEF IInv
  <1> QED
    BY <1>1, <1>2

LEMMA StutterInv == IInv /\ UNCHANGED vars => IInv'
  BY DEF IInv, TypeOK, ByteIsSetUp, SetUpInOrder, ChildOfParent,
         StatusOfCommand, SetUpBeforeExec, SuccessIsReal, NoChildLeft,
         Alone, WithChild, vars, parentVars, childVars, pipeVars

(* What ties the two processes together holds throughout: the child is     *)
(* past the pipe only after the set-up, it belongs to minictl until it is  *)
(* reaped, and only its command ends it with status 0.                     *)
THEOREM HandOver == Spec => []IInv
  <1>1. Init => IInv
    BY InitInv
  <1>2. IInv /\ [Next]_vars => IInv'
    BY ParentInv, ChildInv, KillInv, StutterInv DEF Next
  <1> QED
    BY <1>1, <1>2, PTL DEF Spec

(* No child of minictl run goes past the pipe before the set-up was made   *)
(* or has failed (setup_user_namespace before the write of cmd_run).       *)
THEOREM SetUpComesFirst == Spec => []SetUpBeforeExec
  <1>1. IInv => SetUpBeforeExec
    BY DEF IInv
  <1> QED
    BY <1>1, HandOver, PTL

(* A status of 0 that minictl exits with is its command's (cmd_run's use   *)
(* of WIFEXITED and WEXITSTATUS).                                          *)
THEOREM SuccessIsTheCommands == Spec => []SuccessIsReal
  <1>1. IInv => SuccessIsReal
    BY DEF IInv
  <1> QED
    BY <1>1, HandOver, PTL

(* A minictl that exits has reaped the child it made, on every path of     *)
(* cmd_run and cmd_chroot.                                                 *)
THEOREM EveryChildIsReaped == Spec => []NoChildLeft
  <1>1. IInv => NoChildLeft
    BY DEF IInv
  <1> QED
    BY <1>1, HandOver, PTL

==============================================================================
