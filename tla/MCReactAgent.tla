---------------------------- MODULE MCReactAgent ----------------------------
(* One agent with every script of up to two turns, and two agents with one  *)
(* turn each.                                                               *)
EXTENDS ReactAgent, TLC

CONSTANTS a1, a2

MCTurns ==
  {<<>>, <<"ok">>, <<"ok", "ok">>, <<"raises", "ok">>, <<"ok", "raises">>,
   <<"final">>, <<"ok", "final">>, <<"final", "ok">>}

MCAlone == [{a1} -> UNION {[1 .. n -> MCTurns] : n \in 0 .. 2}]

MCTogether ==
  {a1 :> <<first>> @@ a2 :> <<>> : first \in {<<"ok", "ok">>, <<"raises">>}}
  \cup {a1 :> << <<"final">> >> @@ a2 :> << <<"final">> >>}

MCWorkloads == {w @@ a2 :> Absent : w \in MCAlone} \cup MCTogether

=============================================================================
