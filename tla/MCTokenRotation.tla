-------------------------- MODULE MCTokenRotation --------------------------
(* Instances of TokenRotation: which operations meet. *)
EXTENDS TokenRotation

Pairs == {<<"warm", "opportune">>, <<"force", "read">>, <<"read", "opportune">>,
          <<"list", "opportune">>}

Pairing ==
  LET one == CHOOSE t \in Task : TRUE
  IN {[t \in Task |-> IF t = one THEN p[1] ELSE p[2]] : p \in Pairs}

============================================================================
