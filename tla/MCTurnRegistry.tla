--------------------------- MODULE MCTurnRegistry ---------------------------
(* TLC instances of TurnRegistry. *)
EXTENDS TurnRegistry, TLC

CONSTANTS t1, t2, t3, r1, r2, r3

\* Two turns of one run and a third beside them.
Shared == (t1 :> r1) @@ (t2 :> r1) @@ (t3 :> r2)
\* Two runs with a turn each.
Pair == (t1 :> r1) @@ (t2 :> r2)
\* Three runs with a turn each.
Single == (t1 :> r1) @@ (t2 :> r2) @@ (t3 :> r3)
\* Turns may be exchanged together with their runs.
Symmetry ==
  {p @@ [r \in {r1, r2, r3} |-> Single[p[CHOOSE t \in Turn : Single[t] = r]]] :
     p \in Permutations({t1, t2, t3})}

=============================================================================
