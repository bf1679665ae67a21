---------------------------- MODULE MCRunFamily ----------------------------
(* TLC instances of RunFamily. Owners and batches are numbered.            *)
EXTENDS RunFamily, TLC

\* Owners and batches are interchangeable fresh tokens, so it is enough to
\* explore the behaviours that draw them in ascending order.
InOrder ==
  /\ \A p \in Owner : \A o \in 1..(p - 1) :
       inv[p].pc # "free" => inv[o].pc # "free"
  /\ \A b \in issued : 1..b \subseteq issued

ChildSymmetry == Permutations(Child)

=============================================================================
