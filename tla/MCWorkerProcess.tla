-------------------------- MODULE MCWorkerProcess --------------------------
(* TLC instances of WorkerProcess. *)
EXTENDS WorkerProcess, TLC

CONSTANTS i1, i2, i3

\* A job that makes a schedule due, and a job that arrives by itself.
Kinds == (i1 :> "job") @@ (i2 :> "agent") @@ (i3 :> "job")
Mixed == (i1 :> None) @@ (i2 :> i1) @@ (i3 :> None)

=============================================================================
